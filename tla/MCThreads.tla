----------------------------- MODULE MCThreads -----------------------------
(* Model-checking instance of the plugins whose operations threads call at   *)
(* the same time: users and keys of SP, sockets of NP, the repository of     *)
(* GIT, the routes of the kernel; and the processes of the params command.   *)
(* SP's two tables share a mutex, but no section of one changes the other;   *)
(* the rest share nothing.  A behaviour uses one of the six, and the others  *)
(* stay as they are.                                                         *)
EXTENDS SpUsers, SpKeys, Network, Repository, KernelRoutes, ParamStore

VARIABLE part         \* the plugin, or table, this behaviour uses

MCAccounts ==
  [u1 |-> {[pw |-> "p1", roles |-> <<"operator">>, enabled |-> TRUE],
           [pw |-> "p2", roles |-> <<"security">>, enabled |-> FALSE]},
   u2 |-> {[pw |-> "p2", roles |-> <<"nobody", "operator">>, enabled |-> TRUE]}]
\* Two rows of sp_role_matrix with some of their permissions.
MCMatrix == [operator |-> {"fs.write", "key.sign"}, security |-> {"key.*"}]
MCCovers == ("fs.write" :> {"fs.write"}) @@ ("key.sign" :> {"key.sign"})
              @@ ("key.*" :> {"key.sign", "key.gen"})
MCFamilies == {<<"inet", "stream">>, <<"unix", "dgram">>}
\* One key before another, one below another, one that reads as a comment; a value
\* that is empty, and one whose soft character is inside and, in a cut line, at its end.
MCKeys == {<<"a">>, <<"a", "b">>, <<"#", "b">>}
MCValues == {<<>>, <<"w", "\"", "v">>}
\* A name that does not fit its field, and the name it is cut to.
MCCutName == [p |-> "p", long |-> "long", longer |-> "long"]
\* No thread is special.
Symmetric == Permutations(Threads)

vars == <<part, userVars, keyVars, netVars, repoVars, kernelVars, paramVars>>

Init ==
  /\ part \in {"users", "keys", "sockets", "repository", "kernel", "params"}
  /\ UsersInit /\ KeysInit /\ NetworkInit /\ RepositoryInit /\ KernelInit /\ ParamStoreInit
  /\ part # "repository" => repo = NoRepo
  /\ part # "kernel" => ~device /\ want = [t \in Threads |-> "p"]

Uses(p) ==
  /\ part = p /\ UNCHANGED part
  /\ p # "users" => UNCHANGED userVars
  /\ p # "keys" => UNCHANGED keyVars
  /\ p # "sockets" => UNCHANGED netVars
  /\ p # "repository" => UNCHANGED repoVars
  /\ p # "kernel" => UNCHANGED kernelVars
  /\ p # "params" => UNCHANGED paramVars

Next ==
  \/ Uses("users") /\ UsersNext
  \/ Uses("keys") /\ KeysNext
  \/ Uses("sockets") /\ NetworkNext
  \/ Uses("repository") /\ RepositoryNext
  \/ Uses("kernel") /\ KernelNext
  \/ Uses("params") /\ ParamStoreNext
Spec == Init /\ [][Next]_vars
=============================================================================

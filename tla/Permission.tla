----------------------------- MODULE Permission -----------------------------
(***************************************************************************)
(* permission_impl.c: role-based access control with a state file.  Every  *)
(* operation is a section under g_lock; an operation that changed the      *)
(* policy then calls autosave_state, a second section that writes the      *)
(* whole policy to a temporary file and renames it over the state file.    *)
(* Threads interleave between the two sections, and the process may stop   *)
(* at any moment and be started again.                                     *)
(*                                                                         *)
(* A refused call (EINVAL, EEXIST, ENOENT, ENOSPC) changes nothing and is  *)
(* a stuttering step.  Role descriptions are left out.                     *)
(***************************************************************************)
EXTENDS Naturals, FiniteSetsExt

CONSTANTS Threads,    \* threads that call the operations
          Roles, Subjects,
          Actions,    \* action patterns of permission entries
          Asked,      \* actions asked for in a check
          ActionGlobs, \* action pattern -> the actions glob_match matches it with
          Patterns,   \* resource patterns of permission entries
          Targets,    \* resources asked for in a check
          Trim,       \* pattern -> the pattern without leading and trailing blanks
          Globs,      \* pattern -> the targets glob_match matches it with
          ANY,        \* the empty pattern
          Paths,      \* state files
          DEFAULT,    \* default_state_path
          PermMax,    \* HW_PERMISSION_ROLE_MAX_PERMS
          WriteFails, \* opening, writing or renaming the state file may fail
          ChangeMax   \* bound: changes of the policy

NOPATH == "nopath"    \* the empty state_file: autosave_state does nothing

ASSUME PermissionAssumption ==
  /\ ANY \in Patterns
  /\ Trim \in [Patterns -> Patterns] /\ \A r \in Patterns : Trim[Trim[r]] = Trim[r]
  /\ ActionGlobs \in [Actions -> SUBSET Asked] /\ Globs \in [Patterns -> SUBSET Targets]
  /\ DEFAULT \in Paths /\ NOPATH \notin Paths
  /\ PermMax \in Nat \ {0} /\ ChangeMax \in Nat
  /\ WriteFails \in BOOLEAN

VARIABLES mem,        \* the policy in memory
          files,      \* the policy written in each state file
          exists,     \* the state files that exist
          path,       \* g_ctx.state_file
          up,         \* the plugin is started
          pc,         \* "idle" or "autosave"
          mine,       \* the revision each thread's operation made
          rev, fileRev,   \* revision of the policy in memory and in each file
          acked,      \* the latest revision whose operation has returned
          detached    \* memory and the default file were told to differ

vars == <<mem, files, exists, path, up, pc, mine, rev, fileRev, acked, detached>>
disk == <<files, exists, fileRev>>

Entry == [action : Actions, resource : Patterns]
Policy == [roles : SUBSET Roles, perms : [Roles -> SUBSET Entry],
           grants : SUBSET (Subjects \X Roles)]
Empty == [roles |-> {}, perms |-> [r \in Roles |-> {}], grants |-> {}]

TypeOK ==
  /\ mem \in Policy
  /\ \A r \in Roles : Cardinality(mem.perms[r]) <= PermMax
  /\ files \in [Paths -> Policy]
  /\ exists \subseteq Paths
  /\ path \in Paths \cup {NOPATH}
  /\ up \in BOOLEAN /\ detached \in BOOLEAN
  /\ pc \in [Threads -> {"idle", "autosave"}]
  /\ mine \in [Threads -> 0 .. ChangeMax]
  /\ rev \in 0 .. ChangeMax /\ acked \in 0 .. ChangeMax
  /\ fileRev \in [Paths -> 0 .. ChangeMax]

Init ==
  /\ mem = Empty /\ files = [p \in Paths |-> Empty] /\ exists = {}
  /\ path = NOPATH /\ up = FALSE
  /\ pc = [t \in Threads |-> "idle"] /\ mine = [t \in Threads |-> 0]
  /\ rev = 0 /\ fileRev = [p \in Paths |-> 0] /\ acked = 0 /\ detached = FALSE

-----------------------------------------------------------------------------
(* Changes of the policy.                                                  *)

\* The first section of an operation that succeeds.
Change(t, policy) ==
  /\ up /\ pc[t] = "idle" /\ rev < ChangeMax
  /\ mem' = policy
  /\ rev' = rev + 1
  /\ mine' = [mine EXCEPT ![t] = rev + 1]
  /\ pc' = [pc EXCEPT ![t] = "autosave"]
  /\ UNCHANGED <<disk, path, up, acked, detached>>

ops_role_add(t, r) ==
  /\ r \notin mem.roles
  /\ Change(t, [mem EXCEPT !.roles = @ \cup {r}, !.perms[r] = {}])

\* Mutant: the bindings of a removed role stay.
RoleRemoveNoCascade(t, r) ==
  /\ r \in mem.roles
  /\ Change(t, [mem EXCEPT !.roles = @ \ {r}, !.perms[r] = {}])

\* The role's bindings go with it.
ops_role_remove(t, r) ==
  /\ r \in mem.roles
  /\ Change(t, [mem EXCEPT !.roles = @ \ {r}, !.perms[r] = {},
                           !.grants = {g \in @ : g[2] # r}])

ops_role_add_perm(t, r, e) ==
  /\ r \in mem.roles /\ e \notin mem.perms[r]
  /\ Cardinality(mem.perms[r]) < PermMax
  /\ Change(t, [mem EXCEPT !.perms[r] = @ \cup {e}])

ops_role_remove_perm(t, r, e) ==
  /\ r \in mem.roles /\ e \in mem.perms[r]
  /\ Change(t, [mem EXCEPT !.perms[r] = @ \ {e}])

ops_grant(t, s, r) ==
  /\ r \in mem.roles /\ <<s, r>> \notin mem.grants
  /\ Change(t, [mem EXCEPT !.grants = @ \cup {<<s, r>>}])

ops_revoke(t, s, r) ==
  /\ <<s, r>> \in mem.grants
  /\ Change(t, [mem EXCEPT !.grants = @ \ {<<s, r>>}])

-----------------------------------------------------------------------------
(* The state file.                                                         *)

\* state_write_locked: temporary file and rename, so the file is replaced as
\* a whole or, on failure or a crash, not at all.
state_write_locked(p) ==
  /\ files' = [files EXCEPT ![p] = mem]
  /\ exists' = exists \cup {p}
  /\ fileRev' = [fileRev EXCEPT ![p] = rev]

\* Mutant: the last free place of a role's table is not used on reading.
ParsedOneShort(f) ==
  [f EXCEPT !.perms = [r \in Roles |-> IF Cardinality(f.perms[r]) < PermMax
                                       THEN f.perms[r] ELSE {}]]

\* state_read_locked: role lines first, then the perm and grant lines whose
\* role exists.  The rest of a perm line is the resource, trimmed; entries
\* that have become equal are one.
Parsed(f) ==
  [roles |-> f.roles,
   perms |-> [r \in Roles |->
                IF r \in f.roles
                THEN {[e EXCEPT !.resource = Trim[e.resource]] : e \in f.perms[r]}
                ELSE {}],
   grants |-> {g \in f.grants : g[2] \in f.roles}]

Returned(t) ==
  /\ pc' = [pc EXCEPT ![t] = "idle"]
  /\ acked' = Max({acked, mine[t]})

\* Mutant: the operation returns without writing.
AutosaveNothing(t) ==
  /\ pc[t] = "autosave"
  /\ UNCHANGED <<disk, detached>>
  /\ Returned(t)
  /\ UNCHANGED <<mem, path, up, mine, rev>>

\* autosave_state: a failure is logged and the operation still succeeds.
autosave_state(t) ==
  /\ pc[t] = "autosave"
  /\ \/ path = NOPATH /\ UNCHANGED <<disk, detached>>
     \/ /\ path # NOPATH /\ state_write_locked(path)
        /\ detached' = (detached /\ path # DEFAULT)
     \/ path # NOPATH /\ WriteFails /\ detached' = TRUE /\ UNCHANGED disk
  /\ Returned(t)
  /\ UNCHANGED <<mem, path, up, mine, rev>>

\* ops_set_state_file: only the path; "" switches saving off.
ops_set_state_file(t, p) ==
  /\ up /\ pc[t] = "idle" /\ p # path
  /\ path' = p /\ detached' = TRUE
  /\ UNCHANGED <<mem, disk, up, pc, mine, rev, acked>>

\* ops_save to a given path, or (NULL) to the current one, which falls back
\* to the default path.
ops_save(t, p) ==
  /\ up /\ pc[t] = "idle"
  /\ state_write_locked(p)
  /\ detached' = (detached /\ ~(p = DEFAULT /\ path = DEFAULT))
  /\ UNCHANGED <<mem, path, up, pc, mine, rev, acked>>

\* ops_load replaces the policy and does not write it back.
ops_load(t, p) ==
  /\ up /\ pc[t] = "idle" /\ p \in exists /\ rev < ChangeMax
  /\ mem' = Parsed(files[p]) /\ rev' = rev + 1 /\ detached' = TRUE
  /\ UNCHANGED <<disk, path, up, pc, mine, acked>>

-----------------------------------------------------------------------------
(* Life cycle.                                                             *)

\* hw_permission_state_open, from the plugin's start, in a new process, after
\* destroy, or after a stop that kept the policy: what the default file holds
\* becomes the policy; a missing file leaves the memory as it is.
hw_permission_state_open ==
  /\ \A t \in Threads : pc[t] = "idle"
  /\ up' = TRUE /\ path' = DEFAULT
  /\ mem' = IF DEFAULT \in exists THEN Parsed(files[DEFAULT]) ELSE mem
  /\ fileRev' = [fileRev EXCEPT ![DEFAULT] = rev]
  /\ detached' = (detached /\ DEFAULT \notin exists)
  /\ UNCHANGED <<files, exists, pc, mine, rev, acked>>

\* hw_permission_state_close, from destroy.  The bus unloads a plugin when
\* no caller is inside it.
hw_permission_state_close ==
  /\ up /\ \A t \in Threads : pc[t] = "idle"
  /\ up' = FALSE /\ mem' = Empty /\ path' = NOPATH
  /\ UNCHANGED <<disk, pc, mine, rev, acked, detached>>

\* The process ends anywhere; operations in progress never return.
Crash ==
  /\ up
  /\ up' = FALSE /\ mem' = Empty /\ path' = NOPATH
  /\ pc' = [t \in Threads |-> "idle"]
  /\ UNCHANGED <<disk, mine, rev, acked, detached>>

Operation(t) ==
  \/ \E r \in Roles : ops_role_add(t, r) \/ ops_role_remove(t, r)
  \/ \E r \in Roles, e \in Entry : ops_role_add_perm(t, r, e) \/ ops_role_remove_perm(t, r, e)
  \/ \E r \in Roles, s \in Subjects : ops_grant(t, s, r) \/ ops_revoke(t, s, r)
  \/ \E p \in Paths \cup {NOPATH} : ops_set_state_file(t, p)
  \/ \E p \in Paths : ops_save(t, p) \/ ops_load(t, p)

Next ==
  \/ \E t \in Threads : Operation(t) \/ autosave_state(t)
  \/ hw_permission_state_open \/ hw_permission_state_close \/ Crash

Spec == Init /\ [][Next]_vars

-----------------------------------------------------------------------------
(* Properties.                                                             *)

\* ops_check for a policy: default deny; some entry of some role of the
\* subject must match both action and resource, ANY matching every resource.
\* glob_match is the constants ActionGlobs and Globs (Matching has the algorithm).
ops_check(f, s, a, x) ==
  \E g \in f.grants : g[1] = s /\ g[2] \in f.roles /\
    \E e \in f.perms[g[2]] : a \in ActionGlobs[e.action] /\ (e.resource = ANY \/ x \in Globs[e.resource])

Decisions(f) == {d \in Subjects \X Asked \X Targets : ops_check(f, d[1], d[2], d[3])}

\* No binding outlives its role, through removals, reloads and restarts of
\* several threads (the comment in ops_check: dangling bindings do not exist).
NoDangling == \A g \in mem.grants : g[2] \in mem.roles

\* What an operation reported as done is in the state file, so a crash right
\* after it cannot undo it: also when another thread's autosave ran first or
\* in between.  Not after a reported path change, an explicit load, or a
\* write that failed (which is only logged).
AckedDurable == up /\ ~detached => acked <= fileRev[DEFAULT]

\* The resource patterns of a policy have no blanks at their ends.
Plain(f) == \A r \in Roles : \A e \in f.perms[r] : Trim[e.resource] = e.resource

\* Reading a state file back gives the same decisions as the policy that was
\* written: a restart neither widens nor narrows anyone's rights.  It needs
\* plain patterns: role_add_perm keeps a blank that state_apply_line trims,
\* and a pattern of blanks alone comes back as the empty one, any resource.
ReloadFaithful ==
  \A p \in Paths : Plain(files[p]) => Decisions(Parsed(files[p])) = Decisions(files[p])

\* The policy in memory is one the arrays can hold, and comes back from its file
\* as the same policy (ops_role_add_perm, state_apply_line).
PolicyReloads == TypeOK /\ ReloadFaithful
=============================================================================

----------------------------- MODULE ParamStore -----------------------------
(***************************************************************************)
(* The parameter tree of hwrun.c and the file that the params command of   *)
(* main.c keeps it in.  Each command is a process: it reads the file into  *)
(* a tree of its own, changes one parameter and writes the whole tree      *)
(* back, without a lock and in place.  (Param models the tree of the       *)
(* running bus with its watchers and its hook.)                            *)
(*                                                                         *)
(* A key is its segments between points, a value its characters; <<>> is   *)
(* the empty value, which hw_param_get does not tell from no value.  Keys  *)
(* hold no separator (: = and blanks), values no line break, both fit      *)
(* their buffers, and the file is smaller than the buffer of its stream.   *)
(***************************************************************************)
EXTENDS Callers, Integers, SequencesExt, FiniteSetsExt

CONSTANTS ParamKeys, ParamValues

ASSUME ParamStoreAssumption ==
  ParamKeys \subseteq Seq(STRING) \ {<<>>} /\ ParamValues \subseteq Seq(STRING)

VARIABLES stateConf,    \* the file: the text of each key that has a line
          commands      \* what each process is doing

paramVars == <<stateConf, commands>>

NoCommandRuns == [pc |-> "idle"]

-----------------------------------------------------------------------------
(* The tree: a value for each node, a node for each prefix of a key.       *)

EmptyTree == [node \in {} |-> <<>>]
PrefixesOf(key) == {SubSeq(key, 1, n) : n \in 1 .. Len(key)}

hw_param_find(tree, key) == key \in DOMAIN tree
hw_param_get(tree, key) == IF hw_param_find(tree, key) THEN tree[key] ELSE <<>>

\* Mutant: the nodes on the way are made anew.
SetFromRoot(tree, key, value) ==
  [node \in DOMAIN tree \cup PrefixesOf(key) |->
     IF node = key THEN value ELSE IF node \in DOMAIN tree \ PrefixesOf(key) THEN tree[node] ELSE <<>>]

\* hw_param_set: one segment after the other, with nodes without a value where
\* there are none.
hw_param_set(tree, key, value) ==
  [node \in DOMAIN tree \cup PrefixesOf(key) |->
     IF node = key THEN value ELSE IF node \in DOMAIN tree THEN tree[node] ELSE <<>>]

\* hw_param_save_file: a line for each node with a value.
SaveTree(tree) == [node \in {n \in DOMAIN tree : tree[n] # <<>>} |-> tree[node]]

\* Blanks and quotes at both ends of a value are not read.
Soft == {" ", "\""}
Trimmed(value) ==
  LET firm == {i \in DOMAIN value : value[i] \notin Soft} IN
  IF firm = {} THEN <<>> ELSE SubSeq(value, Min(firm), Max(firm))

\* hw_param_load_file, into an empty tree; a line that begins with # is a
\* comment.
LoadTree(file) ==
  LET read == {key \in DOMAIN file : key[1] # "#"}
      nodes == UNION {PrefixesOf(key) : key \in read} IN
  [node \in nodes |-> IF node \in read THEN Trimmed(file[node]) ELSE <<>>]

-----------------------------------------------------------------------------
ParamStoreInit ==
  /\ stateConf = EmptyTree
  /\ commands = [t \in Threads |-> NoCommandRuns]

\* A command has answered, and its file is written or, unknown to it, is not.
Ended == {"done", "unsaved"}
Running == {t \in Threads : commands[t].pc \notin Ended \cup {"idle"}}
\* From now on t, and who runs at the same time, are not alone.
Crowd(t, c) ==
  [u \in Threads |-> IF u = t THEN [c EXCEPT !.alone = c.alone /\ Running \ {t} = {}]
                     ELSE IF u \in Running THEN [commands[u] EXCEPT !.alone = FALSE]
                     ELSE IF commands[u].pc \in Ended THEN NoCommandRuns ELSE commands[u]]

\* "params set": load, then set, and say "ok".
ParamsSet(t, key, value) ==
  /\ commands[t].pc \in Ended \cup {"idle"}
  /\ LET tree == LoadTree(stateConf) IN
     commands' = Crowd(t, [pc |-> "set", key |-> key, value |-> value, before |-> tree,
                           tree |-> hw_param_set(tree, key, value), alone |-> TRUE])
  /\ UNCHANGED stateConf

\* fopen with "w" empties the file; what is written stays in the buffer.
OpenForSaving(t) ==
  /\ commands[t].pc = "set"
  /\ \/ /\ stateConf' = EmptyTree
        /\ commands' = [commands EXCEPT ![t].pc = "write"]
     \/ \* it cannot be opened; params_persist_save does not say so
        /\ Faults
        /\ commands' = [commands EXCEPT ![t].pc = "unsaved"]
        /\ UNCHANGED stateConf

\* fclose writes the buffer, and the command ends.
SaveAndEnd(t) ==
  /\ commands[t].pc = "write"
  /\ stateConf' = SaveTree(commands[t].tree)
  /\ commands' = [commands EXCEPT ![t].pc = "done"]

\* What a failed write leaves: some of the lines, and perhaps a part of another one (without
\* any of its value it reads like no line).  Which lines come first is not modelled.
CutLine(lines, kept, key, n) ==
  [k \in kept \cup {key} |-> IF k = key THEN SubSeq(lines[k], 1, n) ELSE lines[k]]
Remains(lines) ==
  UNION {{Restrict(lines, kept)}
           \cup UNION {{CutLine(lines, kept, key, n) : n \in 1 .. Len(lines[key]) - 1} :
                         key \in DOMAIN lines \ kept} :
           kept \in (SUBSET DOMAIN lines) \ {DOMAIN lines}}

\* The write fails, as it does on a full disk.  Neither fprintf nor fclose is looked at.
WriteFails(t) ==
  /\ Faults /\ commands[t].pc = "write"
  /\ stateConf' \in Remains(SaveTree(commands[t].tree))
  /\ commands' = [commands EXCEPT ![t].pc = "unsaved"]

\* The process is ended from outside.
KillCommand(t) ==
  /\ Faults /\ t \in Running
  /\ commands' = [commands EXCEPT ![t] = NoCommandRuns]
  /\ UNCHANGED stateConf

ParamStoreNext ==
  \E t \in Threads :
    \/ \E key \in ParamKeys, value \in ParamValues : ParamsSet(t, key, value)
    \/ OpenForSaving(t) \/ SaveAndEnd(t) \/ WriteFails(t) \/ KillCommand(t)

ParamStoreSpec == ParamStoreInit /\ [][ParamStoreNext]_paramVars

-----------------------------------------------------------------------------
\* A command that ran alone and whose file was written has changed what later commands
\* read in its own parameter and in no other, also where one key is the beginning of
\* another and after commands that were ended, or left a part of the file: the value is
\* the one it was given (without soft ends, for a key that is no comment).
ParamsPersist ==
  \A t \in Threads :
    LET c == commands[t]  after == LoadTree(stateConf) IN
    c.pc = "done" /\ c.alone =>
      \A key \in ParamKeys :
        IF key # c.key THEN hw_param_get(after, key) = hw_param_get(c.before, key)
        ELSE key[1] # "#" /\ Trimmed(c.value) = c.value => hw_param_get(after, key) = c.value

\* The comment in cmd_params: what exists is loaded first, so that it is not overwritten.
\* A command that ran alone and has answered leaves the other parameters as they were.
\* Fails on a full disk: nothing looks at what fprintf and fclose return.
SetKeepsOthers ==
  \A t \in Threads :
    LET c == commands[t] IN
    c.pc \in Ended /\ c.alone =>
      \A key \in ParamKeys \ {c.key} :
        hw_param_get(LoadTree(stateConf), key) = hw_param_get(c.before, key)
=============================================================================

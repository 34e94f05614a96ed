----------------------------- MODULE Repository -----------------------------
(***************************************************************************)
(* The GIT plugin (git/src): every operation is one git command in the     *)
(* repository, run by a shell that the calling thread waits for, with a    *)
(* line in the audit log before and after it.  The plugin has no lock; git *)
(* itself lets one command at a time change the repository and fails the   *)
(* others, or the other waits for its turn outside of this model.          *)
(*                                                                         *)
(* git is external: the repository is the commits (their files) of the     *)
(* branch that is checked out and of one other branch, the files staged,   *)
(* the tags and a remote.  Of the audit log the model keeps how many lines *)
(* each operation has; merges with conflicts, the rewriting of history by  *)
(* git filter-repo (compaction at a level above 0, where it is installed)  *)
(* and the queries are left out.                                           *)
(***************************************************************************)
EXTENDS Callers, Integers, SequencesExt, FiniteSetsExt

CONSTANTS Files, Tags,
          MaxCalls      \* bound: calls, the commits among them

ASSUME RepositoryAssumption == MaxCalls \in Nat /\ Files # {}

VARIABLES repo,         \* the repository
          audit,        \* audit.log: how many lines of each operation
          ops,          \* the operation each thread is in
          applied,      \* how many commands of each operation changed the repository
          unlogged,     \* lines that could not be written
          started       \* calls so far

repoVars == <<repo, audit, ops, applied, unlogged, started>>

NoRepo == [exists |-> FALSE, log |-> <<>>, other |-> <<>>, staged |-> {}, tags |-> <<>>, remote |-> <<>>]
NoOp == [pc |-> "idle", op |-> "none", arg |-> "none", ok |-> FALSE]

-----------------------------------------------------------------------------
(* git, as the commands use it: what a command makes of the repository, or *)
(* {} when it fails.                                                       *)

\* One branch may hold the other; otherwise a commit joins them.
Merged(mine, theirs) ==
  IF IsPrefix(theirs, mine) THEN mine ELSE IF IsPrefix(mine, theirs) THEN theirs
  ELSE Append(mine, Last(theirs))

Command(op, arg) ==
  IF ~repo.exists THEN IF op = "init" THEN {[repo EXCEPT !.exists = TRUE]} ELSE {}
  ELSE CASE op \in {"init", "clone"} -> {repo}
         [] op = "add" -> {[repo EXCEPT !.staged = @ \cup {arg}]}
         [] op = "commit" /\ repo.staged # {} ->
              {[repo EXCEPT !.log = Append(@, repo.staged), !.staged = {}]}
         [] op = "tag" /\ repo.log # <<>> /\ \A i \in DOMAIN repo.tags : repo.tags[i][1] # arg ->
              {[repo EXCEPT !.tags = Append(@, <<arg, Last(repo.log)>>)]}
         [] op = "reset --hard" /\ Len(repo.log) > 1 ->
              {[repo EXCEPT !.log = Front(@), !.staged = {}]}
         [] op = "reset --soft" /\ Len(repo.log) > 1 ->
              {[repo EXCEPT !.log = Front(@), !.staged = @ \cup Last(repo.log)]}
         [] op = "revert" /\ repo.log # <<>> /\ repo.staged = {} ->
              {[repo EXCEPT !.log = Append(@, Last(repo.log))]}
         [] op = "push" /\ IsPrefix(repo.remote, repo.log) /\ repo.log # <<>> ->
              {[repo EXCEPT !.remote = repo.log]}
         [] op = "pull" /\ IsPrefix(repo.log, repo.remote) -> {[repo EXCEPT !.log = repo.remote]}
         [] op = "branch" /\ repo.log # <<>> /\ repo.other = <<>> -> {[repo EXCEPT !.other = repo.log]}
         [] op = "checkout" /\ repo.other # <<>> /\ repo.staged = {} ->
              {[repo EXCEPT !.log = repo.other, !.other = repo.log]}
         [] op = "merge" /\ repo.other # <<>> /\ repo.staged = {} ->
              {[repo EXCEPT !.log = Merged(@, repo.other)]}
         [] OTHER -> {}

Arguments(op) == CASE op = "add" -> Files [] op = "tag" -> Tags [] OTHER -> {"none"}
Operations == {"init", "add", "commit", "tag", "reset --hard", "reset --soft", "revert",
               "push", "pull", "clone", "branch", "checkout", "merge"}

\* The plugin starts without a repository or with one whose remote is behind it
\* or ahead of it.
OldRepos == {[exists |-> TRUE, log |-> SubSeq(l, 1, 2), other |-> <<>>, staged |-> {},
              tags |-> <<>>, remote |-> SubSeq(l, 1, n)] :
               l \in {[i \in 1 .. 3 |-> Files]}, n \in {1, 3}}
RepositoryInit ==
  /\ repo \in {NoRepo} \cup OldRepos
  /\ audit = [op \in Operations \cup {"compact"} |-> 0]
  /\ applied = [op \in Operations |-> 0] /\ unlogged = 0 /\ started = 0
  /\ ops = [t \in Threads |-> NoOp]

-----------------------------------------------------------------------------
(* git_exec_audit: a line, the command, a line.                            *)

\* git_audit_write opens the log, appends one line and closes it.
AuditWrite(op) ==
  \/ audit' = [audit EXCEPT ![op] = @ + 1] /\ UNCHANGED unlogged
  \/ Faults /\ unlogged' = unlogged + 1 /\ UNCHANGED audit

\* Mutant: only the line with the result is written.
StartOpSilently(t, op, arg) ==
  /\ ops[t].pc = "idle" /\ started < MaxCalls
  /\ op # "init" => repo.exists
  /\ started' = started + 1
  /\ ops' = [ops EXCEPT ![t] = [pc |-> "command", op |-> op, arg |-> arg, ok |-> FALSE]]
  /\ UNCHANGED <<repo, audit, applied, unlogged>>

\* The line before the command (its result is "failed").
StartOp(t, op, arg) ==
  /\ ops[t].pc = "idle" /\ started < MaxCalls
  /\ op # "init" => repo.exists         \* ensure_repo, when the plugin starts
  /\ started' = started + 1
  /\ AuditWrite(op)
  /\ ops' = [ops EXCEPT ![t] = [pc |-> "command", op |-> op, arg |-> arg, ok |-> FALSE]]
  /\ UNCHANGED <<repo, applied>>

\* git_exec.  Another command of git in the repository makes this one fail.
Execute(t) ==
  LET c == ops[t] IN
  /\ c.pc = "command"
  /\ \/ \E new \in Command(c.op, c.arg) :
          /\ repo' = new
          /\ applied' = IF new = repo THEN applied ELSE [applied EXCEPT ![c.op] = @ + 1]
          /\ ops' = [ops EXCEPT ![t] = [c EXCEPT !.pc = "after", !.ok = TRUE]]
     \/ /\ Command(c.op, c.arg) = {} \/ Faults
             \/ \E u \in Threads \ {t} : ops[u].pc = "command"
        /\ ops' = [ops EXCEPT ![t] = [c EXCEPT !.pc = "after"]]
        /\ UNCHANGED <<repo, applied>>
  /\ UNCHANGED <<audit, unlogged, started>>

AuditAfter(t) ==
  /\ ops[t].pc = "after"
  /\ AuditWrite(ops[t].op)
  /\ ops' = [ops EXCEPT ![t] = IF ops[t].op = "commit" /\ ops[t].ok
                               THEN [ops[t] EXCEPT !.pc = "rev-parse"] ELSE NoOp]
  /\ UNCHANGED <<repo, applied, started>>

\* git_ops_commit asks for HEAD in a second command, which may by then be the
\* commit of another thread, and returns.
RevParse(t) ==
  /\ ops[t].pc = "rev-parse"
  /\ ops' = [ops EXCEPT ![t] = NoOp]
  /\ UNCHANGED <<repo, audit, applied, unlogged, started>>

\* git_ops_compact: repack and gc keep the commits; one line, after them.
Compact ==
  /\ repo.exists /\ started < MaxCalls /\ started' = started + 1
  /\ AuditWrite("compact")
  /\ UNCHANGED <<repo, ops, applied>>

\* The process ends; the commands that were not started are not run.
EndProcess ==
  /\ \E t \in Threads : ops[t].pc # "idle"
  /\ ops' = [t \in Threads |-> NoOp]
  /\ UNCHANGED <<repo, audit, applied, unlogged, started>>

RepositoryNext ==
  \/ \E t \in Threads :
       \/ \E op \in Operations : \E arg \in Arguments(op) : StartOp(t, op, arg)
       \/ Execute(t) \/ AuditAfter(t) \/ RevParse(t)
  \/ Compact \/ EndProcess

RepositorySpec == RepositoryInit /\ [][RepositoryNext]_repoVars

-----------------------------------------------------------------------------
RepositoryTypeOK ==
  /\ repo.exists \in BOOLEAN /\ repo.staged \subseteq Files
  /\ audit \in [Operations \cup {"compact"} -> 0 .. 2 * MaxCalls]
  /\ applied \in [Operations -> 0 .. MaxCalls]
  /\ unlogged \in 0 .. 2 * MaxCalls /\ started \in 0 .. MaxCalls

\* Nothing changes the repository unannounced: whatever threads interleave and
\* wherever the process ends, each change has a line of its own in the audit log,
\* written before it, unless that line could not be written.
ChangesAnnounced ==
  RepositoryTypeOK /\ \A op \in Operations : applied[op] <= audit[op] + unlogged
=============================================================================

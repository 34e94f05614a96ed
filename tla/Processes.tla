------------------------------ MODULE Processes ------------------------------
(* The child processes of hwrun-bus.  Four plugins start them, each with    *)
(* its own records: PMP tasks (pmp_task.c), programs run for a caller       *)
(* (loader_run.c, pmp_proc.c), terminal sessions (terminal_impl.c) and      *)
(* shell commands (shell_impl.c).  The kernel's process table is what they  *)
(* share: task_reap collects any child, and a fork copies every descriptor  *)
(* that is open.  PMP and TERMINAL have no lock; the calls of one plugin    *)
(* come one after the other, those of different plugins interleave.         *)
EXTENDS Naturals, FiniteSets, FiniteSetsExt

CONSTANTS Worlds   \* [pids, forks, plugins, nomem]: the size of the kernel's
                   \* pid space, the bound on forks, the plugins in use, and
                   \* whether an allocation may fail

Plugins == {"pmp", "runner", "terminal", "shell"}

ASSUME ProcessAssumption ==
  \A w \in Worlds : w.pids \in Nat \ {0} /\ w.forks \in Nat /\ w.plugins \subseteq Plugins
                   /\ w.nomem \in BOOLEAN

VARIABLES procs,      \* the kernel's table: the children that are not collected
          births,     \* forks so far
          last,       \* the pid given out last
          tasks,      \* g_task_table, by id
          g_task_seq,
          runs,       \* the caller of run: where it is, the child, what it got
          term,       \* the progress of term_spawn
          sessions,   \* g_sessions, by id: the child's pid
          g_seq,
          handles,    \* the handles spawn returned: pid and state
          masters,    \* sessions whose master descriptor is open in the bus
          shell,      \* the progress of run_external
          writers,    \* who has the write end of the shell's pipe open
          world

vars == <<procs, births, last, tasks, g_task_seq, runs, term, sessions, g_seq,
          handles, masters, shell, writers, world>>
pmp == <<tasks, g_task_seq>>
terminal == <<term, sessions, g_seq, handles, masters>>
kernel == <<procs, births, last>>

Pids == 1 .. world.pids
\* The holders of a pipe beside the children: the bus itself, and the descendants of its
\* children, which are nobody's children here and whose pids no plugin knows.
BUS == 0
HEIR == world.pids + 1
Codes == {"zero", "nonzero", "signal"}
\* A table with one more entry.
Added(table, id, entry) ==
  [n \in DOMAIN table \cup {id} |-> IF n = id THEN entry ELSE table[n]]

NoProcess == [st |-> "free", of |-> <<"none", 0>>, code |-> "none", sig |-> FALSE, stopped |-> FALSE]
Proc == [st : {"free", "run", "zombie"}, of : {"none", "task", "lost", "run", "term", "shell"} \X Nat,
         code : Codes \cup {"none"}, sig : BOOLEAN, stopped : BOOLEAN]
Task == [pid : Nat, state : {"RUNNING", "FINISHED", "FAILED", "CANCELLED"},
         exit_status : Codes \cup {"none"}]

TypeOK ==
  /\ world \in Worlds
  /\ procs \in [Pids -> Proc] /\ births \in 0 .. world.forks /\ last \in 0 .. world.pids
  /\ g_task_seq \in 0 .. world.forks /\ DOMAIN tasks \subseteq 1 .. g_task_seq
  /\ \A id \in DOMAIN tasks : tasks[id] \in Task /\ tasks[id].pid \in Pids
  /\ runs \in [pc : {"idle", "wait"}, pid : Nat, got : Codes \cup {"none", "ECHILD"}]
  /\ term \in [pc : {"idle", "opened", "forked", "undo"}, pid : Nat]
  /\ g_seq \in 0 .. world.forks /\ DOMAIN sessions \subseteq 1 .. g_seq
  /\ DOMAIN handles = 1 .. g_seq
  /\ \A n \in DOMAIN handles : handles[n] \in [pid : Pids, state : {"ACTIVE", "CLOSED"}]
  /\ masters \subseteq 1 .. g_seq + 1
  /\ shell \in [pc : {"idle", "piped", "forked", "read", "wait"}, pid : Nat]
  /\ writers \subseteq 0 .. world.pids + 1

Init ==
  /\ world \in Worlds
  /\ procs = [p \in Pids |-> NoProcess] /\ births = 0 /\ last = 0
  /\ tasks = <<>> /\ g_task_seq = 0
  /\ runs = [pc |-> "idle", pid |-> 0, got |-> "none"]
  /\ term = [pc |-> "idle", pid |-> 0] /\ sessions = <<>> /\ g_seq = 0
  /\ handles = <<>> /\ masters = {}
  /\ shell = [pc |-> "idle", pid |-> 0] /\ writers = {}

-----------------------------------------------------------------------------
(* The kernel: pids are given out in turn, an ended child stays until it is *)
(* collected, and a signal to a pid nobody has is lost.                     *)

Turn(p) == IF p > last THEN p - last ELSE p + world.pids - last
FreePids == {p \in Pids : procs[p].st = "free"}
NextPid == CHOOSE p \in FreePids : \A q \in FreePids : Turn(p) <= Turn(q)

\* fork: the child has every descriptor the bus has open.
Fork(kind, n) ==
  /\ births < world.forks /\ FreePids # {}
  /\ procs' = [procs EXCEPT ![NextPid] = [NoProcess EXCEPT !.st = "run", !.of = <<kind, n>>]]
  /\ births' = births + 1 /\ last' = NextPid

Inherits(holders) == IF BUS \in holders THEN holders \cup {NextPid} ELSE holders

Signalled(p) == IF procs[p].st = "run" THEN [procs EXCEPT ![p].sig = TRUE] ELSE procs
Collected(p) == [procs EXCEPT ![p] = NoProcess]

\* A child ends: by itself, or because of a signal unless it is stopped.
Exit(p, code) ==
  /\ procs[p].st = "run" /\ ~procs[p].stopped
  /\ code = "signal" => procs[p].sig
  /\ procs' = [procs EXCEPT ![p].st = "zombie", ![p].code = code]
  /\ writers' = writers \ {p}
  /\ UNCHANGED <<births, last, pmp, runs, terminal, shell, world>>

\* A child that has the write end of the pipe leaves a descendant with it behind, such as
\* a command that is put into the background.
Beget ==
  /\ \E p \in Pids \cap writers : procs[p].st = "run" /\ ~procs[p].stopped
  /\ writers' = writers \cup {HEIR}
  /\ UNCHANGED <<kernel, pmp, runs, terminal, shell, world>>

\* A descendant ends, or somebody else than the bus closes the write end.
HolderLeaves ==
  /\ \E h \in writers \ {BUS} : writers' = writers \ {h}
  /\ UNCHANGED <<kernel, pmp, runs, terminal, shell, world>>

-----------------------------------------------------------------------------
(* PMP tasks.                                                               *)

Others == UNCHANGED <<runs, terminal, shell, world>>

\* fork, then the entry; without memory for the entry the process runs on.
pmp_task_submit ==
  /\ "pmp" \in world.plugins
  /\ \/ /\ Fork("task", g_task_seq + 1)
        /\ g_task_seq' = g_task_seq + 1
        /\ tasks' = Added(tasks, g_task_seq',
                          [pid |-> NextPid, state |-> "RUNNING", exit_status |-> "none"])
     \/ world.nomem /\ Fork("lost", 0) /\ UNCHANGED pmp
  /\ writers' = Inherits(writers)
  /\ Others

\* Mutant: the state is not tested.
CancelAlways(id) ==
  /\ id \in DOMAIN tasks
  /\ procs' = Signalled(tasks[id].pid)
  /\ tasks' = [tasks EXCEPT ![id].state = "CANCELLED"]
  /\ UNCHANGED <<births, last, g_task_seq, writers>> /\ Others

pmp_task_cancel(id) ==
  /\ id \in DOMAIN tasks /\ tasks[id].state = "RUNNING"
  /\ procs' = Signalled(tasks[id].pid)
  /\ tasks' = [tasks EXCEPT ![id].state = "CANCELLED"]
  /\ UNCHANGED <<births, last, g_task_seq, writers>> /\ Others

\* Mutant: the list is searched from its oldest entry.
UpdatedOldest(r) ==
  LET hits == {id \in DOMAIN tasks : tasks[id].pid = r}
  IN  IF hits = {} THEN tasks
      ELSE [tasks EXCEPT ![Min(hits)] =
              [@ EXCEPT !.state = IF procs[r].code = "zero" THEN "FINISHED" ELSE "FAILED",
                        !.exit_status = procs[r].code]]

\* The entry that the child r was for: the newest with that pid, whatever
\* its state.
Updated(r) ==
  LET hits == {id \in DOMAIN tasks : tasks[id].pid = r}
  IN  IF hits = {} THEN tasks
      ELSE [tasks EXCEPT ![Max(hits)] =
              [@ EXCEPT !.state = IF procs[r].code = "zero" THEN "FINISHED" ELSE "FAILED",
                        !.exit_status = procs[r].code]]

\* waitpid(-1, WNOHANG): one ended child, whoever started it.
task_reap(id) ==
  \E r \in Pids : /\ procs[r].st = "zombie"
                  /\ tasks' = Updated(r) /\ procs' = Collected(r)

\* A query that finds no ended child changes nothing.
pmp_task_status(id) ==
  /\ id \in DOMAIN tasks
  /\ task_reap(id)
  /\ UNCHANGED <<births, last, g_task_seq, writers>> /\ Others

\* pmp_stop (also pmp_pause_process) and pmp_resume (also pmp_start), for the
\* pid of a task that is reported as running.
pmp_stop(id) ==
  /\ id \in DOMAIN tasks /\ tasks[id].state = "RUNNING"
  /\ procs[tasks[id].pid].st = "run" /\ ~procs[tasks[id].pid].stopped
  /\ procs' = [procs EXCEPT ![tasks[id].pid].stopped = TRUE]
  /\ UNCHANGED <<births, last, pmp, writers>> /\ Others

pmp_resume(id) ==
  /\ id \in DOMAIN tasks /\ procs[tasks[id].pid].stopped
  /\ procs' = [procs EXCEPT ![tasks[id].pid].stopped = FALSE]
  /\ UNCHANGED <<births, last, pmp, writers>> /\ Others

\* When the plugin is destroyed the entries go, the processes stay.
pmp_task_deinit ==
  /\ tasks # <<>> /\ tasks' = <<>>
  /\ UNCHANGED <<kernel, g_task_seq, writers>> /\ Others

-----------------------------------------------------------------------------
(* Programs run for a caller: loader_run_impl with wait, or pmp_spawn and   *)
(* later pmp_wait.                                                          *)

Rest == UNCHANGED <<pmp, terminal, shell, world>>

run_exec ==
  /\ "runner" \in world.plugins /\ runs.pc = "idle"
  /\ Fork("run", births) /\ writers' = Inherits(writers)
  /\ runs' = [pc |-> "wait", pid |-> NextPid, got |-> "none"]
  /\ Rest

\* waitpid(pid, 0) returns when the child has ended, or at once with ECHILD
\* when there is no such child.
WaitRun ==
  /\ runs.pc = "wait"
  /\ \/ /\ procs[runs.pid].st = "zombie"
        /\ procs' = Collected(runs.pid)
        /\ runs' = [runs EXCEPT !.pc = "idle", !.got = procs[runs.pid].code]
     \/ /\ procs[runs.pid].st = "free"
        /\ runs' = [runs EXCEPT !.pc = "idle", !.got = "ECHILD"]
        /\ UNCHANGED procs
  /\ UNCHANGED <<births, last, writers>> /\ Rest

-----------------------------------------------------------------------------
(* Terminal sessions.                                                       *)

Beside == UNCHANGED <<pmp, runs, shell, world>>

TermOpen ==
  /\ "terminal" \in world.plugins /\ term.pc = "idle" /\ g_seq < world.forks
  /\ masters' = masters \cup {g_seq + 1}
  /\ term' = [term EXCEPT !.pc = "opened"]
  /\ UNCHANGED <<kernel, sessions, g_seq, handles, writers>> /\ Beside

\* Mutant: the master stays open when fork fails.
TermForkLeak ==
  /\ term.pc = "opened"
  /\ \/ /\ Fork("term", g_seq + 1) /\ writers' = Inherits(writers)
        /\ term' = [pc |-> "forked", pid |-> NextPid]
     \/ /\ term' = [term EXCEPT !.pc = "idle"]
        /\ UNCHANGED <<kernel, writers>>
  /\ UNCHANGED <<sessions, g_seq, handles, masters>> /\ Beside

\* A fork that fails closes the master; so do the other steps before it.
TermFork ==
  /\ term.pc = "opened"
  /\ \/ /\ Fork("term", g_seq + 1) /\ writers' = Inherits(writers)
        /\ term' = [pc |-> "forked", pid |-> NextPid]
        /\ UNCHANGED masters
     \/ /\ term' = [term EXCEPT !.pc = "idle"]
        /\ masters' = masters \ {g_seq + 1}
        /\ UNCHANGED <<kernel, writers>>
  /\ UNCHANGED <<sessions, g_seq, handles>> /\ Beside

\* The session gets its id and its handle; without memory the child is killed.
TermRegister ==
  /\ term.pc = "forked"
  /\ \/ /\ g_seq' = g_seq + 1
        /\ sessions' = Added(sessions, g_seq', term.pid)
        /\ handles' = Added(handles, g_seq', [pid |-> term.pid, state |-> "ACTIVE"])
        /\ term' = [pc |-> "idle", pid |-> 0]
        /\ UNCHANGED procs
     \/ /\ world.nomem
        /\ procs' = Signalled(term.pid)
        /\ term' = [term EXCEPT !.pc = "undo"]
        /\ UNCHANGED <<g_seq, sessions, handles>>
  /\ UNCHANGED <<births, last, masters, writers>> /\ Beside

\* waitpid(pid, 0), then close.
TermUndo ==
  /\ term.pc = "undo" /\ procs[term.pid].st # "run"
  /\ procs' = Collected(term.pid)
  /\ masters' = masters \ {g_seq + 1}
  /\ term' = [pc |-> "idle", pid |-> 0]
  /\ UNCHANGED <<births, last, sessions, g_seq, handles, writers>> /\ Beside

\* Also for a handle that is closed: its pid is kept.  The child is collected
\* if it has already ended, which after a signal it seldom has.
term_close(n) ==
  /\ n \in DOMAIN handles
  /\ procs' = IF procs[handles[n].pid].st = "zombie" THEN Collected(handles[n].pid)
              ELSE Signalled(handles[n].pid)
  /\ masters' = masters \ {n}
  /\ sessions' = [m \in DOMAIN sessions \ {n} |-> sessions[m]]
  /\ handles' = [handles EXCEPT ![n].state = "CLOSED"]
  /\ UNCHANGED <<births, last, term, g_seq, writers>> /\ Beside

\* waitpid(pid, WNOHANG) tells whether the child runs, and collects it if not.
term_status(n) ==
  /\ n \in DOMAIN sessions /\ procs[sessions[n]].st = "zombie"
  /\ procs' = Collected(sessions[n])
  /\ UNCHANGED <<births, last, terminal, writers>> /\ Beside

-----------------------------------------------------------------------------
(* Shell commands.                                                          *)

Apart == UNCHANGED <<pmp, runs, terminal, world>>

ShellPipe ==
  /\ "shell" \in world.plugins /\ shell.pc = "idle" /\ births < world.forks
  /\ shell' = [pc |-> "piped", pid |-> 0] /\ writers' = {BUS}
  /\ UNCHANGED kernel /\ Apart

ShellFork ==
  /\ shell.pc = "piped"
  /\ \/ /\ Fork("shell", births) /\ writers' = Inherits(writers)
        /\ shell' = [pc |-> "forked", pid |-> NextPid]
     \/ /\ shell' = [shell EXCEPT !.pc = "idle"] /\ writers' = {}
        /\ UNCHANGED kernel
  /\ Apart

\* Mutant: the write end stays open in the bus.
CloseReadEnd ==
  /\ shell.pc = "forked"
  /\ shell' = [shell EXCEPT !.pc = "read"]
  /\ UNCHANGED <<kernel, writers>> /\ Apart

ShellClose ==
  /\ shell.pc = "forked"
  /\ shell' = [shell EXCEPT !.pc = "read"] /\ writers' = writers \ {BUS}
  /\ UNCHANGED kernel /\ Apart

\* The end of the pipe is seen when nobody has the write end open.
ShellRead ==
  /\ shell.pc = "read" /\ writers = {}
  /\ shell' = [shell EXCEPT !.pc = "wait"]
  /\ UNCHANGED <<kernel, writers>> /\ Apart

ShellWait ==
  /\ shell.pc = "wait" /\ procs[shell.pid].st # "run"
  /\ procs' = Collected(shell.pid)
  /\ shell' = [shell EXCEPT !.pc = "idle"]
  /\ UNCHANGED <<births, last, writers>> /\ Apart

-----------------------------------------------------------------------------
Tasks ==
  \/ pmp_task_submit
  \/ pmp_task_deinit
  \/ \E id \in DOMAIN tasks : \/ pmp_task_cancel(id)
                              \/ pmp_task_status(id)
                              \/ pmp_stop(id)
                              \/ pmp_resume(id)
Runs == run_exec \/ WaitRun
Terminals ==
  \/ TermOpen \/ TermFork \/ TermRegister \/ TermUndo
  \/ \E n \in DOMAIN handles : term_close(n) \/ term_status(n)
ShellSteps == ShellPipe \/ ShellFork \/ ShellClose \/ ShellRead \/ ShellWait
Ends == \E p \in Pids, code \in Codes : Exit(p, code)

Holders == Beget \/ HolderLeaves

Next == Tasks \/ Runs \/ Terminals \/ ShellSteps \/ Ends \/ Holders

Spec == Init /\ [][Next]_vars

\* A call that can go on does.  Nothing makes a caller call, and no child ends because it
\* should.
FairSpec == Spec /\ WF_vars(ShellFork \/ ShellClose \/ ShellRead \/ ShellWait)

-----------------------------------------------------------------------------
(* Properties.                                                              *)

Own(id) == procs[tasks[id].pid]
Zombie(p) == p \in Pids /\ procs[p].st = "zombie"

\* An entry that still says running or cancelled is for a child that is not
\* collected, so its pid cannot have gone to another process: what
\* pmp_task_cancel and pmp_stop rely on.
TasksUnreaped ==
  \A id \in DOMAIN tasks : tasks[id].state \in {"RUNNING", "CANCELLED"} =>
     Own(id).st # "free" /\ Own(id).of = <<"task", id>>

\* A task becomes finished or failed only with the end of its own process and
\* by its exit code, also when pids come round again and when task_reap has
\* collected the child of another plugin; no later child changes the verdict.
TaskVerdict ==
  [][\A id \in DOMAIN tasks \cap DOMAIN tasks' :
       tasks'[id] # tasks[id] /\ tasks'[id].state # "CANCELLED" =>
         /\ Own(id).st = "zombie" /\ Own(id).of = <<"task", id>>
         /\ tasks'[id].state = (IF Own(id).code = "zero" THEN "FINISHED" ELSE "FAILED")]_vars

\* Only the process a caller meant is signalled: that of the task being
\* cancelled, or of the session being closed or undone.
SignalsOwn ==
  [][\A p \in Pids : procs'[p].sig /\ ~procs[p].sig =>
       \/ \E id \in DOMAIN tasks : /\ procs[p].of = <<"task", id>>
                                   /\ tasks[id].state = "RUNNING"
                                   /\ tasks'[id].state = "CANCELLED"
       \/ \E n \in DOMAIN handles' : /\ procs[p].of = <<"term", n>>
                                     /\ handles'[n].state = "CLOSED"
       \/ procs[p].of = <<"term", g_seq + 1>> /\ term'.pc = "undo"]_vars

\* Between calls, the open masters are those of the registered sessions, and
\* these are the ones whose handle is active: no path out of term_spawn and
\* term_close leaks a descriptor or leaves a dead entry.
SessionsAgree ==
  /\ DOMAIN sessions = {n \in DOMAIN handles : handles[n].state = "ACTIVE"}
  /\ masters = DOMAIN sessions \cup (IF term.pc = "idle" THEN {} ELSE {g_seq + 1})

\* The head of pmp_task.c has it that background processes are collected by SIGCHLD.
\* Fails: nothing handles that signal, and nobody has to ask for a task's status.
ZombiesCollected ==
  \A p \in 1 .. Max({w.pids : w \in Worlds}) :
    (Zombie(p) /\ procs[p].of[1] = "task") ~> ~Zombie(p)

CommandEnded == shell.pc \in {"read", "wait"} /\ procs[shell.pid].st # "run"

\* A shell command returns once its process has ended and nobody outside the bus has the
\* write end: what run_external itself holds never keeps it from seeing the end.
ShellReturns == (CommandEnded /\ writers \subseteq {BUS}) ~> (shell.pc = "idle")

\* eval executes a line and returns HWRUN_OK (shell.h): a command that has ended and has
\* left nobody behind is done, whatever other plugins run meanwhile.  Fails: a child that
\* another plugin forks meanwhile may have the write end.
EvalReturns == (CommandEnded /\ HEIR \notin writers) ~> (shell.pc = "idle")

\* run reports the exit code of its program (loader.h: the exit code if wait
\* is not 0).
RunReturnsCode == [][runs.pc = "wait" /\ runs'.pc = "idle" => runs'.got \in Codes]_vars

\* What the plugins know of their children is true of the kernel's table.
ChildrenKnown == TypeOK /\ TasksUnreaped /\ SessionsAgree
=============================================================================

-------------------------------- MODULE Param --------------------------------
(***************************************************************************)
(* param.c with the revision hook bus.c puts on it.  hw_param_set_value is *)
(* a guarded section that reads the old value and writes the new one, then,*)
(* with no lock held, hw_param_notify (a guarded snapshot of the watchers, *)
(* one callback after the other) and bus_on_param_revision, which saves    *)
(* the tree to the state file and has GIT add and commit it.               *)
(*                                                                         *)
(* The hook's guard param_git_committing is a plain int: reading it and    *)
(* setting it are two steps.  hw_param_save_file reads the tree without    *)
(* the lock, one parameter after the other.  GIT is another plugin: its    *)
(* operations succeed or fail.                                             *)
(***************************************************************************)
EXTENDS Naturals, SequencesExt, FiniteSetsExt, Snapshots

CONSTANTS Setters,      \* threads that set parameters
          KeyOrder,     \* the keys, in the order hw_param_tree_save visits them
          Values,       \* non-empty values
          Watchers,     \* watcher records: [id, pattern], pattern a key or ALL
          WatchMax,     \* bound: entries in the watcher list
          SetMax,       \* bound: calls of hw_param_set_value
          NotifyMax,    \* capacity of the snapshot array (64 in the code)
          GitFails      \* fopen of the state file, add and commit may fail

ALL == "ALL"            \* the empty pattern
Unset == ""             \* no value
Keys == ToSet(KeyOrder)
Trees == [Keys -> Values \cup {Unset}]

ASSUME ParamAssumption ==
  /\ KeyOrder \in Seq(Keys) \ {<<>>} /\ IsInjective(KeyOrder) /\ ALL \notin Keys
  /\ Unset \notin Values
  /\ \A w \in Watchers : w.pattern \in Keys \cup {ALL}
  /\ WatchMax \in Nat /\ SetMax \in Nat /\ NotifyMax \in Nat \ {0}
  /\ GitFails \in BOOLEAN

VARIABLES tree,         \* the parameter tree, "" for no value
          watchers,     \* watcher list, head first
          phase,           \* step of each thread's hw_param_set_value
          key, new,     \* its arguments
          listed,        \* its watcher snapshot, callbacks still to make
          buf,          \* its output buffer in hw_param_save_file
          param_git_committing,
          gitReady,     \* GIT resolves to real operations and auto_commit is on
          file, staged, head,   \* the state file, git's index and last commit
          seen,         \* what each watcher was last told of each key
          stale,        \* the last revision was given up by GIT, not by the bus
          overlap,   \* two calls have overlap since all were idle
          crowded,      \* keys whose latest calls have overlap
          sets          \* calls made so far

revisionVars == <<tree, watchers, phase, key, new, listed, buf, param_git_committing, gitReady,
          file, staged, head, seen, stale, overlap, crowded, sets>>
repo == <<file, staged, head, stale>>
history == <<overlap, crowded, sets>>

Steps == {"idle", "notify", "dispatch", "guard", "enter", "resolve", "save",
          "add", "commit"}
InHook == {"resolve", "save", "add", "commit"}
Unseen == "unseen"

ParamTypeOK ==
  /\ tree \in Trees
  /\ watchers \in Seq(Watchers)
  /\ phase \in [Setters -> Steps]
  /\ key \in [Setters -> Keys]
  /\ new \in [Setters -> Values \cup {Unset}]
  /\ listed \in [Setters -> Seq(Watchers)]
  /\ buf \in [Setters -> Seq(Values \cup {Unset})]
  /\ param_git_committing \in BOOLEAN /\ gitReady \in BOOLEAN /\ stale \in BOOLEAN
  /\ file \in Trees /\ staged \in Trees /\ head \in Trees
  /\ seen \in [Watchers -> [Keys -> Values \cup {Unset, Unseen}]]
  /\ overlap \in BOOLEAN /\ crowded \subseteq Keys
  /\ sets \in 0 .. SetMax

NoTree == [k \in Keys |-> Unset]

RevisionInit ==
  /\ tree = NoTree /\ watchers = <<>>
  /\ phase = [t \in Setters |-> "idle"]
  /\ key = [t \in Setters |-> KeyOrder[1]]
  /\ new = [t \in Setters |-> Unset]
  /\ listed = [t \in Setters |-> <<>>]
  /\ buf = [t \in Setters |-> <<>>]
  /\ param_git_committing = FALSE /\ gitReady = FALSE
  /\ file = NoTree /\ staged = NoTree /\ head = NoTree
  /\ seen = [w \in Watchers |-> [k \in Keys |-> Unseen]]
  /\ stale = FALSE /\ overlap = FALSE /\ crowded = {} /\ sets = 0

\* History: whom the call of t meets.
Overlaps(t, k) ==
  LET busy == {u \in Setters \ {t} : phase[u] # "idle"} IN
  /\ overlap' = (busy # {})
  /\ crowded' = IF \E u \in busy : key[u] = k THEN crowded \cup {k} ELSE crowded \ {k}

\* hw_param_set_value, the guarded section: find and set.
hw_param_set_value(t, k, v) ==
  /\ phase[t] = "idle" /\ sets < SetMax /\ sets' = sets + 1
  /\ tree' = [tree EXCEPT ![k] = v]
  /\ Overlaps(t, k)
  /\ key' = [key EXCEPT ![t] = k]
  /\ new' = [new EXCEPT ![t] = v]
  /\ phase' = [phase EXCEPT ![t] = "notify"]
  /\ UNCHANGED <<watchers, listed, buf, param_git_committing, gitReady, repo, seen>>

\* hw_param_watch: no duplicate test, the new watcher goes to the head.
hw_param_watch(t, w) ==
  /\ phase[t] = "idle" /\ Len(watchers) < WatchMax
  /\ watchers' = <<w>> \o watchers
  /\ UNCHANGED <<tree, phase, key, new, listed, buf, param_git_committing, gitReady, repo,
                 seen, history>>

\* The pattern test of hw_param_notify: "" is all keys (fnmatch otherwise).
Watches(w, k) == w.pattern = ALL \/ w.pattern = k

\* The positions of the watchers of a key.
WatchersOf(k) == {i \in DOMAIN watchers : Watches(watchers[i], k)}

Goto(t, step) == phase' = [phase EXCEPT ![t] = step]
Quiet == UNCHANGED <<tree, watchers, key, new, gitReady, history>>

\* hw_param_notify, the guarded section: the matching watchers in list order,
\* cut at the capacity of the array.
WatchSnapshot(t) ==
  /\ phase[t] = "notify"
  /\ \E f \in FirstOf(WatchersOf(key[t]), NotifyMax) :
       listed' = [listed EXCEPT ![t] = [i \in DOMAIN f |-> watchers[f[i]]]]
  /\ Goto(t, "dispatch")
  /\ Quiet /\ UNCHANGED <<buf, param_git_committing, repo, seen>>

\* One callback: config_route_cb, for instance, hands the new value to the
\* plugin's configure.
Dispatch(t) ==
  /\ phase[t] = "dispatch" /\ listed[t] # <<>>
  /\ seen' = [seen EXCEPT ![Head(listed[t])][key[t]] = new[t]]
  /\ listed' = [listed EXCEPT ![t] = Tail(@)]
  /\ Quiet /\ UNCHANGED <<phase, buf, param_git_committing, repo>>

\* hw_param_mark_revision calls the hook.
MarkRevision(t) ==
  /\ phase[t] = "dispatch" /\ listed[t] = <<>>
  /\ Goto(t, "guard")
  /\ Quiet /\ UNCHANGED <<listed, buf, param_git_committing, repo, seen>>

\* bus_on_param_revision: the guard is read ...
HookGuard(t) ==
  /\ phase[t] = "guard"
  /\ \/ param_git_committing /\ Goto(t, "idle")
     \/ ~param_git_committing /\ Goto(t, "enter")
  /\ Quiet /\ UNCHANGED <<listed, buf, param_git_committing, repo, seen>>

\* ... and set.
HookEnter(t) ==
  /\ phase[t] = "enter"
  /\ param_git_committing' = TRUE
  /\ Goto(t, "resolve")
  /\ Quiet /\ UNCHANGED <<listed, buf, repo, seen>>

\* Every way out of the hook resets the guard.
Leave(t, gaveUp) ==
  /\ param_git_committing' = FALSE
  /\ stale' = gaveUp
  /\ Goto(t, "idle")

\* Mutant: the early return forgets the guard.
ResolveForgetsGuard(t) ==
  /\ phase[t] = "resolve"
  /\ \/ /\ ~gitReady /\ stale' = TRUE /\ Goto(t, "idle")
        /\ UNCHANGED <<param_git_committing, buf, file>>
     \/ /\ gitReady
        /\ file' = NoTree /\ buf' = [buf EXCEPT ![t] = <<>>]
        /\ Goto(t, "save") /\ UNCHANGED <<param_git_committing, stale>>
  /\ Quiet /\ UNCHANGED <<listed, staged, head, seen>>

\* GIT is resolved and its configuration read; without it, or when the state
\* file cannot be opened, the revision is given up.  fopen "w" truncates.
HookResolve(t) ==
  /\ phase[t] = "resolve"
  /\ \/ (~gitReady \/ GitFails) /\ Leave(t, TRUE) /\ UNCHANGED <<buf, file>>
     \/ /\ gitReady
        /\ file' = NoTree /\ buf' = [buf EXCEPT ![t] = <<>>]
        /\ Goto(t, "save") /\ UNCHANGED <<param_git_committing, stale>>
  /\ Quiet /\ UNCHANGED <<listed, staged, head, seen>>

\* hw_param_tree_save: the next parameter, read without the lock.
HookSave(t) ==
  /\ phase[t] = "save" /\ Len(buf[t]) < Len(KeyOrder)
  /\ buf' = [buf EXCEPT ![t] = Append(@, tree[KeyOrder[Len(@) + 1]])]
  /\ Quiet /\ UNCHANGED <<phase, listed, param_git_committing, repo, seen>>

\* Mutant: the file is added before the buffer reaches it.
CloseTooLate(t) ==
  /\ phase[t] = "save" /\ Len(buf[t]) = Len(KeyOrder)
  /\ buf' = [buf EXCEPT ![t] = <<>>]
  /\ Goto(t, "add")
  /\ Quiet /\ UNCHANGED <<listed, param_git_committing, repo, seen>>

\* fclose: the buffer reaches the file.
HookClose(t) ==
  /\ phase[t] = "save" /\ Len(buf[t]) = Len(KeyOrder)
  /\ file' = [k \in Keys |-> buf[t][CHOOSE i \in DOMAIN KeyOrder : KeyOrder[i] = k]]
  /\ buf' = [buf EXCEPT ![t] = <<>>]
  /\ Goto(t, "add")
  /\ Quiet /\ UNCHANGED <<listed, param_git_committing, staged, head, stale, seen>>

HookAdd(t) ==
  /\ phase[t] = "add"
  /\ \/ staged' = file /\ Goto(t, "commit") /\ UNCHANGED <<param_git_committing, stale>>
     \/ GitFails /\ Leave(t, TRUE) /\ UNCHANGED staged
  /\ Quiet /\ UNCHANGED <<listed, buf, file, head, seen>>

HookCommit(t) ==
  /\ phase[t] = "commit"
  /\ \/ head' = staged /\ Leave(t, FALSE)
     \/ GitFails /\ Leave(t, TRUE) /\ UNCHANGED head
  /\ Quiet /\ UNCHANGED <<listed, buf, file, staged, seen>>

bus_on_param_revision(t) ==
  \/ HookGuard(t) \/ HookEnter(t) \/ HookResolve(t) \/ HookSave(t) \/ HookClose(t)
  \/ HookAdd(t) \/ HookCommit(t)

\* The GIT plugin starts or stops, or its auto_commit setting changes.  Not
\* while a hook holds the borrowed route (metaproto.c leaves that to callers).
GitChanges ==
  /\ \A t \in Setters : phase[t] \notin InHook
  /\ gitReady' = ~gitReady
  /\ UNCHANGED <<tree, watchers, phase, key, new, listed, buf, param_git_committing, repo,
                 seen, history>>

RevisionNext ==
  \/ \E t \in Setters : \/ \E k \in Keys, v \in Values \cup {Unset} : hw_param_set_value(t, k, v)
                        \/ \E w \in Watchers : hw_param_watch(t, w)
                        \/ WatchSnapshot(t) \/ Dispatch(t) \/ MarkRevision(t)
                        \/ bus_on_param_revision(t)
  \/ GitChanges

RevisionSpec == RevisionInit /\ [][RevisionNext]_revisionVars

-----------------------------------------------------------------------------
(* Properties.                                                             *)

Quiescent == \A t \in Setters : phase[t] = "idle"

\* The guard is only up while some thread is inside the hook, for any number
\* of threads: no way out of bus_on_param_revision, error paths included,
\* leaves it set, which would end automatic commits for good.
GuardBalanced == param_git_committing => \E t \in Setters : phase[t] \in InHook

\* When nothing is in progress the last commit holds the current parameters,
\* unless GIT refused the last revision or the last calls overlap: then
\* the guard may have dropped a revision or a save mixed two trees, and the
\* next call made alone repairs it.
HeadCurrent == Quiescent /\ ~stale /\ ~overlap => head = tree

\* The same without the exception: the hook is never entered twice and every
\* revision is recorded (comment of bus_on_param_revision, README.md).
EveryRevisionCommitted == Quiescent /\ ~stale => head = tree

\* When nothing is in progress, whoever has been told of a parameter knows
\* its current value (at most NotifyMax watchers), unless the latest calls for
\* this parameter overlap: they notify in any order.
WatchersCurrent ==
  Quiescent /\ Len(watchers) <= NotifyMax =>
    \A i \in DOMAIN watchers, k \in Keys \ crowded :
      seen[watchers[i]][k] \in {Unseen, tree[k]}

\* When nothing is in progress the tree, the last commit and what every watcher
\* was told agree (bus_on_param_revision, hw_param_notify).
ParamCurrent == ParamTypeOK /\ HeadCurrent /\ WatchersCurrent
=============================================================================

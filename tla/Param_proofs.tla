---------------------------- MODULE Param_proofs ----------------------------
(* Theorems about Param, for any number of threads that set parameters, any *)
(* keys, values and watchers, and whatever GIT does.                        *)
EXTENDS Param, ListFacts, TLAPS

\* The guard with the range of the program counters, which is all it rests on.
GInv == phase \in [Setters -> Steps] /\ GuardBalanced

\* A thread that moves between steps outside the hook, or between steps inside
\* it, without touching the guard.
LEMMA MoveKeeps ==
  ASSUME GInv, NEW t \in Setters, NEW s \in Steps, Goto(t, s),
         s \in InHook \/ phase[t] \notin InHook, UNCHANGED param_git_committing
  PROVE  GInv'
<1>1. phase' \in [Setters -> Steps]
  BY DEF GInv, Goto
<1>2. ASSUME param_git_committing' PROVE \E u \in Setters : phase'[u] \in InHook
  <2>1. PICK u \in Setters : phase[u] \in InHook
    BY <1>2 DEF GInv, GuardBalanced
  <2>2. CASE u = t
    BY <2>1, <2>2 DEF GInv, Goto
  <2>3. CASE u # t
    BY <2>1, <2>3 DEF GInv, Goto
  <2>4. QED
    BY <2>2, <2>3
<1>3. QED
  BY <1>1, <1>2 DEF GInv, GuardBalanced

\* Leave, the way out of the hook on every path, takes the guard down.
LEMMA LeaveKeeps ==
  ASSUME GInv, NEW t \in Setters, NEW gaveUp, Leave(t, gaveUp) PROVE GInv'
BY DEF GInv, Leave, Goto, GuardBalanced, Steps

\* Nothing changes for the guard when neither it nor a program counter does.
LEMMA RestKeeps == ASSUME GInv, UNCHANGED <<phase, param_git_committing>> PROVE GInv'
BY DEF GInv, GuardBalanced

\* Every step of a caller of hw_param_set_value, hook and error paths included,
\* keeps the guard balanced.
LEMMA GInvStep == GInv /\ [RevisionNext]_revisionVars => GInv'
<1> SUFFICES ASSUME GInv, [RevisionNext]_revisionVars PROVE GInv'
  OBVIOUS
<1> USE DEF Steps, InHook
<1>1. CASE UNCHANGED revisionVars
  BY <1>1, RestKeeps DEF revisionVars
<1>2. CASE GitChanges
  BY <1>2, RestKeeps DEF GitChanges
<1>3. ASSUME NEW t \in Setters, NEW k \in Keys, NEW v \in Values \cup {Unset},
             hw_param_set_value(t, k, v)
      PROVE  GInv'
  <2>1. Goto(t, "notify") /\ phase[t] \notin InHook /\ UNCHANGED param_git_committing
    BY <1>3 DEF hw_param_set_value, Goto
  <2>2. QED
    BY <2>1, MoveKeeps
<1>4. ASSUME NEW t \in Setters, NEW w \in Watchers, hw_param_watch(t, w) PROVE GInv'
  BY <1>4, RestKeeps DEF hw_param_watch
<1>5. ASSUME NEW t \in Setters, WatchSnapshot(t) PROVE GInv'
  <2>1. Goto(t, "dispatch") /\ phase[t] \notin InHook /\ UNCHANGED param_git_committing
    BY <1>5 DEF WatchSnapshot
  <2>2. QED
    BY <2>1, MoveKeeps
<1>6. ASSUME NEW t \in Setters, Dispatch(t) PROVE GInv'
  BY <1>6, RestKeeps DEF Dispatch
<1>7. ASSUME NEW t \in Setters, MarkRevision(t) PROVE GInv'
  <2>1. Goto(t, "guard") /\ phase[t] \notin InHook /\ UNCHANGED param_git_committing
    BY <1>7 DEF MarkRevision
  <2>2. QED
    BY <2>1, MoveKeeps
<1>8. ASSUME NEW t \in Setters, HookGuard(t) PROVE GInv'
  <2>1. /\ Goto(t, "idle") \/ Goto(t, "enter")
        /\ phase[t] \notin InHook /\ UNCHANGED param_git_committing
    BY <1>8 DEF HookGuard
  <2>2. QED
    BY <2>1, MoveKeeps
<1>9. ASSUME NEW t \in Setters, HookEnter(t) PROVE GInv'
  BY <1>9 DEF HookEnter, Goto, GInv, GuardBalanced
<1>10. ASSUME NEW t \in Setters, HookResolve(t) PROVE GInv'
  <2>1. Leave(t, TRUE) \/ (Goto(t, "save") /\ UNCHANGED param_git_committing)
    BY <1>10 DEF HookResolve
  <2>2. QED
    BY <2>1, LeaveKeeps, MoveKeeps
<1>11. ASSUME NEW t \in Setters, HookSave(t) PROVE GInv'
  BY <1>11, RestKeeps DEF HookSave
<1>12. ASSUME NEW t \in Setters, HookClose(t) PROVE GInv'
  <2>1. Goto(t, "add") /\ UNCHANGED param_git_committing
    BY <1>12 DEF HookClose
  <2>2. QED
    BY <2>1, MoveKeeps
<1>13. ASSUME NEW t \in Setters, HookAdd(t) PROVE GInv'
  <2>1. Leave(t, TRUE) \/ (Goto(t, "commit") /\ UNCHANGED param_git_committing)
    BY <1>13 DEF HookAdd
  <2>2. QED
    BY <2>1, LeaveKeeps, MoveKeeps
<1>14. ASSUME NEW t \in Setters, HookCommit(t) PROVE GInv'
  <2>1. Leave(t, TRUE) \/ Leave(t, FALSE)
    BY <1>14 DEF HookCommit
  <2>2. QED
    BY <2>1, LeaveKeeps
<1>15. QED
  BY <1>1, <1>2, <1>3, <1>4, <1>5, <1>6, <1>7, <1>8, <1>9, <1>10, <1>11, <1>12, <1>13, <1>14
  DEF RevisionNext, bus_on_param_revision

\* For any number of threads, keys, values and watchers, and whatever GIT
\* does, the commit guard is only up while some thread is inside the hook, so
\* automatic commits never end for good.
THEOREM ParamGuardBalanced == RevisionSpec => []GuardBalanced
<1>1. RevisionInit => GInv
  BY DEF RevisionInit, GInv, GuardBalanced, Steps
<1>2. GInv => GuardBalanced
  BY DEF GInv
<1>3. QED
  BY <1>1, <1>2, GInvStep, PTL DEF RevisionSpec

-----------------------------------------------------------------------------
\* The inductive invariant, part by part.

Busy(t) == phase[t] # "idle"

\* A list of watchers is called by nobody but a thread that notifies, and only those of its
\* key are on it.
Lists ==
  \A t \in Setters :
    /\ phase[t] # "dispatch" => listed[t] = <<>>
    /\ ToSet(listed[t]) \subseteq {w \in ToSet(watchers) : Watches(w, key[t])}

\* Only watchers of a key have heard of it.
Heard ==
  \A w \in Watchers, k \in Keys :
    seen[w][k] # Unseen => w \in ToSet(watchers) /\ Watches(w, k)

\* A key that is not crowded is set by one call at a time, whose value the tree has.
OnePerKey ==
  \A t \in Setters : Busy(t) /\ key[t] \notin crowded =>
    /\ new[t] = tree[key[t]]
    /\ \A u \in Setters \ {t} : Busy(u) => key[u] # key[t]

\* A watcher that was told a former value is still to be told the current one.
ToldOrListed ==
  Len(watchers) <= NotifyMax =>
    \A w \in ToSet(watchers), k \in Keys \ crowded :
      \/ seen[w][k] \in {Unseen, tree[k]}
      \/ \E t \in Setters : /\ key[t] = k
                            /\ phase[t] = "notify" \/ (phase[t] = "dispatch" /\ w \in ToSet(listed[t]))

\* Calls that do not overlap: one thread at a time is under way.
Alone == ~overlap => \A t, u \in Setters : Busy(t) /\ Busy(u) => t = u

\* What such a call has done so far towards the commit is of the present tree.
OnTheWay ==
  ~overlap =>
    /\ \A t \in Setters :
         /\ phase[t] = "save" => /\ Len(buf[t]) <= Len(KeyOrder)
                              /\ \A i \in DOMAIN buf[t] : buf[t][i] = tree[KeyOrder[i]]
         /\ phase[t] = "add" => file = tree
         /\ phase[t] = "commit" => staged = tree
    /\ (\A t \in Setters : ~Busy(t)) /\ ~stale => head = tree

ParamInv ==
  /\ ParamTypeOK /\ GuardBalanced /\ Lists /\ Heard /\ OnePerKey /\ ToldOrListed
  /\ Alone /\ OnTheWay

\* The guarded section of hw_param_notify: watchers of the key, and all of them if the
\* array is large enough.
LEMMA SnapshotTaken ==
  ASSUME ParamTypeOK, NEW t \in Setters, WatchSnapshot(t)
  PROVE  \E s \in Seq(Watchers) :
           /\ listed' = [listed EXCEPT ![t] = s]
           /\ ToSet(s) \subseteq {w \in ToSet(watchers) : Watches(w, key[t])}
           /\ Len(watchers) <= NotifyMax =>
                {w \in ToSet(watchers) : Watches(w, key[t])} \subseteq ToSet(s)
<1> watchers \in Seq(Watchers)
  BY DEF ParamTypeOK
<1>1. PICK ps \in SUBSET (1 .. Len(watchers)) : ps = WatchersOf(key[t])
  <2>1. WatchersOf(key[t]) \in SUBSET (1 .. Len(watchers))
    BY DEF WatchersOf
  <2> QED BY <2>1
<1>2. PICK f \in FirstOf(ps, NotifyMax) : listed' = [listed EXCEPT ![t] = [i \in DOMAIN f |-> watchers[f[i]]]]
  BY <1>1 DEF WatchSnapshot
<1>3. PICK n \in 0 .. NotifyMax : f \in [1 .. n -> ps]
  BY DEF FirstOf
<1> DEFINE s == [i \in 1 .. n |-> watchers[f[i]]]
<1>4. DOMAIN watchers = 1 .. Len(watchers) /\ Len(watchers) \in Nat /\ n \in Nat /\ NotifyMax \in Nat
  BY ParamAssumption
<1>5. \A i \in 1 .. n : f[i] \in 1 .. Len(watchers) /\ Watches(watchers[f[i]], key[t])
                          /\ watchers[f[i]] \in Watchers
  <2> TAKE i \in 1 .. n
  <2>1. f[i] \in ps
    BY <1>3
  <2> QED BY <1>1, <1>4, <2>1 DEF WatchersOf
<1>6. s \in Seq(Watchers) /\ DOMAIN s = 1 .. n
  BY <1>4, <1>5
<1>7. listed' = [listed EXCEPT ![t] = s]
  BY <1>2, <1>3
<1>8. ToSet(s) \subseteq {w \in ToSet(watchers) : Watches(w, key[t])}
  BY <1>4, <1>5, <1>6 DEF ToSet
<1>9. ASSUME Len(watchers) <= NotifyMax, NEW w \in ToSet(watchers), Watches(w, key[t])
      PROVE w \in ToSet(s)
  <2>1. PICK p \in 1 .. Len(watchers) : w = watchers[p]
    BY <1>4 DEF ToSet
  <2>2. p \in ps
    BY <1>1, <1>4, <1>9, <2>1, SMTT(60) DEF WatchersOf
  <2>3. PICK m \in Nat, c \in Nat : m = Len(watchers) /\ c = NotifyMax
    BY <1>4
  <2>4. ps \in SUBSET (1 .. m) /\ m <= c
    BY <1>9, <2>3
  <2>5. \A g \in FirstOf(ps, c) : \A x \in ps : \E i \in DOMAIN g : g[i] = x
    BY <2>4, NothingCut, ZenonT(60)
  <2>6. PICK i \in DOMAIN f : f[i] = p
    BY <2>2, <2>3, <2>5
  <2> QED BY <1>3, <1>6, <2>1, <2>6 DEF ToSet
<1> HIDE DEF s
<1> QED BY <1>6, <1>7, <1>8, <1>9

\* Every step keeps the types.
LEMMA TypeKept ==
  ASSUME ParamTypeOK, [RevisionNext]_revisionVars
  PROVE  ParamTypeOK'
<1> USE DEF ParamTypeOK, Steps
<1>1. ASSUME NEW t \in Setters, NEW k \in Keys, NEW v \in Values \cup {Unset}, hw_param_set_value(t, k, v)
      PROVE ParamTypeOK'
  <2>1. tree' \in Trees
    BY <1>1 DEF hw_param_set_value, Trees
  <2>2. overlap' \in BOOLEAN /\ crowded' \subseteq Keys
    BY <1>1 DEF hw_param_set_value, Overlaps
  <2>3. sets' \in 0 .. SetMax
    <3>1. sets \in 0 .. SetMax /\ SetMax \in Nat /\ sets < SetMax /\ sets' = sets + 1
      BY <1>1, ParamAssumption DEF hw_param_set_value
    <3> HIDE DEF ParamTypeOK
    <3> QED BY <3>1
  <2> QED BY <1>1, <2>1, <2>2, <2>3 DEF hw_param_set_value, repo
<1>2. ASSUME NEW t \in Setters, NEW w \in Watchers, hw_param_watch(t, w) PROVE ParamTypeOK'
  BY <1>2, Prepended DEF hw_param_watch, repo, history
<1>3. ASSUME NEW t \in Setters, WatchSnapshot(t) PROVE ParamTypeOK'
  <2>1. listed' \in [Setters -> Seq(Watchers)]
    BY <1>3, SnapshotTaken
  <2> QED BY <1>3, <2>1 DEF WatchSnapshot, Goto, Quiet, repo, history
<1>4. ASSUME NEW t \in Setters, Dispatch(t) PROVE ParamTypeOK'
  <2>1. Head(listed[t]) \in Watchers /\ Tail(listed[t]) \in Seq(Watchers)
    <3>1. listed[t] \in Seq(Watchers) /\ listed[t] # <<>>
      BY <1>4 DEF Dispatch
    <3> HIDE DEF ParamTypeOK
    <3> QED BY <3>1, WorkedOff
  <2>2. listed' \in [Setters -> Seq(Watchers)]
    BY <1>4, <2>1 DEF Dispatch
  <2>3. seen' \in [Watchers -> [Keys -> Values \cup {Unset, Unseen}]]
    BY <1>4, <2>1 DEF Dispatch
  <2> QED BY <1>4, <2>2, <2>3 DEF Dispatch, Quiet, repo, history
<1>5. ASSUME NEW t \in Setters, MarkRevision(t) \/ HookGuard(t) \/ HookEnter(t) PROVE ParamTypeOK'
  BY <1>5 DEF MarkRevision, HookGuard, HookEnter, Goto, Quiet, repo, history
<1>6. ASSUME NEW t \in Setters, HookResolve(t) PROVE ParamTypeOK'
  <2>1. file' \in Trees
    BY <1>6 DEF HookResolve, Trees, NoTree, Leave
  <2>2. param_git_committing' \in BOOLEAN /\ stale' \in BOOLEAN /\ phase' \in [Setters -> Steps]
    BY <1>6 DEF HookResolve, Leave, Goto
  <2>3. buf' \in [Setters -> Seq(Values \cup {Unset})]
    <3>1. <<>> \in Seq(Values \cup {Unset})
      OBVIOUS
    <3> QED BY <1>6, <3>1 DEF HookResolve
  <2> QED BY <1>6, <2>1, <2>2, <2>3 DEF HookResolve, Quiet, history
<1>7. ASSUME NEW t \in Setters, HookSave(t) PROVE ParamTypeOK'
  <2>1. PICK b \in Seq(Values \cup {Unset}) : b = buf[t]
    OBVIOUS
  <2>2. Len(b) + 1 \in DOMAIN KeyOrder
    <3>1. KeyOrder \in Seq(Keys) /\ Len(b) < Len(KeyOrder)
      BY <1>7, <2>1, ParamAssumption DEF HookSave
    <3> HIDE DEF ParamTypeOK
    <3> QED BY <3>1
  <2>3. tree[KeyOrder[Len(b) + 1]] \in Values \cup {Unset}
    <3>1. KeyOrder[Len(b) + 1] \in Keys /\ tree \in Trees
      BY <2>2 DEF Keys, ToSet
    <3> HIDE DEF ParamTypeOK
    <3> QED BY <3>1 DEF Trees
  <2>4. Append(b, tree[KeyOrder[Len(b) + 1]]) \in Seq(Values \cup {Unset})
    BY <2>3
  <2>5. buf' \in [Setters -> Seq(Values \cup {Unset})]
    BY <1>7, <2>1, <2>4 DEF HookSave
  <2> QED BY <1>7, <2>5 DEF HookSave, Quiet, repo, history
<1>8. ASSUME NEW t \in Setters, HookClose(t) PROVE ParamTypeOK'
  <2>1. PICK b \in Seq(Values \cup {Unset}) : b = buf[t]
    OBVIOUS
  <2>2. DOMAIN b = DOMAIN KeyOrder
    <3>1. KeyOrder \in Seq(Keys) /\ Len(b) = Len(KeyOrder)
      BY <1>8, <2>1, ParamAssumption DEF HookClose
    <3> HIDE DEF ParamTypeOK
    <3> QED BY <3>1
  <2>3. ASSUME NEW k \in Keys
        PROVE b[CHOOSE i \in DOMAIN KeyOrder : KeyOrder[i] = k] \in Values \cup {Unset}
    <3> HIDE DEF ParamTypeOK
    <3>1. \E i \in DOMAIN KeyOrder : KeyOrder[i] = k
      BY DEF Keys, ToSet
    <3> DEFINE j == CHOOSE i \in DOMAIN KeyOrder : KeyOrder[i] = k
    <3>2. j \in DOMAIN b
      BY <2>2, <3>1
    <3> HIDE DEF j
    <3>3. b[j] \in Values \cup {Unset}
      BY <3>2
    <3> QED BY <3>3 DEF j
  <2>4. file' \in Trees
    BY <1>8, <2>1, <2>3 DEF HookClose, Trees
  <2>5. buf' \in [Setters -> Seq(Values \cup {Unset})]
    <3>1. <<>> \in Seq(Values \cup {Unset})
      OBVIOUS
    <3> QED BY <1>8, <3>1 DEF HookClose
  <2> QED BY <1>8, <2>4, <2>5 DEF HookClose, Goto, Quiet, history
<1>9. ASSUME NEW t \in Setters, HookAdd(t) \/ HookCommit(t) PROVE ParamTypeOK'
  BY <1>9 DEF HookAdd, HookCommit, Leave, Goto, Quiet, history
<1>10. CASE GitChanges
  BY <1>10 DEF GitChanges, repo, history
<1>11. CASE UNCHANGED revisionVars
  BY <1>11 DEF revisionVars
<1> QED BY <1>1, <1>2, <1>3, <1>4, <1>5, <1>6, <1>7, <1>8, <1>9, <1>10, <1>11
        DEF RevisionNext, bus_on_param_revision

\* What the steps of a call have in common once the watchers have been told.
LEMMA QuietSteps ==
  ASSUME ParamTypeOK, NEW t \in Setters, MarkRevision(t) \/ bus_on_param_revision(t)
  PROVE  /\ UNCHANGED <<tree, watchers, key, new, listed, seen, overlap, crowded>>
         /\ \A u \in Setters \ {t} : phase'[u] = phase[u]
         /\ Busy(t) /\ phase[t] # "notify" /\ phase'[t] \notin {"notify", "dispatch"}
         /\ phase[t] = "dispatch" => listed[t] = <<>>
<1> USE DEF Goto, Quiet, history, Busy
<1> phase \in [Setters -> Steps]
  BY DEF ParamTypeOK
<1>1. CASE MarkRevision(t)
  BY <1>1 DEF MarkRevision
<1>2. CASE HookGuard(t) \/ HookEnter(t)
  BY <1>2 DEF HookGuard, HookEnter
<1>3. CASE HookResolve(t)
  BY <1>3 DEF HookResolve, Leave
<1>4. CASE HookSave(t)
  BY <1>4 DEF HookSave
<1>5. CASE HookClose(t)
  BY <1>5 DEF HookClose
<1>6. CASE HookAdd(t) \/ HookCommit(t)
  BY <1>6 DEF HookAdd, HookCommit, Leave
<1> QED BY <1>1, <1>2, <1>3, <1>4, <1>5, <1>6 DEF bus_on_param_revision

\* Watchers are only ever added; what has been told was told to watchers of the key.
LEMMA ListsKept ==
  ASSUME ParamTypeOK, Lists, Heard, [RevisionNext]_revisionVars
  PROVE  Lists' /\ Heard'
<1> listed \in [Setters -> Seq(Watchers)] /\ watchers \in Seq(Watchers) /\ phase \in [Setters -> Steps]
    /\ key \in [Setters -> Keys] /\ seen \in [Watchers -> [Keys -> Values \cup {Unset, Unseen}]]
  BY DEF ParamTypeOK
<1>1. ASSUME NEW t \in Setters, NEW k \in Keys, NEW v \in Values \cup {Unset}, hw_param_set_value(t, k, v)
      PROVE Lists' /\ Heard'
  <2>1. /\ phase[t] = "idle" /\ phase' = [phase EXCEPT ![t] = "notify"] /\ key' = [key EXCEPT ![t] = k]
        /\ UNCHANGED <<listed, watchers, seen>>
    BY <1>1 DEF hw_param_set_value
  <2>2. ToSet(listed[t]) = {}
    BY <2>1 DEF Lists, ToSet
  <2> QED BY <2>1, <2>2 DEF Lists, Heard
<1>2. ASSUME NEW t \in Setters, NEW w \in Watchers, hw_param_watch(t, w) PROVE Lists' /\ Heard'
  <2>1. ToSet(watchers') = {w} \cup ToSet(watchers) /\ UNCHANGED <<phase, key, listed, seen>>
    <3>1. PICK s \in Seq(Watchers) : s = watchers
      OBVIOUS
    <3>2. ToSet(<<w>> \o s) = {w} \cup ToSet(s)
      BY Prepended
    <3> QED BY <1>2, <3>1, <3>2 DEF hw_param_watch
  <2> QED BY <2>1 DEF Lists, Heard
<1>3. ASSUME NEW t \in Setters, WatchSnapshot(t) PROVE Lists' /\ Heard'
  <2>1. PICK s \in Seq(Watchers) :
          /\ listed' = [listed EXCEPT ![t] = s]
          /\ ToSet(s) \subseteq {w \in ToSet(watchers) : Watches(w, key[t])}
    BY <1>3, SnapshotTaken
  <2>2. phase' = [phase EXCEPT ![t] = "dispatch"] /\ UNCHANGED <<key, watchers, seen>>
    BY <1>3 DEF WatchSnapshot, Goto, Quiet
  <2> QED BY <2>1, <2>2 DEF Lists, Heard
<1>4. ASSUME NEW t \in Setters, Dispatch(t) PROVE Lists' /\ Heard'
  <2>1. PICK s \in Seq(Watchers) : s = listed[t] /\ s # <<>>
    BY <1>4 DEF Dispatch
  <2>2. Head(s) \in Watchers /\ Tail(s) \in Seq(Watchers) /\ ToSet(s) = {Head(s)} \cup ToSet(Tail(s))
    BY <2>1, WorkedOff
  <2>3. /\ listed' = [listed EXCEPT ![t] = Tail(s)] /\ seen' = [seen EXCEPT ![Head(s)][key[t]] = new[t]]
        /\ phase[t] = "dispatch" /\ UNCHANGED <<phase, key, watchers>>
    BY <1>4, <2>1 DEF Dispatch, Quiet
  <2>4. Head(s) \in ToSet(watchers) /\ Watches(Head(s), key[t])
    BY <2>1, <2>2 DEF Lists
  <2>5. Lists'
    BY <2>1, <2>2, <2>3 DEF Lists
  <2>6. Heard'
    BY <2>2, <2>3, <2>4 DEF Heard
  <2> QED BY <2>5, <2>6
<1>5. ASSUME NEW t \in Setters, MarkRevision(t) \/ bus_on_param_revision(t) PROVE Lists' /\ Heard'
  <2>1. /\ UNCHANGED <<watchers, key, listed, seen>> /\ \A u \in Setters \ {t} : phase'[u] = phase[u]
        /\ phase[t] = "dispatch" => listed[t] = <<>>
    BY <1>5, QuietSteps
  <2> QED BY <2>1 DEF Lists, Heard
<1>6. CASE UNCHANGED <<watchers, phase, key, listed, seen>>
  BY <1>6 DEF Lists, Heard
<1> QED BY <1>1, <1>2, <1>3, <1>4, <1>5, <1>6 DEF RevisionNext, GitChanges, revisionVars

\* Calls that do not overlap on a key tell its watchers the value the tree has.
LEMMA WatchersKept ==
  ASSUME ParamTypeOK, ParamTypeOK', Lists, Heard, OnePerKey, ToldOrListed, [RevisionNext]_revisionVars
  PROVE  OnePerKey' /\ ToldOrListed'
<1> USE DEF Busy
<1> listed \in [Setters -> Seq(Watchers)] /\ watchers \in Seq(Watchers) /\ phase \in [Setters -> Steps]
    /\ key \in [Setters -> Keys] /\ seen \in [Watchers -> [Keys -> Values \cup {Unset, Unseen}]]
    /\ tree \in Trees /\ new \in [Setters -> Values \cup {Unset}]
  BY DEF ParamTypeOK
<1>1. ASSUME NEW t \in Setters, NEW k \in Keys, NEW v \in Values \cup {Unset}, hw_param_set_value(t, k, v)
      PROVE OnePerKey' /\ ToldOrListed'
  <2>1. /\ phase[t] = "idle" /\ phase' = [phase EXCEPT ![t] = "notify"] /\ key' = [key EXCEPT ![t] = k]
        /\ new' = [new EXCEPT ![t] = v] /\ tree' = [tree EXCEPT ![k] = v]
        /\ UNCHANGED <<listed, watchers, seen>>
    BY <1>1 DEF hw_param_set_value
  <2>2. /\ crowded \ {k} = crowded' \ {k}
        /\ k \notin crowded' => \A u \in Setters \ {t} : Busy(u) => key[u] # k
    BY <1>1 DEF hw_param_set_value, Overlaps
  <2>3. tree'[k] = v /\ \A j \in Keys \ {k} : tree'[j] = tree[j]
    BY <2>1 DEF Trees
  <2>4. OnePerKey'
    <3>1. ASSUME NEW u \in Setters, Busy(u)', key'[u] \notin crowded'
          PROVE /\ new'[u] = tree'[key'[u]]
                /\ \A w \in Setters \ {u} : Busy(w)' => key'[w] # key'[u]
      <4>1. CASE u = t
        BY <2>1, <2>2, <2>3, <3>1, <4>1
      <4>2. CASE u # t
        <5>1. Busy(u) /\ key'[u] = key[u] /\ new'[u] = new[u]
          BY <2>1, <3>1, <4>2
        <5>2. key[u] # k /\ key[u] \notin crowded
          BY <2>2, <3>1, <4>2, <5>1
        <5> QED BY <2>1, <2>3, <4>2, <5>1, <5>2 DEF OnePerKey
      <4> QED BY <4>1, <4>2
    <3> QED BY <3>1 DEF OnePerKey
  <2>5. ASSUME Len(watchers) <= NotifyMax, NEW w \in ToSet(watchers), NEW j \in Keys \ crowded'
        PROVE \/ seen[w][j] \in {Unseen, tree'[j]}
              \/ \E u \in Setters : /\ key'[u] = j
                                    /\ phase'[u] = "notify" \/ (phase'[u] = "dispatch" /\ w \in ToSet(listed[u]))
    <3>1. CASE j = k
      BY <2>1, <3>1
    <3>2. CASE j # k
      <4>1. j \in Keys \ crowded
        BY <2>2, <2>5, <3>2
      <4>2. ASSUME NEW u \in Setters, key[u] = j,
                   phase[u] = "notify" \/ (phase[u] = "dispatch" /\ w \in ToSet(listed[u]))
            PROVE key'[u] = j /\ phase'[u] = phase[u]
        <5>1. u # t
          BY <2>1, <4>2
        <5> QED BY <2>1, <4>2, <5>1
      <4>3. tree'[j] = tree[j]
        BY <2>3, <4>1, <3>2
      <4>4. \/ seen[w][j] \in {Unseen, tree[j]}
            \/ \E u \in Setters : /\ key[u] = j
                                  /\ phase[u] = "notify" \/ (phase[u] = "dispatch" /\ w \in ToSet(listed[u]))
        BY <2>5, <4>1 DEF ToldOrListed
      <4> QED BY <2>1, <4>2, <4>3, <4>4
    <3> QED BY <3>1, <3>2
  <2> QED BY <2>1, <2>4, <2>5 DEF ToldOrListed
<1>2. ASSUME NEW t \in Setters, NEW w \in Watchers, hw_param_watch(t, w)
      PROVE OnePerKey' /\ ToldOrListed'
  <2>1. /\ ToSet(watchers') = {w} \cup ToSet(watchers) /\ Len(watchers') = Len(watchers) + 1
        /\ UNCHANGED <<tree, phase, key, new, listed, seen, crowded>>
    <3>1. PICK s \in Seq(Watchers) : s = watchers
      OBVIOUS
    <3>2. ToSet(<<w>> \o s) = {w} \cup ToSet(s)
      BY Prepended
    <3> QED BY <1>2, <3>1, <3>2, SMTT(60) DEF hw_param_watch, history
  <2>2. Len(watchers') <= NotifyMax => Len(watchers) <= NotifyMax
    BY <2>1, ParamAssumption
  <2>3. w \in ToSet(watchers) \/ \A k \in Keys : seen[w][k] = Unseen
    BY DEF Heard
  <2> QED BY <2>1, <2>2, <2>3 DEF OnePerKey, ToldOrListed
<1>3. ASSUME NEW t \in Setters, WatchSnapshot(t) PROVE OnePerKey' /\ ToldOrListed'
  <2>1. PICK s \in Seq(Watchers) :
          /\ listed' = [listed EXCEPT ![t] = s]
          /\ Len(watchers) <= NotifyMax =>
               {w \in ToSet(watchers) : Watches(w, key[t])} \subseteq ToSet(s)
    BY <1>3, SnapshotTaken
  <2>2. /\ phase[t] = "notify" /\ phase' = [phase EXCEPT ![t] = "dispatch"]
        /\ UNCHANGED <<tree, key, new, watchers, seen, crowded>>
    BY <1>3 DEF WatchSnapshot, Goto, Quiet, history
  <2>3. ASSUME Len(watchers) <= NotifyMax, NEW w \in ToSet(watchers), NEW j \in Keys \ crowded
        PROVE \/ seen[w][j] \in {Unseen, tree[j]}
              \/ \E u \in Setters : /\ key[u] = j
                                    /\ phase'[u] = "notify" \/ (phase'[u] = "dispatch" /\ w \in ToSet(listed'[u]))
    <3>1. CASE j = key[t] /\ seen[w][j] # Unseen
      <4>1. w \in Watchers
        BY DEF ToSet
      <4>2. w \in ToSet(s)
        BY <2>1, <2>3, <3>1, <4>1 DEF Heard
      <4> QED BY <2>1, <2>2, <3>1, <4>2
    <3>2. CASE j # key[t]
      <4>1. \A u \in Setters \ {t} : phase'[u] = phase[u] /\ listed'[u] = listed[u]
        BY <2>1, <2>2
      <4>2. \/ seen[w][j] \in {Unseen, tree[j]}
            \/ \E u \in Setters : /\ key[u] = j
                                  /\ phase[u] = "notify" \/ (phase[u] = "dispatch" /\ w \in ToSet(listed[u]))
        BY <2>3 DEF ToldOrListed
      <4> QED BY <2>2, <3>2, <4>1, <4>2
    <3> QED BY <2>2, <3>1, <3>2
  <2>4. OnePerKey'
    BY <2>2 DEF OnePerKey
  <2> QED BY <2>2, <2>3, <2>4 DEF ToldOrListed
<1>4. ASSUME NEW t \in Setters, Dispatch(t) PROVE OnePerKey' /\ ToldOrListed'
  <2>1. PICK s \in Seq(Watchers) : s = listed[t] /\ s # <<>>
    BY <1>4 DEF Dispatch
  <2>2. Head(s) \in Watchers /\ Tail(s) \in Seq(Watchers) /\ ToSet(s) = {Head(s)} \cup ToSet(Tail(s))
    BY <2>1, WorkedOff
  <2>3. /\ listed' = [listed EXCEPT ![t] = Tail(s)] /\ seen' = [seen EXCEPT ![Head(s)][key[t]] = new[t]]
        /\ phase[t] = "dispatch" /\ UNCHANGED <<tree, phase, key, new, watchers, crowded>>
    BY <1>4, <2>1 DEF Dispatch, Quiet, history
  <2>4. ToSet(watchers) \subseteq Watchers
    BY DEF ToSet
  <2>5. ASSUME Len(watchers) <= NotifyMax, NEW w \in ToSet(watchers), NEW j \in Keys \ crowded
        PROVE \/ seen'[w][j] \in {Unseen, tree[j]}
              \/ \E u \in Setters : /\ key[u] = j
                                    /\ phase[u] = "notify" \/ (phase[u] = "dispatch" /\ w \in ToSet(listed'[u]))
    <3>1. CASE w = Head(s) /\ j = key[t]
      <4>1. seen'[w][j] = new[t]
        BY <2>2, <2>3, <3>1
      <4> QED BY <2>3, <2>5, <3>1, <4>1 DEF OnePerKey
    <3>2. CASE ~(w = Head(s) /\ j = key[t])
      <4>1. seen'[w][j] = seen[w][j]
        BY <2>2, <2>3, <2>4, <3>2
      <4>2. ASSUME NEW u \in Setters, key[u] = j, phase[u] = "dispatch", w \in ToSet(listed[u])
            PROVE w \in ToSet(listed'[u])
        <5>1. CASE u = t
          BY <2>1, <2>2, <2>3, <3>2, <4>2, <5>1
        <5>2. CASE u # t
          BY <2>3, <4>2, <5>2
        <5> QED BY <5>1, <5>2
      <4> QED BY <2>5, <4>1, <4>2 DEF ToldOrListed
    <3> QED BY <3>1, <3>2
  <2>6. OnePerKey'
    BY <2>3 DEF OnePerKey
  <2> QED BY <2>3, <2>5, <2>6 DEF ToldOrListed
<1>5. ASSUME NEW t \in Setters, MarkRevision(t) \/ bus_on_param_revision(t)
      PROVE OnePerKey' /\ ToldOrListed'
  <2>1. /\ UNCHANGED <<tree, watchers, key, new, listed, seen, crowded>>
        /\ \A u \in Setters \ {t} : phase'[u] = phase[u]
        /\ Busy(t) /\ phase[t] # "notify"
        /\ phase[t] = "dispatch" => listed[t] = <<>>
    BY <1>5, QuietSteps
  <2>2. OnePerKey'
    BY <2>1 DEF OnePerKey
  <2>3. phase[t] = "dispatch" => ToSet(listed[t]) = {}
    BY <2>1 DEF ToSet
  <2>4. ASSUME NEW w, NEW u \in Setters,
               phase[u] = "notify" \/ (phase[u] = "dispatch" /\ w \in ToSet(listed[u]))
        PROVE phase'[u] = phase[u]
    BY <2>1, <2>3, <2>4
  <2>5. ASSUME Len(watchers) <= NotifyMax, NEW w \in ToSet(watchers), NEW j \in Keys \ crowded
        PROVE \/ seen[w][j] \in {Unseen, tree[j]}
              \/ \E u \in Setters : /\ key[u] = j
                                    /\ phase'[u] = "notify" \/ (phase'[u] = "dispatch" /\ w \in ToSet(listed[u]))
    <3>1. \/ seen[w][j] \in {Unseen, tree[j]}
          \/ \E u \in Setters : /\ key[u] = j
                                /\ phase[u] = "notify" \/ (phase[u] = "dispatch" /\ w \in ToSet(listed[u]))
      BY <2>5 DEF ToldOrListed
    <3> QED BY <2>4, <3>1
  <2>6. ToldOrListed'
    BY <2>1, <2>5 DEF ToldOrListed
  <2> QED BY <2>2, <2>6
<1>6. CASE UNCHANGED <<tree, watchers, phase, key, new, listed, seen, crowded>>
  BY <1>6 DEF OnePerKey, ToldOrListed
<1> QED BY <1>1, <1>2, <1>3, <1>4, <1>5, <1>6 DEF RevisionNext, GitChanges, revisionVars, history

\* A call that overlaps no other one finds the guard down and commits the tree it made.
LEMMA CommitKept ==
  ASSUME ParamTypeOK, ParamTypeOK', GuardBalanced, Alone, OnTheWay, [RevisionNext]_revisionVars
  PROVE  Alone' /\ OnTheWay'
<1> USE DEF Busy, Goto
<1> phase \in [Setters -> Steps] /\ buf \in [Setters -> Seq(Values \cup {Unset})] /\ tree \in Trees
  BY DEF ParamTypeOK
<1>1. ASSUME NEW t \in Setters, NEW k \in Keys, NEW v \in Values \cup {Unset}, hw_param_set_value(t, k, v)
      PROVE Alone' /\ OnTheWay'
  <2>1. phase' = [phase EXCEPT ![t] = "notify"] /\ (overlap' <=> \E u \in Setters \ {t} : Busy(u))
    BY <1>1 DEF hw_param_set_value, Overlaps
  <2> QED BY <2>1 DEF Alone, OnTheWay
\* Every other step is of the one call under way, which is at that step.
<1>2. ASSUME ~overlap, NEW t \in Setters, Busy(t), UNCHANGED <<overlap, tree>>,
             \A u \in Setters \ {t} : phase'[u] = phase[u]
      PROVE /\ \A u \in Setters \ {t} : ~Busy(u) /\ ~Busy(u)'
            /\ Alone'
  BY <1>2 DEF Alone
<1>3. ASSUME overlap, UNCHANGED overlap PROVE Alone' /\ OnTheWay'
  BY <1>3 DEF Alone, OnTheWay
<1>4. ASSUME NEW t \in Setters, NEW w \in Watchers, hw_param_watch(t, w) PROVE Alone' /\ OnTheWay'
  BY <1>4 DEF hw_param_watch, Alone, OnTheWay, history, repo
<1>5. ASSUME NEW t \in Setters, WatchSnapshot(t) \/ Dispatch(t) \/ MarkRevision(t)
      PROVE Alone' /\ OnTheWay'
  <2>1. /\ Busy(t) /\ UNCHANGED <<overlap, tree>> /\ \A u \in Setters \ {t} : phase'[u] = phase[u]
        /\ phase'[t] \in {"dispatch", "guard"}
    BY <1>5 DEF WatchSnapshot, Dispatch, MarkRevision, Quiet, history
  <2> QED BY <1>2, <1>3, <2>1 DEF OnTheWay
<1>6. ASSUME NEW t \in Setters, HookGuard(t) PROVE Alone' /\ OnTheWay'
  <2>1. /\ phase[t] = "guard" /\ UNCHANGED <<overlap, tree>> /\ \A u \in Setters \ {t} : phase'[u] = phase[u]
        /\ phase'[t] = "enter" \/ param_git_committing
    BY <1>6 DEF HookGuard, Quiet, history
  <2>2. ~overlap => ~param_git_committing
    BY <2>1 DEF GuardBalanced, InHook, Alone
  <2> QED BY <1>2, <1>3, <2>1, <2>2 DEF OnTheWay
<1>7. ASSUME NEW t \in Setters, HookEnter(t) PROVE Alone' /\ OnTheWay'
  <2>1. /\ Busy(t) /\ UNCHANGED <<overlap, tree>> /\ \A u \in Setters \ {t} : phase'[u] = phase[u]
        /\ phase'[t] = "resolve"
    BY <1>7 DEF HookEnter, Quiet, history
  <2> QED BY <1>2, <1>3, <2>1 DEF OnTheWay
<1>8. ASSUME NEW t \in Setters, HookResolve(t) PROVE Alone' /\ OnTheWay'
  <2>1. /\ Busy(t) /\ UNCHANGED <<overlap, tree>> /\ \A u \in Setters \ {t} : phase'[u] = phase[u]
        /\ (phase'[t] = "idle" /\ stale') \/ (phase'[t] = "save" /\ buf'[t] = <<>>)
    BY <1>8 DEF HookResolve, Leave, Quiet, history
  <2>2. buf'[t] = <<>> => Len(buf'[t]) = 0 /\ DOMAIN buf'[t] = {}
    OBVIOUS
  <2>3. Len(KeyOrder) >= 0
    BY ParamAssumption
  <2> QED BY <1>2, <1>3, <2>1, <2>2, <2>3 DEF OnTheWay
<1>9. ASSUME NEW t \in Setters, HookSave(t) PROVE Alone' /\ OnTheWay'
  <2>1. /\ phase[t] = "save" /\ UNCHANGED <<overlap, tree, phase>>
        /\ buf' = [buf EXCEPT ![t] = Append(@, tree[KeyOrder[Len(@) + 1]])] /\ Len(buf[t]) < Len(KeyOrder)
    BY <1>9 DEF HookSave, Quiet, history
  <2>2. PICK b \in Seq(Values \cup {Unset}) : b = buf[t]
    OBVIOUS
  <2>3. PICK x : x = tree[KeyOrder[Len(b) + 1]]
    OBVIOUS
  <2>4. /\ buf'[t] = Append(b, x) /\ Len(Append(b, x)) = Len(b) + 1
        /\ DOMAIN Append(b, x) = 1 .. Len(b) + 1 /\ DOMAIN b = 1 .. Len(b) /\ Append(b, x)[Len(b) + 1] = x
        /\ \A i \in 1 .. Len(b) : Append(b, x)[i] = b[i]
    BY <2>1, <2>2, <2>3
  <2>5. ~overlap => /\ Len(buf'[t]) <= Len(KeyOrder)
                    /\ \A i \in DOMAIN buf'[t] : buf'[t][i] = tree[KeyOrder[i]]
    BY <2>1, <2>2, <2>3, <2>4, ParamAssumption DEF OnTheWay
  <2> QED BY <1>2, <1>3, <2>1, <2>5 DEF OnTheWay
<1>10. ASSUME NEW t \in Setters, HookClose(t) PROVE Alone' /\ OnTheWay'
  <2>1. /\ phase[t] = "save" /\ UNCHANGED <<overlap, tree>> /\ \A u \in Setters \ {t} : phase'[u] = phase[u]
        /\ phase'[t] = "add" /\ Len(buf[t]) = Len(KeyOrder)
        /\ file' = [k \in Keys |-> buf[t][CHOOSE i \in DOMAIN KeyOrder : KeyOrder[i] = k]]
    BY <1>10 DEF HookClose, Quiet, history
  <2>2. ASSUME ~overlap, NEW k \in Keys
        PROVE buf[t][CHOOSE i \in DOMAIN KeyOrder : KeyOrder[i] = k] = tree[k]
    <3>1. \E i \in DOMAIN KeyOrder : KeyOrder[i] = k
      BY DEF Keys, ToSet
    <3> DEFINE j == CHOOSE i \in DOMAIN KeyOrder : KeyOrder[i] = k
    <3>2. j \in DOMAIN KeyOrder /\ KeyOrder[j] = k
      BY <3>1
    <3>3. DOMAIN buf[t] = DOMAIN KeyOrder
      BY <2>1, ParamAssumption
    <3> HIDE DEF j
    <3>4. buf[t][j] = tree[k]
      BY <2>1, <2>2, <3>2, <3>3 DEF OnTheWay
    <3> QED BY <3>4 DEF j
  <2>3. ASSUME ~overlap PROVE file' = tree
    <3> DEFINE F(k) == buf[t][CHOOSE i \in DOMAIN KeyOrder : KeyOrder[i] = k]
    <3>0. file' = [k \in Keys |-> F(k)] /\ \A k \in Keys : F(k) = tree[k]
      BY <2>1, <2>2, <2>3
    <3> HIDE DEF F
    <3>1. file' = [k \in Keys |-> tree[k]]
      BY <3>0
    <3> QED BY <3>1 DEF Trees
  <2> QED BY <1>2, <1>3, <2>1, <2>3 DEF OnTheWay
<1>11. ASSUME NEW t \in Setters, HookAdd(t) PROVE Alone' /\ OnTheWay'
  <2>1. /\ phase[t] = "add" /\ UNCHANGED <<overlap, tree>> /\ \A u \in Setters \ {t} : phase'[u] = phase[u]
        /\ (phase'[t] = "idle" /\ stale') \/ (phase'[t] = "commit" /\ staged' = file)
    BY <1>11 DEF HookAdd, Leave, Quiet, history
  <2>2. ~overlap => file = tree
    BY <2>1 DEF OnTheWay
  <2> QED BY <1>2, <1>3, <2>1, <2>2 DEF OnTheWay
<1>12. ASSUME NEW t \in Setters, HookCommit(t) PROVE Alone' /\ OnTheWay'
  <2>1. /\ phase[t] = "commit" /\ UNCHANGED <<overlap, tree>> /\ \A u \in Setters \ {t} : phase'[u] = phase[u]
        /\ phase'[t] = "idle" /\ (stale' \/ head' = staged)
    BY <1>12 DEF HookCommit, Leave, Quiet, history
  <2>2. ~overlap => staged = tree
    BY <2>1 DEF OnTheWay
  <2> QED BY <1>2, <1>3, <2>1, <2>2 DEF OnTheWay
<1>13. CASE GitChanges
  BY <1>13 DEF GitChanges, history, repo, Alone, OnTheWay
<1>14. CASE UNCHANGED revisionVars
  BY <1>14 DEF revisionVars, Alone, OnTheWay
<1> QED BY <1>1, <1>4, <1>5, <1>6, <1>7, <1>8, <1>9, <1>10, <1>11, <1>12, <1>13, <1>14
        DEF RevisionNext, bus_on_param_revision

-----------------------------------------------------------------------------
\* ParamCurrent (hw_param_set_value, hw_param_notify, bus_on_param_revision): whenever no
\* call is under way, the last commit and what the watchers were told agree with the tree,
\* but for calls that overlap or a revision that GIT refused.
THEOREM ParamIsCurrent == RevisionSpec => []ParamCurrent
<1>1. ASSUME RevisionInit PROVE ParamInv
  <2>1. ParamTypeOK
    <3>1. KeyOrder[1] \in Keys /\ NoTree \in Trees /\ <<>> \in Seq(Watchers) /\ 0 \in 0 .. SetMax
      BY ParamAssumption DEF Trees, NoTree
    <3>2. phase \in [Setters -> Steps] /\ key \in [Setters -> Keys] /\ new \in [Setters -> Values \cup {Unset}]
      BY <1>1, <3>1 DEF RevisionInit, Steps
    <3>3. listed \in [Setters -> Seq(Watchers)] /\ buf \in [Setters -> Seq(Values \cup {Unset})]
      BY <1>1, <3>1 DEF RevisionInit
    <3>4. seen \in [Watchers -> [Keys -> Values \cup {Unset, Unseen}]]
      BY <1>1 DEF RevisionInit
    <3> QED BY <1>1, <3>1, <3>2, <3>3, <3>4 DEF RevisionInit, ParamTypeOK
  <2>2. GuardBalanced /\ Lists /\ Heard
    BY <1>1 DEF RevisionInit, GuardBalanced, Lists, Heard, ToSet
  <2>3. OnePerKey /\ Alone /\ OnTheWay
    BY <1>1 DEF RevisionInit, OnePerKey, Alone, OnTheWay, Busy
  <2>4. ToSet(watchers) = {}
    BY <1>1 DEF RevisionInit, ToSet
  <2>5. ToldOrListed
    BY <2>4 DEF ToldOrListed
  <2> QED BY <2>1, <2>2, <2>3, <2>5 DEF ParamInv
<1>2. ASSUME ParamInv, [RevisionNext]_revisionVars PROVE ParamInv'
  <2>1. GuardBalanced'
    BY <1>2, GInvStep DEF ParamInv, GInv, ParamTypeOK
  <2> QED BY <1>2, <2>1, TypeKept, ListsKept, WatchersKept, CommitKept DEF ParamInv
<1>3. ASSUME ParamInv PROVE ParamCurrent
  <2>1. HeadCurrent
    BY <1>3 DEF ParamInv, OnTheWay, HeadCurrent, Quiescent, Busy
  <2>2. WatchersCurrent
    <3>1. \A i \in DOMAIN watchers : watchers[i] \in ToSet(watchers)
      BY DEF ToSet
    <3> QED BY <1>3, <3>1 DEF ParamInv, ToldOrListed, WatchersCurrent, Quiescent
  <2> QED BY <1>3, <2>1, <2>2 DEF ParamInv, ParamCurrent
<1> QED BY <1>1, <1>2, <1>3, PTL DEF RevisionSpec
=============================================================================

------------------------------- MODULE MCBus -------------------------------
(* Model-checking instance of what threads use of the bus at the same time:  *)
(* its lockers; METAPROTO, with two threads that each drive one provider, as *)
(* tests/test_lock.c does; and PARAM with its revision hook.  A guarded      *)
(* section of METAPROTO or PARAM is one step, which is what the lockers give *)
(* it.  A behaviour uses one of the three, and the others stay as they are.  *)
EXTENDS HwLock, MetaProto, Param

CONSTANTS boots, a, b, c,       \* the threads that use the lockers
          t1, t2, git, hap      \* the threads that register, and what each drives

VARIABLE part         \* what this behaviour uses

MCLockThreads == {boots, a, b, c}
\* METAPROTO's read-write locker and LOG's mutex.
MCKind == [k \in Lockers |-> IF k = "meta" THEN RW ELSE MTX]

MCPlugins == {git, hap}
MCOwner == [g \in MCPlugins |-> IF g = git THEN t1 ELSE t2]

\* Two parameters, one watcher of all and one of the second.
MCKeyOrder == <<"fsp.root", "np.port">>
MCWatchers == {[id |-> "bus", pattern |-> ALL], [id |-> "np", pattern |-> "np.port"]}

busVars == <<part, lockVars, vars, revisionVars>>

BusInit ==
  /\ part \in {"lockers", "METAPROTO", "PARAM"}
  /\ LockInit /\ Init /\ RevisionInit

Uses(p) ==
  /\ part = p /\ UNCHANGED part
  /\ p # "lockers" => UNCHANGED lockVars
  /\ p # "METAPROTO" => UNCHANGED vars
  /\ p # "PARAM" => UNCHANGED revisionVars

BusNext ==
  \/ Uses("lockers") /\ LockNext
  \/ Uses("METAPROTO") /\ Next
  \/ Uses("PARAM") /\ RevisionNext

\* The fairness of FairSpec.
BusSpec ==
  /\ BusInit /\ [][BusNext]_busVars
  /\ \A t \in Threads : WF_vars(Notify(t))
=============================================================================

------------------------------- MODULE HwLock -------------------------------
(***************************************************************************)
(* hwlock.c: the lock abstraction of the bus.  A locker is a POSIX         *)
(* read-write lock (HWLOCK_RW: the plugin list, METAPROTO, PARAM) or a     *)
(* mutex (HWLOCK_MTX: LOG, where rdlock and wrlock take the same mutex).   *)
(* While the process-wide switch g_locker_armed is 0 every lock and unlock *)
(* of every locker is a no-op.  hw_bus_boot_chain runs single-threaded     *)
(* with the switch off; main then calls hw_locker_enable_parallel once,    *)
(* and from there on several threads use the lockers.                      *)
(*                                                                         *)
(* A thread goes through the two steps of a guard (HW_RDLOCK_GUARD,        *)
(* HW_WRLOCK_GUARD): lock and enter the body; leave the body and unlock.   *)
(* No guard body of the code opens another guard, so a thread is in at     *)
(* most one body.                                                          *)
(***************************************************************************)
EXTENDS FiniteSets

CONSTANTS LockThreads,   \* the threads of the process
          Main,      \* the thread that boots the bus and arms the lockers
          Lockers,   \* the lockers of the process
          Kind       \* the kind of each locker

RW == "HWLOCK_RW"
MTX == "HWLOCK_MTX"

ASSUME LockAssumption == /\ Main \in LockThreads
                         /\ Kind \in [Lockers -> {RW, MTX}]

VARIABLES armed,     \* g_locker_armed
          writer,    \* per locker, the threads that hold its pthread lock exclusively
          readers,   \* per locker, the threads that hold its pthread lock shared
          rd,        \* per locker, the threads in an HW_RDLOCK_GUARD body
          wr,        \* per locker, the threads in an HW_WRLOCK_GUARD body
          badUnlock  \* a pthread unlock was issued for a lock its thread did not hold

lockVars == <<armed, writer, readers, rd, wr, badUnlock>>

LockTypeOK ==
  /\ armed \in BOOLEAN
  /\ writer \in [Lockers -> SUBSET LockThreads]
  /\ readers \in [Lockers -> SUBSET LockThreads]
  /\ rd \in [Lockers -> SUBSET LockThreads]
  /\ wr \in [Lockers -> SUBSET LockThreads]
  /\ badUnlock \in BOOLEAN

\* hw_locker_init: the pthread objects are created unlocked, the switch is off.
LockInit ==
  /\ armed = FALSE
  /\ writer = [k \in Lockers |-> {}]
  /\ readers = [k \in Lockers |-> {}]
  /\ rd = [k \in Lockers |-> {}]
  /\ wr = [k \in Lockers |-> {}]
  /\ badUnlock = FALSE

InBody(t) == \E k \in Lockers : t \in rd[k] \cup wr[k]

\* Before the lockers are armed only the booting thread exists.
Runs(t) == armed \/ t = Main

\* Mutant of the next action: armed while the booting thread is in a body.
EnableInBody ==
  /\ ~armed
  /\ armed' = TRUE
  /\ UNCHANGED <<writer, readers, rd, wr, badUnlock>>

\* hw_locker_enable_parallel, as main calls it: after hw_bus_boot_chain
\* has returned, so the booting thread is in no guard body.
hw_locker_enable_parallel ==
  /\ ~armed
  /\ ~InBody(Main)
  /\ armed' = TRUE
  /\ UNCHANGED <<writer, readers, rd, wr, badUnlock>>

\* pthread_rwlock_rdlock, and pthread_rwlock_wrlock / pthread_mutex_lock: they
\* return when the lock is free for the caller.
TakeShared(t, k) == /\ writer[k] = {}
                    /\ readers' = [readers EXCEPT ![k] = @ \cup {t}]
                    /\ UNCHANGED writer

TakeExclusive(t, k) == /\ writer[k] = {}
                       /\ readers[k] = {}
                       /\ writer' = [writer EXCEPT ![k] = {t}]
                       /\ UNCHANGED readers

\* hw_locker_rdlock and the entry of HW_RDLOCK_GUARD.
hw_locker_rdlock(t, k) ==
  /\ Runs(t) /\ ~InBody(t)
  /\ \/ ~armed /\ UNCHANGED <<writer, readers>>
     \/ armed /\ Kind[k] = RW /\ TakeShared(t, k)
     \/ armed /\ Kind[k] = MTX /\ TakeExclusive(t, k)
  /\ rd' = [rd EXCEPT ![k] = @ \cup {t}]
  /\ UNCHANGED <<armed, wr, badUnlock>>

\* Mutant of the next action: HW_WRLOCK_GUARD takes the lock shared.
WrlockTakesShared(t, k) ==
  /\ Runs(t) /\ ~InBody(t)
  /\ \/ ~armed /\ UNCHANGED <<writer, readers>>
     \/ armed /\ TakeShared(t, k)
  /\ wr' = [wr EXCEPT ![k] = @ \cup {t}]
  /\ UNCHANGED <<armed, rd, badUnlock>>

\* hw_locker_wrlock and the entry of HW_WRLOCK_GUARD.
hw_locker_wrlock(t, k) ==
  /\ Runs(t) /\ ~InBody(t)
  /\ \/ ~armed /\ UNCHANGED <<writer, readers>>
     \/ armed /\ TakeExclusive(t, k)
  /\ wr' = [wr EXCEPT ![k] = @ \cup {t}]
  /\ UNCHANGED <<armed, rd, badUnlock>>

\* hw_locker_unlock at the end of a guard: it looks at the switch again.
hw_locker_unlock(t, k) ==
  /\ t \in rd[k] \cup wr[k]
  /\ \/ ~armed /\ UNCHANGED <<writer, readers, badUnlock>>
     \/ /\ armed
        /\ badUnlock' = (badUnlock \/ t \notin writer[k] \cup readers[k])
        /\ writer' = [writer EXCEPT ![k] = @ \ {t}]
        /\ readers' = [readers EXCEPT ![k] = @ \ {t}]
  /\ rd' = [rd EXCEPT ![k] = @ \ {t}]
  /\ wr' = [wr EXCEPT ![k] = @ \ {t}]
  /\ UNCHANGED armed

LockNext ==
  \/ hw_locker_enable_parallel
  \/ \E t \in LockThreads, k \in Lockers : \/ hw_locker_rdlock(t, k)
                                       \/ hw_locker_wrlock(t, k)
                                       \/ hw_locker_unlock(t, k)

LockSpec == LockInit /\ [][LockNext]_lockVars

-----------------------------------------------------------------------------
(* Properties.                                                             *)

\* Critical sections: a thread in a write body of a locker is alone in the
\* bodies of that locker, and a mutex locker has one body at a time, also
\* across the moment the lockers are armed.  This is what makes the guarded
\* sections of METAPROTO, PARAM, LOG and the plugin list atomic for each
\* other (hwlock.h, HW_RDLOCK_GUARD and HW_WRLOCK_GUARD).
Exclusion ==
  \A k \in Lockers : \A t, u \in rd[k] \cup wr[k] :
      t \in wr[k] \/ Kind[k] = MTX => t = u

\* Every pthread unlock releases a lock its thread took: the switch never
\* changes between the lock and the unlock of one guard (hw_locker_unlock
\* re-reads g_locker_armed).
UnlocksOwnLock == ~badUnlock

-----------------------------------------------------------------------------
(* The inductive invariant: armed, the bodies of a locker and its pthread  *)
(* holders agree; not armed, only the booting thread can be in a body.     *)
HoldersOf(k) ==
  /\ writer[k] = IF Kind[k] = MTX THEN rd[k] \cup wr[k] ELSE wr[k]
  /\ readers[k] = IF Kind[k] = MTX THEN {} ELSE rd[k]
  /\ writer[k] # {} => readers[k] = {}
  /\ \A t, u \in writer[k] : t = u

HoldersAgree == armed => \A k \in Lockers : HoldersOf(k)

BootAlone ==
  ~armed => \A k \in Lockers : /\ writer[k] = {} /\ readers[k] = {}
                               /\ rd[k] \cup wr[k] \subseteq {Main}

LockInv == LockTypeOK /\ HoldersAgree /\ BootAlone /\ UnlocksOwnLock
=============================================================================

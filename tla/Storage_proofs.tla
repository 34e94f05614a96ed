---------------------------- MODULE Storage_proofs ----------------------------
(* Theorems about Storage, for any threads, volumes, snapshots and          *)
(* directories, whichever lie inside which, and whatever fails or ends in   *)
(* between; and where the paths of the file system lead.                    *)
EXTENDS Storage, Paths, ListFacts, TLAPS

\* The inductive invariant, part by part.

\* A thread makes or removes the directory of the snapshot of its job.
Owns(t) == pc[t] \in {"copy", "copying", "register", "discard", "remove"}

\* A snapshot being made or removed is not on record and has nobody else at it, unless
\* it is contested; what is about to be registered or removed is there.
Owned ==
  \A t \in Threads : Owns(t) /\ job[t].snap \notin contested =>
    /\ job[t].snap \notin ToSet(snaps) \cup ToSet(file.snaps)
    /\ \A u \in Threads \ {t} : Owns(u) => job[u].snap # job[t].snap
    /\ pc[t] \in {"register", "remove"} => snapData[job[t].snap] # "none"

\* What the state file holds is as unambiguous as the registry read from it.
FileUnique == \A r, s \in file.vols : r.name = s.name \/ r.path = s.path => r = s

\* Nothing is under way while the plugin is down, and only for those who call.
Underway ==
  \A t \in Threads : pc[t] # "idle" => up /\ t \in world.callers

\* A single caller takes back a directory that is of no volume, and clears and fills
\* only that of a volume that may be written.
WritesOwn ==
  \A t \in Threads : world.callers = {t} =>
    /\ pc[t] = "undo" => \A r \in vols : r.path # job[t].path
    /\ pc[t] \in {"clear", "restore"} => \E r \in vols : r.path = job[t].path /\ ~r.readonly

StorInv ==
  TypeOK /\ RegistryUnique /\ SnapshotsIntact /\ Owned /\ FileUnique /\ Underway /\ WritesOwn

\* There are jobs, so an idle thread has one.
LEMMA NoJobIsOne == NoJob \in Job
<1>1. \E j \in Job : TRUE
  <2>1. PICK v \in Volumes, n \in Names, p \in Paths : TRUE
    BY StorageAssumption
  <2>2. [vol |-> v, path |-> p, snap |-> <<v, n>>] \in Job
    BY DEF Job, Key
  <2> QED BY <2>2
<1> QED BY <1>1 DEF NoJob

\* What a call does next.
Steps == {"idle", "undo", "copy", "copying", "register", "discard", "clear", "restore", "remove"}

\* A thread that goes on keeps its job, or has none any more.
LEMMA GoesOn ==
  ASSUME TypeOK, NEW t \in Threads, NEW step \in Steps, Goto(t, step)
  PROVE  /\ pc' \in [Threads -> Steps] /\ job' \in [Threads -> Job]
         /\ pc'[t] = step
         /\ step # "idle" => job' = job
         /\ \A u \in Threads \ {t} : pc'[u] = pc[u] /\ job'[u] = job[u]
  BY NoJobIsOne DEF Goto, TypeOK, Steps

\* A thread that begins has the job it is given.
LEMMA Begins ==
  ASSUME TypeOK, NEW t \in Threads, NEW step \in Steps,
         NEW v \in Volumes, NEW p \in Paths, NEW k \in Key, Work(t, step, v, p, k)
  PROVE  /\ pc' \in [Threads -> Steps] /\ job' \in [Threads -> Job]
         /\ pc'[t] = step /\ job'[t] = [vol |-> v, path |-> p, snap |-> k]
         /\ \A u \in Threads \ {t} : pc'[u] = pc[u] /\ job'[u] = job[u]
<1>1. [vol |-> v, path |-> p, snap |-> k] \in Job
  BY DEF Job
<1> QED BY <1>1 DEF Work, TypeOK, Steps

\* A removal that fails takes nothing but what lies in the directory.
LEMMA RemovalTakes ==
  ASSUME TypeOK, NEW p \in Paths, RemovalFails(p)
  PROVE  /\ volData' \in [Paths -> Data]
         /\ \A q \in Paths : q # p /\ q \notin Inside[p] => volData'[q] = volData[q]
<1>1. PICK gone \in SUBSET Inside[p], hit \in SUBSET (Inside[p] \cup {p}) :
        volData' = [q \in Paths |-> IF q \in gone THEN "none"
                                   ELSE IF q \in hit /\ volData[q] # "none" THEN "partial"
                                   ELSE volData[q]]
  BY DEF RemovalFails
<1>2. \A q \in Paths : volData[q] \in Data /\ "none" \in Data /\ "partial" \in Data
  BY DEF TypeOK, Data
<1> QED BY <1>1, <1>2

\* What a removal leaves.
LEMMA RemovedTyped ==
  ASSUME TypeOK, NEW p \in Paths
  PROVE  Removed(p) \in [Paths -> Data]
  BY DEF TypeOK, Removed, Data

\* Every step keeps the types.
LEMMA TypeKept ==
  ASSUME TypeOK, [Next]_vars
  PROVE  TypeOK'
<1>1. ASSUME NEW t \in Threads, NEW v \in Volumes, NEW p \in Paths, NEW ro \in BOOLEAN, storage_create_volume(t, v, p, ro) PROVE TypeOK'
  <2> DEFINE new == [name |-> v, path |-> p, readonly |-> ro]
  <2>1. new \in Volume /\ job[t].snap \in Key /\ "undo" \in Steps
    BY DEF Volume, Job, TypeOK, Steps
  <2>2. pc' \in [Threads -> Steps] /\ job' \in [Threads -> Job]
    <3>1. CASE Work(t, "undo", v, p, job[t].snap)
      BY <2>1, <3>1, Begins
    <3>2. CASE UNCHANGED <<pc, job>>
      BY <3>2 DEF TypeOK, Steps
    <3> QED BY <1>1, <3>1, <3>2 DEF storage_create_volume
  <2>3. volData' \in [Paths -> Data]
    BY <1>1 DEF storage_create_volume, TypeOK, Data
  <2>4. vols' \subseteq Volume /\ snaps' \in Seq(Key) /\ file' \in [vols : SUBSET Volume, snaps : Seq(Key)]
    BY <1>1, <2>1 DEF storage_create_volume, TypeOK, storage_persist, PersistError
  <2>5. UNCHANGED <<up, snapData, saved, contested, world>>
    BY <1>1 DEF storage_create_volume, history
  <2> QED BY <2>2, <2>3, <2>4, <2>5 DEF TypeOK, Steps
<1>2. ASSUME NEW t \in Threads, UndoCreate(t) PROVE TypeOK'
  <2>1. job[t].path \in Paths /\ "idle" \in Steps
    BY DEF TypeOK, Job, Steps
  <2>2. pc' \in [Threads -> Steps] /\ job' \in [Threads -> Job]
    BY <1>2, <2>1, GoesOn DEF UndoCreate
  <2>3. volData' \in [Paths -> Data]
    BY <1>2, <2>1, RemovalTakes, RemovedTyped DEF UndoCreate
  <2> QED BY <1>2, <2>2, <2>3 DEF UndoCreate, TypeOK, Steps, history
<1>3. ASSUME NEW t \in Threads, NEW v \in Volumes, storage_delete_volume(t, v) PROVE TypeOK'
  <2>1. PICK r \in vols :
          \/ /\ volData' = Removed(r.path) /\ vols' = vols \ {r}
             /\ storage_persist \/ PersistError
          \/ RemovalFails(r.path) /\ UNCHANGED <<vols, file>>
    BY <1>3 DEF storage_delete_volume
  <2>2. r.path \in Paths
    BY DEF TypeOK, Volume
  <2>3. volData' \in [Paths -> Data]
    BY <2>1, <2>2, RemovalTakes, RemovedTyped
  <2>4. vols' \subseteq Volume /\ file' \in [vols : SUBSET Volume, snaps : Seq(Key)]
    BY <1>3, <2>1 DEF storage_delete_volume, TypeOK, storage_persist, PersistError
  <2> QED BY <1>3, <2>3, <2>4 DEF storage_delete_volume, TypeOK, history
<1>4. ASSUME NEW t \in Threads, NEW v \in Volumes, storage_unregister_volume(t, v) PROVE TypeOK'
  BY <1>4, NoJobIsOne, StorageAssumption DEF storage_unregister_volume, TypeOK, history, data, storage_persist, PersistError
<1>5. ASSUME NEW t \in Threads, NEW v \in Volumes, NEW n \in Names, SnapshotBegin(t, v, n) PROVE TypeOK'
  BY <1>5, NoJobIsOne, StorageAssumption DEF SnapshotBegin, TypeOK, history, data, Work, Contest, Job, Volume, Key
<1>6. ASSUME NEW t \in Threads, SnapshotCopy(t) PROVE TypeOK'
  <2>1. job[t].path \in Paths /\ job[t].snap \in Key
    BY DEF TypeOK, Job
  <2>2. PICK step \in Steps : Goto(t, step)
    BY <1>6 DEF SnapshotCopy, Steps
  <2>3. pc' \in [Threads -> Steps] /\ job' \in [Threads -> Job]
    BY <2>2, GoesOn
  <2>4. PICK d \in Data : SnapDir(t, d)
    BY <1>6, <2>1 DEF SnapshotCopy, SnapRemoved, TypeOK, Data
  <2>5. snapData' \in [Key -> Data]
    BY <2>1, <2>4 DEF SnapDir, TypeOK
  <2> QED BY <1>6, <2>3, <2>5 DEF SnapshotCopy, TypeOK, Steps, history
<1>7. ASSUME NEW t \in Threads, SnapshotRegister(t) PROVE TypeOK'
  <2>1. job[t].snap \in Key
    BY DEF TypeOK, Job
  <2>2. PICK step \in Steps : Goto(t, step)
    BY <1>7 DEF SnapshotRegister, Steps
  <2>3. pc' \in [Threads -> Steps] /\ job' \in [Threads -> Job]
    BY <2>2, GoesOn
  <2>4. <<job[t].snap>> \o snaps \in Seq(Key)
    BY <2>1, Prepended DEF TypeOK
  <2>5. snaps' \in Seq(Key) /\ vols' = vols /\ saved' \in [Key -> Data]
    BY <1>7, <2>1, <2>4 DEF SnapshotRegister, TypeOK
  <2>6. file' \in [vols : SUBSET Volume, snaps : Seq(Key)]
    BY <1>7, <2>5 DEF SnapshotRegister, storage_persist, TypeOK
  <2> QED BY <1>7, <2>3, <2>5, <2>6 DEF SnapshotRegister, TypeOK, Steps, data
<1>8. ASSUME NEW t \in Threads, SnapshotDiscard(t) PROVE TypeOK'
  BY <1>8, NoJobIsOne DEF SnapshotDiscard, TypeOK, history, SnapRemoved, SnapDir, Goto, Data, Job
<1>9. ASSUME NEW t \in Threads, NEW v \in Volumes, NEW i \in DOMAIN snaps, RestoreBegin(t, i, v) PROVE TypeOK'
  BY <1>9, NoJobIsOne, StorageAssumption DEF RestoreBegin, TypeOK, history, data, Work, Job, Volume
<1>10. ASSUME NEW t \in Threads, RestoreClear(t) PROVE TypeOK'
  <2>1. job[t].path \in Paths
    BY DEF TypeOK, Job
  <2>2. PICK step \in Steps : Goto(t, step)
    BY <1>10 DEF RestoreClear, Steps
  <2>3. pc' \in [Threads -> Steps] /\ job' \in [Threads -> Job]
    BY <2>2, GoesOn
  <2>4. volData' \in [Paths -> Data]
    <3>1. Removed(job[t].path) \in [Paths -> Data] /\ "empty" \in Data
      BY <2>1, RemovedTyped DEF Data
    <3>2. CASE RemovalFails(job[t].path)
      BY <2>1, <3>2, RemovalTakes
    <3>3. CASE volData' = [Removed(job[t].path) EXCEPT ![job[t].path] = "empty"]
      BY <3>1, <3>3
    <3>4. CASE UNCHANGED volData
      BY <3>4 DEF TypeOK
    <3> QED BY <1>10, <3>2, <3>3, <3>4 DEF RestoreClear
  <2> QED BY <1>10, <2>3, <2>4 DEF RestoreClear, TypeOK, Steps, history
<1>11. ASSUME NEW t \in Threads, RestoreCopy(t) PROVE TypeOK'
  BY <1>11, NoJobIsOne, StorageAssumption DEF RestoreCopy, TypeOK, history, data, Goto, Data, Job
<1>12. ASSUME NEW t \in Threads, NEW i \in DOMAIN snaps, DeleteBegin(t, i) PROVE TypeOK'
  <2>1. snaps[i] \in Key /\ RemoveAt(snaps, i) \in Seq(Key)
    BY Unlinked DEF TypeOK
  <2>2. pc' \in [Threads -> Steps] /\ job' \in [Threads -> Job]
    <3>1. CASE Work(t, "remove", job[t].vol, job[t].path, snaps[i])
      <4>1. job[t].vol \in Volumes /\ job[t].path \in Paths /\ "remove" \in Steps
        BY DEF TypeOK, Job, Steps
      <4> QED BY <2>1, <3>1, <4>1, Begins
    <3>2. CASE UNCHANGED <<pc, job>>
      BY <3>2 DEF TypeOK, Steps
    <3> QED BY <1>12, <3>1, <3>2 DEF DeleteBegin
  <2>3. snaps' \in Seq(Key) /\ vols' \subseteq Volume
        /\ file' \in [vols : SUBSET Volume, snaps : Seq(Key)]
    BY <1>12, <2>1 DEF DeleteBegin, storage_persist, PersistError, TypeOK
  <2> QED BY <1>12, <2>2, <2>3 DEF DeleteBegin, TypeOK, Steps, data, history
<1>13. ASSUME NEW t \in Threads, DeleteRemove(t) PROVE TypeOK'
  BY <1>13, NoJobIsOne DEF DeleteRemove, TypeOK, history, SnapRemoved, SnapDir, Goto, Data, Job
<1>14. ASSUME NEW p \in Paths, NEW c \in Contents, AppWrite(p, c) PROVE TypeOK'
  BY <1>14, NoJobIsOne, StorageAssumption DEF AppWrite, TypeOK, history, data, Data
<1>15. ASSUME Crash PROVE TypeOK'
  <2>1. snaps' \in Seq(Key)
    BY <1>15 DEF Crash
  <2> QED BY <1>15, <2>1, NoJobIsOne DEF Crash, TypeOK, history, data
<1>16. ASSUME storage_impl_init PROVE TypeOK'
  BY <1>16, NoJobIsOne, StorageAssumption, Reversed DEF storage_impl_init, TypeOK, history, data
<1>17. CASE UNCHANGED vars
  BY <1>17 DEF vars, TypeOK
<1> QED BY <1>1, <1>2, <1>3, <1>4, <1>5, <1>6, <1>7, <1>8, <1>9, <1>10, <1>11, <1>12, <1>13, <1>14, <1>15, <1>16, <1>17 DEF Next, storage_snapshot_restore, storage_snapshot_delete

-----------------------------------------------------------------------------
\* Steps that take no snapshot in hand and put none on record keep those on record as
\* they are.
LEMMA CalmStep ==
  ASSUME TypeOK, SnapshotsIntact, Owned,
         ToSet(snaps') \cup ToSet(file'.snaps) \subseteq ToSet(snaps) \cup ToSet(file.snaps),
         UNCHANGED <<snapData, saved, contested>>,
         \A t \in Threads : Owns(t)' => /\ Owns(t) /\ job'[t] = job[t]
                                        /\ pc'[t] \in {pc[t], "discard"}
  PROVE  SnapshotsIntact' /\ Owned'
<1>1. SnapshotsIntact'
  BY DEF SnapshotsIntact, Intact
<1>2. ASSUME NEW t \in Threads, Owns(t)', job'[t].snap \notin contested
      PROVE  /\ job'[t].snap \notin ToSet(snaps') \cup ToSet(file'.snaps)
             /\ \A u \in Threads \ {t} : Owns(u)' => job'[u].snap # job'[t].snap
             /\ pc'[t] \in {"register", "remove"} => snapData'[job'[t].snap] # "none"
  <2>1. Owns(t) /\ job'[t] = job[t] /\ pc'[t] \in {pc[t], "discard"}
    BY <1>2
  <2>2. /\ job[t].snap \notin ToSet(snaps) \cup ToSet(file.snaps)
        /\ \A u \in Threads \ {t} : Owns(u) => job[u].snap # job[t].snap
        /\ pc[t] \in {"register", "remove"} => snapData[job[t].snap] # "none"
    BY <1>2, <2>1 DEF Owned
  <2> QED BY <2>1, <2>2
<1> QED BY <1>1, <1>2 DEF Owned

\* A thread that changes the directory of its own snapshot disturbs no other one.
LEMMA OwnStep ==
  ASSUME TypeOK, SnapshotsIntact, Owned,
         NEW t \in Threads, Owns(t), NEW d, SnapDir(t, d),
         NEW step \in {"idle", "copying", "register"}, Goto(t, step), step = "register" => d # "none",
         UNCHANGED <<snaps, file, saved, contested>>
  PROVE  SnapshotsIntact' /\ Owned'
<1> DEFINE k == job[t].snap
<1>1. /\ k \in Key /\ snapData'[k] = d
      /\ \A j \in Key : j # k => snapData'[j] = snapData[j]
  BY DEF SnapDir, TypeOK, Job
<1>2. ToSet(snaps) \subseteq Key /\ ToSet(file.snaps) \subseteq Key
  BY DEF TypeOK, ToSet
<1>3. k \notin contested => k \notin ToSet(snaps) \cup ToSet(file.snaps)
  BY DEF Owned
<1>4. SnapshotsIntact'
  BY <1>1, <1>2, <1>3 DEF SnapshotsIntact, Intact
<1>5. /\ pc'[t] = step
      /\ step # "idle" => job'[t] = job[t]
      /\ \A u \in Threads \ {t} : pc'[u] = pc[u] /\ job'[u] = job[u]
  BY GoesOn DEF Steps
<1>6. ASSUME NEW u \in Threads, Owns(u)', job'[u].snap \notin contested
      PROVE  /\ job'[u].snap \notin ToSet(snaps) \cup ToSet(file.snaps)
             /\ \A w \in Threads \ {u} : Owns(w)' => job'[w].snap # job'[u].snap
             /\ pc'[u] \in {"register", "remove"} => snapData'[job'[u].snap] # "none"
  <2>1. /\ Owns(u) /\ job'[u] = job[u] /\ job[u].snap \in Key
        /\ \A w \in Threads : Owns(w)' => Owns(w) /\ job'[w] = job[w]
    <3>1. job[u].snap \in Key
      BY DEF TypeOK, Job
    <3>2. ASSUME NEW w \in Threads, Owns(w)' PROVE Owns(w) /\ job'[w] = job[w]
      <4>1. CASE w = t
        BY <1>5, <3>2, <4>1 DEF Owns
      <4>2. CASE w # t
        BY <1>5, <3>2, <4>2 DEF Owns
      <4> QED BY <4>1, <4>2
    <3> QED BY <1>6, <3>1, <3>2
  <2>2. /\ job[u].snap \notin ToSet(snaps) \cup ToSet(file.snaps)
        /\ \A w \in Threads \ {u} : Owns(w) => job[w].snap # job[u].snap
        /\ pc[u] \in {"register", "remove"} => snapData[job[u].snap] # "none"
    BY <1>6, <2>1 DEF Owned
  <2>3. CASE u = t
    <3>1. pc'[u] \in {"register", "remove"} => snapData'[k] # "none"
      BY <1>1, <1>5, <2>3
    <3> QED BY <2>1, <2>2, <2>3, <3>1
  <2>4. CASE u # t
    BY <1>1, <1>5, <2>1, <2>2, <2>4
  <2> QED BY <2>3, <2>4
<1> QED BY <1>4, <1>6 DEF Owned

\* What is on record stays as it was recorded, in every step of every call.
LEMMA SnapshotsKept ==
  ASSUME TypeOK, TypeOK', RegistryUnique, SnapshotsIntact, Owned, Underway, [Next]_vars
  PROVE  SnapshotsIntact' /\ Owned'
<1>1. ASSUME NEW t \in Threads, NEW v \in Volumes, NEW p \in Paths, NEW ro \in BOOLEAN,
             storage_create_volume(t, v, p, ro)
      PROVE SnapshotsIntact' /\ Owned'
  <2>1. /\ UNCHANGED <<snaps, snapData, saved, contested>>
        /\ file'.snaps = snaps \/ file' = file
    BY <1>1 DEF storage_create_volume, storage_persist, PersistError, history
  <2>2. ASSUME NEW u \in Threads, Owns(u)'
        PROVE Owns(u) /\ job'[u] = job[u] /\ pc'[u] \in {pc[u], "discard"}
    <3>1. CASE Work(t, "undo", v, p, job[t].snap)
      <4>1. u # t /\ pc'[u] = pc[u] /\ job'[u] = job[u]
        BY <2>2, <3>1 DEF Work, Owns, TypeOK
      <4> QED BY <2>2, <4>1 DEF Owns
    <3>2. CASE UNCHANGED <<pc, job>>
      BY <2>2, <3>2 DEF Owns
    <3> QED BY <1>1, <3>1, <3>2 DEF storage_create_volume
  <2> QED BY <2>1, <2>2, CalmStep
<1>2. ASSUME NEW t \in Threads, UndoCreate(t) \/ RestoreClear(t) \/ RestoreCopy(t)
      PROVE SnapshotsIntact' /\ Owned'
  <2>1. UNCHANGED <<snaps, file, snapData, saved, contested>>
    BY <1>2 DEF UndoCreate, RestoreClear, RestoreCopy, history
  <2>2. PICK step \in {"idle", "restore"} : Goto(t, step)
    BY <1>2 DEF UndoCreate, RestoreClear, RestoreCopy
  <2>3. \A u \in Threads : Owns(u)' => Owns(u) /\ job'[u] = job[u] /\ pc'[u] = pc[u]
    BY <2>2, GoesOn DEF Owns, Steps
  <2> QED BY <2>1, <2>3, CalmStep
<1>3. ASSUME NEW t \in Threads, NEW v \in Volumes,
             storage_delete_volume(t, v) \/ storage_unregister_volume(t, v)
      PROVE SnapshotsIntact' /\ Owned'
  <2>1. /\ UNCHANGED <<snaps, snapData, saved, contested, pc, job>>
        /\ file'.snaps = snaps \/ file' = file
    BY <1>3 DEF storage_delete_volume, storage_unregister_volume, storage_persist, PersistError,
                history, data
  <2> QED BY <2>1, CalmStep DEF Owns
<1>4. ASSUME NEW t \in Threads, NEW v \in Volumes, NEW n \in Names, SnapshotBegin(t, v, n)
      PROVE SnapshotsIntact' /\ Owned'
  <2> DEFINE k == <<v, n>>
  <2>1. /\ pc[t] = "idle" /\ k \notin ToSet(snaps) /\ snapData[k] = "none" /\ k \in Key
        /\ UNCHANGED <<snaps, file, snapData, saved>> /\ Contest(t, k)
    BY <1>4 DEF SnapshotBegin, Ready, data, Key
  <2>2. PICK r \in vols : Work(t, "copy", v, r.path, k)
    BY <1>4 DEF SnapshotBegin
  <2>3. r.path \in Paths /\ "copy" \in Steps
    BY DEF TypeOK, Volume, Steps
  <2>4. /\ pc'[t] = "copy" /\ job'[t].snap = k
        /\ \A u \in Threads \ {t} : pc'[u] = pc[u] /\ job'[u] = job[u]
    BY <2>2, TypeOK DEF Work, TypeOK
  <2>5. contested \subseteq contested'
    BY <2>1 DEF Contest
  <2>6. ASSUME k \notin contested'
        PROVE /\ k \notin ToSet(snaps) \cup ToSet(file.snaps)
              /\ \A u \in Threads \ {t} : Owns(u) => job[u].snap # k
    <3>1. k \notin ToSet(file.snaps)
      BY <2>1, <2>5, <2>6 DEF SnapshotsIntact, Intact
    <3>2. ASSUME NEW u \in Threads \ {t}, Owns(u), job[u].snap = k PROVE FALSE
      <4>1. CASE pc[u] = "remove"
        BY <2>1, <2>5, <2>6, <3>2, <4>1 DEF Owned
      <4>2. CASE pc[u] # "remove"
        BY <2>1, <2>6, <3>2, <4>2 DEF Contest, Owns
      <4> QED BY <4>1, <4>2
    <3> QED BY <2>1, <3>1, <3>2
  <2>7. ASSUME NEW u \in Threads, Owns(u)', job'[u].snap \notin contested'
        PROVE  /\ job'[u].snap \notin ToSet(snaps) \cup ToSet(file.snaps)
               /\ \A w \in Threads \ {u} : Owns(w)' => job'[w].snap # job'[u].snap
               /\ pc'[u] \in {"register", "remove"} => snapData[job'[u].snap] # "none"
    <3>1. CASE u = t
      BY <2>4, <2>6, <2>7, <3>1 DEF Owns
    <3>2. CASE u # t
      <4>1. Owns(u) /\ pc'[u] = pc[u] /\ job'[u] = job[u] /\ job[u].snap \notin contested
        BY <2>4, <2>5, <2>7, <3>2 DEF Owns
      <4>2. job[u].snap = k => k \notin contested'
        BY <2>7, <4>1
      <4> QED BY <2>4, <2>6, <3>2, <4>1, <4>2 DEF Owned, Owns
    <3> QED BY <3>1, <3>2
  <2>8. SnapshotsIntact'
    BY <2>1, <2>5 DEF SnapshotsIntact, Intact
  <2> QED BY <2>1, <2>7, <2>8 DEF Owned
<1>5. ASSUME NEW t \in Threads, SnapshotCopy(t) \/ SnapshotDiscard(t) \/ DeleteRemove(t)
      PROVE SnapshotsIntact' /\ Owned'
  <2>1. Owns(t) /\ UNCHANGED <<snaps, file, saved, contested>>
    BY <1>5 DEF SnapshotCopy, SnapshotDiscard, DeleteRemove, Owns, history
  <2>2. CASE Goto(t, "copying")
    <3>1. PICK d : d = IF pc[t] = "copy" THEN IF snapData[job[t].snap] = "none" THEN "partial"
                                              ELSE snapData[job[t].snap]
                       ELSE "partial"
      OBVIOUS
    <3>2. pc[t] \in Steps /\ pc'[t] = "copying"
      BY <2>2, GoesOn DEF TypeOK, Steps
    <3>3. SnapshotCopy(t)
      BY <1>5, <3>2, GoesOn DEF SnapshotDiscard, DeleteRemove, Steps
    <3>4. SnapDir(t, d)
      BY <3>1, <3>2, <3>3, GoesOn DEF SnapshotCopy, Steps
    <3> QED BY <2>1, <2>2, <3>4, OwnStep
  <2>3. CASE volData[job[t].path] # "none" /\ SnapDir(t, volData[job[t].path]) /\ Goto(t, "register")
    <3>1. PICK d : d = volData[job[t].path]
      OBVIOUS
    <3>2. SnapDir(t, d)
      BY <2>3, <3>1 DEF SnapDir
    <3> QED BY <2>1, <2>3, <3>1, <3>2, OwnStep
  <2>4. CASE SnapRemoved(t) /\ Goto(t, "idle")
    <3>1. PICK d \in {"none", "partial"} : SnapDir(t, d)
      BY <2>4 DEF SnapRemoved
    <3> QED BY <2>1, <2>4, <3>1, OwnStep
  <2> QED BY <1>5, <2>2, <2>3, <2>4 DEF SnapshotCopy, SnapshotDiscard, DeleteRemove
<1>6. ASSUME NEW t \in Threads, SnapshotRegister(t) PROVE SnapshotsIntact' /\ Owned'
  <2> DEFINE k == job[t].snap
  <2>1. pc[t] = "register" /\ k \in Key /\ UNCHANGED <<snapData, contested>>
    BY <1>6 DEF SnapshotRegister, data, TypeOK, Job
  <2>2. CASE Goto(t, "discard") /\ UNCHANGED <<snaps, file, saved>>
    <3>1. \A u \in Threads : Owns(u)' => Owns(u) /\ job'[u] = job[u] /\ pc'[u] \in {pc[u], "discard"}
      BY <2>1, <2>2, GoesOn DEF Owns, Steps
    <3> QED BY <2>1, <2>2, <3>1, CalmStep
  <2>3. CASE /\ k \notin ToSet(snaps) /\ snaps' = <<k>> \o snaps /\ Goto(t, "idle")
             /\ saved' = [saved EXCEPT ![k] = snapData[k]] /\ storage_persist
    <3>1. ToSet(snaps') = {k} \cup ToSet(snaps) /\ file'.snaps = snaps' /\ ToSet(snaps) \subseteq Key
      <4>1. PICK j \in Key : j = k
        BY <2>1
      <4>2. ToSet(<<j>> \o snaps) = {j} \cup ToSet(snaps)
        BY Prepended DEF TypeOK
      <4>3. file'.snaps = snaps'
        BY <2>3 DEF storage_persist
      <4>4. ToSet(snaps) \subseteq Key
        BY DEF TypeOK, ToSet
      <4> QED BY <2>3, <4>1, <4>2, <4>3, <4>4
    <3>2. k \notin contested => snapData[k] # "none"
      BY <2>1 DEF Owned, Owns
    <3>3. saved'[k] = snapData[k] /\ \A j \in Key : j # k => saved'[j] = saved[j]
      BY <2>1, <2>3 DEF TypeOK
    <3>4. SnapshotsIntact'
      BY <2>1, <3>1, <3>2, <3>3 DEF SnapshotsIntact, Intact
    <3>5. \A u \in Threads : Owns(u)' => u # t /\ Owns(u) /\ pc'[u] = pc[u] /\ job'[u] = job[u]
      BY <2>3, GoesOn DEF Owns, Steps
    <3>6. ASSUME NEW u \in Threads, Owns(u)', job'[u].snap \notin contested
          PROVE  /\ job'[u].snap \notin ToSet(snaps') \cup ToSet(file'.snaps)
                 /\ \A w \in Threads \ {u} : Owns(w)' => job'[w].snap # job'[u].snap
                 /\ pc'[u] \in {"register", "remove"} => snapData'[job'[u].snap] # "none"
      <4>1. u # t /\ Owns(u) /\ pc'[u] = pc[u] /\ job'[u] = job[u]
        BY <3>5, <3>6
      <4>2. /\ job[u].snap \notin ToSet(snaps)
            /\ \A w \in Threads \ {u} : Owns(w) => job[w].snap # job[u].snap
            /\ pc[u] \in {"register", "remove"} => snapData[job[u].snap] # "none"
        BY <3>6, <4>1 DEF Owned
      <4>3. job[u].snap # k
        BY <2>1, <4>1, <4>2 DEF Owns
      <4> QED BY <2>1, <3>1, <3>5, <4>1, <4>2, <4>3
    <3> QED BY <2>1, <3>4, <3>6 DEF Owned
  <2> QED BY <1>6, <2>2, <2>3 DEF SnapshotRegister
<1>7. ASSUME NEW t \in Threads, NEW i \in DOMAIN snaps, NEW v \in Volumes, RestoreBegin(t, i, v)
      PROVE SnapshotsIntact' /\ Owned'
  <2>1. UNCHANGED <<snaps, file, snapData, saved, contested>>
    BY <1>7 DEF RestoreBegin, data, history
  <2>2. \A u \in Threads : Owns(u)' => Owns(u) /\ pc'[u] = pc[u] /\ job'[u] = job[u]
    <3>1. PICK r \in vols : Work(t, "clear", v, r.path, snaps[i])
      BY <1>7 DEF RestoreBegin
    <3> QED BY <3>1 DEF Work, Owns, TypeOK
  <2> QED BY <2>1, <2>2, CalmStep
<1>8. ASSUME NEW t \in Threads, NEW i \in DOMAIN snaps, DeleteBegin(t, i)
      PROVE SnapshotsIntact' /\ Owned'
  <2> DEFINE k == snaps[i]
  <2>1. /\ k \in Key /\ k \in ToSet(snaps) /\ ToSet(snaps') = ToSet(snaps) \ {k}
        /\ pc[t] = "idle" /\ UNCHANGED <<snapData, saved, contested>>
    <3>1. k \in Key /\ k \in ToSet(snaps)
      BY DEF TypeOK, ToSet
    <3>2. PICK s \in Seq(Key) : s = snaps
      BY DEF TypeOK
    <3>3. ToSet(RemoveAt(s, i)) = ToSet(s) \ {s[i]}
      BY <3>2, UnlinkedOnce DEF RegistryUnique
    <3> QED BY <1>8, <3>1, <3>2, <3>3 DEF DeleteBegin, Ready, data, history
  <2>2. CASE UNCHANGED <<file, pc, job>>
    BY <2>1, <2>2, CalmStep DEF Owns
  <2>3. CASE storage_persist /\ Work(t, "remove", job[t].vol, job[t].path, k)
    <3>1. file'.snaps = snaps'
      BY <2>3 DEF storage_persist
    <3>2. SnapshotsIntact'
      BY <2>1, <3>1 DEF SnapshotsIntact, Intact
    <3>3. /\ pc'[t] = "remove" /\ job'[t].snap = k
          /\ \A u \in Threads \ {t} : pc'[u] = pc[u] /\ job'[u] = job[u]
      BY <2>3 DEF Work, TypeOK
    <3>4. k \notin contested => snapData[k] # "none" /\ \A u \in Threads : Owns(u) => job[u].snap # k
      BY <2>1 DEF SnapshotsIntact, Intact, Owned
    <3>5. ASSUME NEW u \in Threads, Owns(u)', job'[u].snap \notin contested
          PROVE  /\ job'[u].snap \notin ToSet(snaps')
                 /\ \A w \in Threads \ {u} : Owns(w)' => job'[w].snap # job'[u].snap
                 /\ pc'[u] \in {"register", "remove"} => snapData[job'[u].snap] # "none"
      <4>1. CASE u = t
        BY <2>1, <3>3, <3>4, <3>5, <4>1 DEF Owns
      <4>2. CASE u # t
        <5>1. Owns(u) /\ pc'[u] = pc[u] /\ job'[u] = job[u]
          BY <3>3, <3>5, <4>2 DEF Owns
        <5>2. job[u].snap # k
          BY <2>1, <3>5, <5>1 DEF Owned
        <5> QED BY <2>1, <3>3, <3>5, <4>2, <5>1, <5>2 DEF Owned, Owns
      <4> QED BY <4>1, <4>2
    <3> QED BY <2>1, <3>1, <3>2, <3>5 DEF Owned
  <2> QED BY <1>8, <2>2, <2>3 DEF DeleteBegin, PersistError
<1>9. ASSUME NEW p \in Paths, NEW c \in Contents, AppWrite(p, c) PROVE SnapshotsIntact' /\ Owned'
  <2>1. UNCHANGED <<snaps, file, snapData, saved, contested, pc, job>>
    BY <1>9 DEF AppWrite, history
  <2> QED BY <2>1, CalmStep DEF Owns
<1>10. CASE Crash
  <2>1. snaps' = <<>> /\ UNCHANGED <<file, snapData, saved, contested>> /\ \A t \in Threads : pc'[t] = "idle"
    BY <1>10 DEF Crash, data, history
  <2>2. ToSet(snaps') = {}
    BY <2>1 DEF ToSet
  <2> QED BY <2>1, <2>2, CalmStep DEF Owns
<1>11. CASE storage_impl_init
  <2>1. /\ snaps' = Reverse(file.snaps) /\ UNCHANGED <<file, snapData, saved, contested>>
        /\ \A t \in Threads : pc'[t] = "idle"
    BY <1>11 DEF storage_impl_init, data, history, Underway
  <2>2. ToSet(snaps') = ToSet(file.snaps)
    <3>1. PICK s \in Seq(Key) : s = file.snaps
      BY DEF TypeOK
    <3> QED BY <2>1, <3>1, Reversed
  <2> QED BY <2>1, <2>2, CalmStep DEF Owns
<1>12. CASE UNCHANGED vars
  <2>1. UNCHANGED <<snaps, file, snapData, saved, contested, pc, job>>
    BY <1>12 DEF vars
  <2> QED BY <2>1, CalmStep DEF Owns
<1> QED BY <1>1, <1>2, <1>3, <1>4, <1>5, <1>6, <1>7, <1>8, <1>9, <1>10, <1>11, <1>12
        DEF Next, storage_snapshot_restore, storage_snapshot_delete

\* The registry and the state file stay free of doubles.
LEMMA RegistryKept ==
  ASSUME TypeOK, TypeOK', RegistryUnique, FileUnique, [Next]_vars
  PROVE  RegistryUnique' /\ FileUnique'
<1>1. ASSUME UNCHANGED snaps,
             \A r, s \in vols' : r.name = s.name \/ r.path = s.path => r = s,
             storage_persist \/ UNCHANGED file
      PROVE  RegistryUnique' /\ FileUnique'
  <2>1. file' = file \/ (file'.vols = vols' /\ file'.snaps = snaps)
    BY <1>1 DEF storage_persist
  <2> QED BY <1>1, <2>1 DEF RegistryUnique, FileUnique
<1>2. ASSUME UNCHANGED vols, IsInjective(snaps'), storage_persist \/ UNCHANGED file
      PROVE  RegistryUnique' /\ FileUnique'
  <2>1. file' = file \/ (file'.vols = vols /\ file'.snaps = snaps')
    BY <1>2 DEF storage_persist
  <2> QED BY <1>2, <2>1 DEF RegistryUnique, FileUnique
<1>3. ASSUME NEW t \in Threads, NEW v \in Volumes, NEW p \in Paths, NEW ro \in BOOLEAN,
             storage_create_volume(t, v, p, ro)
      PROVE RegistryUnique' /\ FileUnique'
  <2>1. \A r, s \in vols' : r.name = s.name \/ r.path = s.path => r = s
    BY <1>3 DEF storage_create_volume, RegistryUnique
  <2>2. UNCHANGED snaps /\ (storage_persist \/ UNCHANGED file)
    BY <1>3 DEF storage_create_volume, PersistError
  <2> QED BY <1>1, <2>1, <2>2
<1>4. ASSUME NEW t \in Threads, NEW v \in Volumes,
             storage_delete_volume(t, v) \/ storage_unregister_volume(t, v)
      PROVE RegistryUnique' /\ FileUnique'
  <2>1. UNCHANGED snaps /\ vols' \subseteq vols /\ (storage_persist \/ UNCHANGED file)
    BY <1>4 DEF storage_delete_volume, storage_unregister_volume, PersistError
  <2> QED BY <1>1, <2>1 DEF RegistryUnique
<1>5. ASSUME NEW t \in Threads, SnapshotRegister(t) PROVE RegistryUnique' /\ FileUnique'
  <2>1. CASE UNCHANGED <<vols, snaps, file>>
    BY <1>2, <2>1 DEF RegistryUnique
  <2>2. CASE /\ job[t].snap \notin ToSet(snaps) /\ snaps' = <<job[t].snap>> \o snaps
             /\ UNCHANGED vols /\ storage_persist
    <3>1. PICK j \in Key : j = job[t].snap
      BY DEF TypeOK, Job
    <3>2. PICK s \in Seq(Key) : s = snaps
      BY DEF TypeOK
    <3>3. IsInjective(<<j>> \o s)
      BY <2>2, <3>1, <3>2, Prepended DEF RegistryUnique
    <3> QED BY <1>2, <2>2, <3>1, <3>2, <3>3
  <2> QED BY <1>5, <2>1, <2>2 DEF SnapshotRegister
<1>6. ASSUME NEW t \in Threads, NEW i \in DOMAIN snaps, DeleteBegin(t, i)
      PROVE RegistryUnique' /\ FileUnique'
  <2>1. PICK s \in Seq(Key) : s = snaps
    BY DEF TypeOK
  <2>2. IsInjective(RemoveAt(s, i))
    BY <2>1, UnlinkedOnce DEF RegistryUnique
  <2>3. UNCHANGED vols /\ snaps' = RemoveAt(s, i) /\ (storage_persist \/ UNCHANGED file)
    BY <1>6, <2>1 DEF DeleteBegin, PersistError
  <2> QED BY <1>2, <2>2, <2>3
<1>7. CASE Crash
  <2>1. vols' = {} /\ snaps' = <<>> /\ UNCHANGED file
    BY <1>7 DEF Crash
  <2> QED BY <2>1 DEF RegistryUnique, FileUnique, IsInjective
<1>8. CASE storage_impl_init
  <2>1. vols' = file.vols /\ snaps' = Reverse(file.snaps) /\ UNCHANGED file
    BY <1>8 DEF storage_impl_init
  <2>2. PICK s \in Seq(Key) : s = file.snaps
    BY DEF TypeOK
  <2>3. IsInjective(Reverse(s))
    BY <2>2, Reversed DEF RegistryUnique
  <2> QED BY <2>1, <2>2, <2>3 DEF RegistryUnique, FileUnique
<1>9. CASE UNCHANGED <<vols, snaps, file>>
  BY <1>2, <1>9 DEF RegistryUnique
<1> QED BY <1>3, <1>4, <1>5, <1>6, <1>7, <1>8, <1>9, ZenonT(60)
        DEF Next, vars, UndoCreate, SnapshotBegin, SnapshotCopy, SnapshotDiscard,
            storage_snapshot_restore, RestoreBegin, RestoreClear, RestoreCopy,
            storage_snapshot_delete, DeleteRemove, AppWrite

\* Nothing gets under way in a plugin that is down, or for one who does not call.
LEMMA UnderwayKept ==
  ASSUME TypeOK, Underway, [Next]_vars
  PROVE  Underway' /\ world' = world
<1> USE DEF history, Underway
<1>1. ASSUME NEW t \in Threads, up, t \in world.callers, UNCHANGED <<up, world>>,
             \A u \in Threads \ {t} : pc'[u] = pc[u]
      PROVE Underway' /\ world' = world
  BY <1>1
<1>2. ASSUME NEW t \in Threads, NEW v \in Volumes, NEW p \in Paths, NEW ro \in BOOLEAN,
             storage_create_volume(t, v, p, ro)
      PROVE Underway' /\ world' = world
  BY <1>1, <1>2 DEF storage_create_volume, Ready, Work, TypeOK
<1>3. ASSUME NEW t \in Threads, NEW v \in Volumes, NEW n \in Names, SnapshotBegin(t, v, n)
      PROVE Underway' /\ world' = world
  BY <1>1, <1>3 DEF SnapshotBegin, Ready, Work, TypeOK
<1>4. ASSUME NEW t \in Threads, NEW i \in DOMAIN snaps, NEW v \in Volumes, RestoreBegin(t, i, v)
      PROVE Underway' /\ world' = world
  BY <1>1, <1>4 DEF RestoreBegin, Ready, Work, TypeOK
<1>5. ASSUME NEW t \in Threads, NEW i \in DOMAIN snaps, DeleteBegin(t, i)
      PROVE Underway' /\ world' = world
  BY <1>1, <1>5 DEF DeleteBegin, Ready, Work, TypeOK
<1>6. ASSUME NEW t \in Threads, NEW v \in Volumes,
             storage_delete_volume(t, v) \/ storage_unregister_volume(t, v)
      PROVE Underway' /\ world' = world
  BY <1>6 DEF storage_delete_volume, storage_unregister_volume
<1>7. ASSUME NEW t \in Threads,
             UndoCreate(t) \/ SnapshotCopy(t) \/ SnapshotRegister(t) \/ SnapshotDiscard(t)
               \/ RestoreClear(t) \/ RestoreCopy(t) \/ DeleteRemove(t)
      PROVE Underway' /\ world' = world
  <2>1. pc[t] # "idle" /\ UNCHANGED <<up, world>> /\ \E step \in Steps : Goto(t, step)
    BY <1>7 DEF UndoCreate, SnapshotCopy, SnapshotRegister, SnapshotDiscard, RestoreClear,
                RestoreCopy, DeleteRemove, Steps
  <2> QED BY <1>1, <2>1, GoesOn
<1>8. CASE (\E p \in Paths, c \in Contents : AppWrite(p, c)) \/ Crash \/ storage_impl_init
  BY <1>8 DEF AppWrite, Crash, storage_impl_init, TypeOK
<1>9. CASE UNCHANGED vars
  BY <1>9 DEF vars
<1> QED BY <1>2, <1>3, <1>4, <1>5, <1>6, <1>7, <1>8, <1>9
        DEF Next, storage_snapshot_restore, storage_snapshot_delete

\* A single caller goes on to write only where it may.
LEMMA WritesKept ==
  ASSUME TypeOK, Underway, WritesOwn, [Next]_vars
  PROVE  WritesOwn'
<1> SUFFICES ASSUME NEW t \in Threads, world.callers = {t}
             PROVE /\ pc'[t] = "undo" => \A r \in vols' : r.path # job'[t].path
                   /\ pc'[t] \in {"clear", "restore"} =>
                        \E r \in vols' : r.path = job'[t].path /\ ~r.readonly
  BY UnderwayKept DEF WritesOwn
<1> DEFINE Quiet == pc'[t] \notin {"undo", "clear", "restore"}
<1>1. \A u \in Threads : Ready(u) \/ pc[u] # "idle" => u = t
  BY DEF Ready, Underway
<1>2. ASSUME NEW v \in Volumes, NEW p \in Paths, NEW ro \in BOOLEAN, NEW u \in Threads,
             storage_create_volume(u, v, p, ro)
      PROVE \/ Quiet
            \/ /\ pc'[t] = "undo" /\ vols' = vols
               /\ job'[t].path = p /\ \A r \in vols : r.path # p
  <2>1. u = t /\ pc[t] = "idle"
    BY <1>1, <1>2 DEF storage_create_volume, Ready
  <2>2. CASE UNCHANGED <<pc, job>>
    BY <2>1, <2>2
  <2>3. CASE Work(t, "undo", v, p, job[t].snap)
    BY <1>2, <2>1, <2>3 DEF storage_create_volume, Work, TypeOK
  <2> QED BY <1>2, <2>1, <2>2, <2>3 DEF storage_create_volume
<1>3. ASSUME NEW u \in Threads, NEW v \in Volumes, NEW i \in DOMAIN snaps, RestoreBegin(u, i, v)
      PROVE /\ pc'[t] = "clear" /\ vols' = vols
            /\ \E r \in vols : r.path = job'[t].path /\ ~r.readonly
  BY <1>1, <1>3 DEF RestoreBegin, Work, TypeOK
<1>4. ASSUME NEW u \in Threads, RestoreClear(u)
      PROVE \/ Quiet
            \/ /\ pc'[t] = "restore" /\ vols' = vols
               /\ \E r \in vols : r.path = job'[t].path /\ ~r.readonly
  <2>1. u = t /\ pc[t] = "clear" /\ vols' = vols
    BY <1>1, <1>4 DEF RestoreClear
  <2>2. CASE Goto(t, "idle")
    BY <2>2, GoesOn DEF Steps
  <2>3. CASE Goto(t, "restore")
    BY <2>1, <2>3, GoesOn DEF Steps, WritesOwn
  <2> QED BY <1>4, <2>1, <2>2, <2>3 DEF RestoreClear
<1>5. ASSUME NEW u \in Threads, NEW v \in Volumes, NEW n \in Names, NEW i \in Nat,
             \/ storage_delete_volume(u, v) \/ storage_unregister_volume(u, v)
             \/ SnapshotBegin(u, v, n) \/ DeleteBegin(u, i)
      PROVE Quiet
  <2>1. u = t /\ pc[t] = "idle"
    BY <1>1, <1>5 DEF storage_delete_volume, storage_unregister_volume, SnapshotBegin,
                      DeleteBegin, Ready
  <2> QED BY <1>5, <2>1 DEF storage_delete_volume, storage_unregister_volume, SnapshotBegin,
                            DeleteBegin, Work, TypeOK
<1>6. ASSUME NEW u \in Threads,
             \/ UndoCreate(u) \/ SnapshotCopy(u) \/ SnapshotRegister(u) \/ SnapshotDiscard(u)
             \/ RestoreCopy(u) \/ DeleteRemove(u)
      PROVE Quiet
  <2>1. pc[u] # "idle" /\ \E step \in {"idle", "copying", "register", "discard"} : Goto(u, step)
    BY <1>6 DEF UndoCreate, SnapshotCopy, SnapshotRegister, SnapshotDiscard, RestoreCopy, DeleteRemove
  <2> QED BY <1>1, <2>1, GoesOn DEF Steps
<1>7. CASE Crash \/ storage_impl_init
  BY <1>7 DEF Crash, storage_impl_init, Underway
<1>8. CASE UNCHANGED <<vols, pc, job>>
  BY <1>8 DEF WritesOwn
<1>9. DOMAIN snaps \subseteq Nat
  BY DEF TypeOK
<1> DEFINE Own == /\ pc'[t] = "undo" => \A r \in vols' : r.path # job'[t].path
                  /\ pc'[t] \in {"clear", "restore"} =>
                       \E r \in vols' : r.path = job'[t].path /\ ~r.readonly
<1>10. ASSUME NEW u \in Threads, NEW v \in Volumes, NEW p \in Paths, NEW ro \in BOOLEAN,
              storage_create_volume(u, v, p, ro)
       PROVE Own
  BY <1>2, <1>10
<1>11. ASSUME NEW u \in Threads, NEW v \in Volumes, NEW i \in DOMAIN snaps, RestoreBegin(u, i, v)
       PROVE Own
  BY <1>3, <1>11
<1>12. ASSUME NEW u \in Threads, RestoreClear(u) PROVE Own
  BY <1>4, <1>12
<1>13. Quiet => Own
  OBVIOUS
<1> HIDE DEF Own, Quiet
<1>14. ASSUME NEW u \in Threads, NEW i \in DOMAIN snaps, DeleteBegin(u, i) PROVE Own
  <2>1. PICK v \in Volumes, n \in Names : TRUE
    BY StorageAssumption
  <2> QED BY <1>5, <1>9, <1>13, <1>14, <2>1
<1>15. ASSUME NEW u \in Threads, NEW v \in Volumes,
              storage_delete_volume(u, v) \/ storage_unregister_volume(u, v)
       PROVE Own
  <2>1. PICK n \in Names, i \in Nat : TRUE
    BY StorageAssumption
  <2> QED BY <1>5, <1>13, <1>15, <2>1
<1>16. ASSUME NEW u \in Threads, NEW v \in Volumes, NEW n \in Names, SnapshotBegin(u, v, n)
       PROVE Own
  <2>1. PICK i \in Nat : TRUE
    OBVIOUS
  <2> QED BY <1>5, <1>13, <1>16, <2>1
<1>17. ASSUME Next PROVE Own
  <2>1. CASE \E p \in Paths, c \in Contents : AppWrite(p, c)
    BY <1>8, <2>1 DEF AppWrite, Own
  <2>2. CASE Crash \/ storage_impl_init
    BY <1>7, <2>2 DEF Own
  <2> QED BY <1>6, <1>10, <1>11, <1>12, <1>13, <1>14, <1>15, <1>16, <1>17, <2>1, <2>2
          DEF Next, storage_snapshot_restore, storage_snapshot_delete
<1> QED BY <1>8, <1>17 DEF vars, Own

-----------------------------------------------------------------------------
\* The invariant holds in every reachable state, between the sections of every call
\* and after every end of the process.
LEMMA StorInvariant == Spec => []StorInv
<1>1. ASSUME Init PROVE StorInv
  <2>1. TypeOK
    BY <1>1, NoJobIsOne DEF Init, TypeOK, NoJob, Data
  <2>2. ToSet(snaps) = {} /\ ToSet(file.snaps) = {}
    BY <1>1 DEF Init, ToSet
  <2> QED BY <1>1, <2>1, <2>2 DEF Init, StorInv, RegistryUnique, IsInjective, SnapshotsIntact,
                                  Owned, Owns, FileUnique, Underway, WritesOwn
<1>2. ASSUME StorInv, [Next]_vars PROVE StorInv'
  BY <1>2, TypeKept, SnapshotsKept, RegistryKept, UnderwayKept, WritesKept DEF StorInv
<1> QED BY <1>1, <1>2, PTL DEF Spec

\* StorageSound (storage_create_volume ... storage_impl_init): names and directories stay
\* unambiguous and every snapshot on record keeps the data it was made of, for any number of
\* threads between the sections of their calls.
THEOREM StorageIsSound == Spec => []StorageSound
<1>1. StorInv => StorageSound
  BY DEF StorInv, StorageSound
<1> QED BY <1>1, StorInvariant, PTL

\* ReadonlyKept (storage_delete_volume, storage_snapshot_restore): with one caller no step
\* changes what a read-only volume holds, wherever the directories of the others lie.
THEOREM ReadonlyIsKept == Spec => ReadonlyKept
<1> DEFINE Kept == \A r \in vols :
      /\ r.readonly /\ \E t \in Threads : world.callers = {t}
      /\ \A p \in Paths : r.path \notin Inside[p]
      => volData'[r.path] = volData[r.path]
<1>1. ASSUME StorInv, [Next]_vars PROVE Kept
  <2> SUFFICES ASSUME NEW r \in vols, r.readonly, NEW t \in Threads, world.callers = {t},
                      \A p \in Paths : r.path \notin Inside[p]
               PROVE volData'[r.path] = volData[r.path]
    OBVIOUS
  <2> USE <1>1 DEF StorInv
  <2>1. r.path \in Paths /\ \A s \in vols : ~s.readonly => s.path # r.path
    BY DEF TypeOK, Volume, RegistryUnique
  <2>2. ASSUME NEW p \in Paths, p # r.path, volData' = Removed(p)
        PROVE volData'[r.path] = volData[r.path]
    BY <2>1, <2>2 DEF Removed
  <2>10. ASSUME NEW p \in Paths, p # r.path, RemovalFails(p)
         PROVE volData'[r.path] = volData[r.path]
    BY <2>1, <2>10, RemovalTakes
  <2>3. \A u \in Threads : pc[u] # "idle" => u = t /\ job[u].path \in Paths
    BY DEF Underway, TypeOK, Job
  <2>4. ASSUME NEW u \in Threads, NEW v \in Volumes, NEW p \in Paths, NEW ro \in BOOLEAN,
               storage_create_volume(u, v, p, ro)
        PROVE volData'[r.path] = volData[r.path]
    BY <2>1, <2>4 DEF storage_create_volume, TypeOK
  <2>5. ASSUME NEW u \in Threads, UndoCreate(u) PROVE volData'[r.path] = volData[r.path]
    <3>1. u = t /\ job[u].path \in Paths /\ job[u].path # r.path
      BY <2>3, <2>5 DEF UndoCreate, WritesOwn
    <3> QED BY <2>2, <2>5, <2>10, <3>1 DEF UndoCreate
  <2>6. ASSUME NEW u \in Threads, NEW v \in Volumes,
               storage_delete_volume(u, v) \/ storage_unregister_volume(u, v)
        PROVE volData'[r.path] = volData[r.path]
    <3>1. CASE storage_delete_volume(u, v)
      <4>1. PICK s \in vols : ~s.readonly /\ (volData' = Removed(s.path) \/ RemovalFails(s.path))
        BY <3>1 DEF storage_delete_volume
      <4>2. s.path \in Paths /\ s.path # r.path
        BY <2>1, <4>1 DEF TypeOK, Volume
      <4> QED BY <2>2, <2>10, <4>1, <4>2
    <3> QED BY <2>6, <3>1 DEF storage_unregister_volume, data
  <2>7. ASSUME NEW u \in Threads, RestoreClear(u) \/ RestoreCopy(u)
        PROVE volData'[r.path] = volData[r.path]
    <3>1. u = t /\ job[u].path \in Paths /\ job[u].path # r.path
      BY <2>1, <2>3, <2>7 DEF RestoreClear, RestoreCopy, WritesOwn
    <3>2. CASE RemovalFails(job[u].path)
      BY <2>10, <3>1, <3>2
    <3>3. CASE ~RemovalFails(job[u].path)
      BY <2>1, <2>7, <3>1, <3>3 DEF RestoreClear, RestoreCopy, Removed, TypeOK
    <3> QED BY <3>2, <3>3
  <2>8. ASSUME NEW p \in Paths, NEW c \in Contents, AppWrite(p, c)
        PROVE volData'[r.path] = volData[r.path]
    BY <2>1, <2>8 DEF AppWrite, TypeOK
  <2>9. CASE UNCHANGED volData
    BY <2>9
  <2> QED BY <2>4, <2>5, <2>6, <2>7, <2>8, <2>9, ZenonT(60)
          DEF Next, vars, data, SnapshotBegin, SnapshotCopy, SnapshotRegister, SnapshotDiscard,
              storage_snapshot_restore, RestoreBegin, storage_snapshot_delete, DeleteBegin,
              DeleteRemove, Crash, storage_impl_init
<1>2. ASSUME StorInv, [Next]_vars PROVE [Kept]_vars
  BY <1>1, <1>2
<1> QED BY <1>2, StorInvariant, PTL DEF Spec, ReadonlyKept

-----------------------------------------------------------------------------
(* Paths.  The names on the way are found again one component at a time: the *)
(* text is balanced, that is, from a name on the way on there are as many    *)
(* names more than ".." as names on the way, so that a ".." takes off the    *)
(* last of them and no other.                                                *)

\* What the end of a path does to where it leads.
Led(names, component) ==
  IF component = ".." THEN IF names = <<>> THEN names ELSE Front(names)
  ELSE IF component \in {NoName, "."} THEN names ELSE Append(names, component)

\* Nothing between two slashes is not "..".
LEMMA NoUp == NoName # ".."
  BY Zenon DEF NoName

\* Counting on to the next position.
LEMMA AmongStep ==
  ASSUME NEW S, NEW k \in Nat, NEW j \in Nat, k <= j + 1
  PROVE  /\ Among(S, k, j) \in Nat
         /\ Among(S, k, j + 1) = Among(S, k, j) + IF j + 1 \in S THEN 1 ELSE 0
<1>1. IsFiniteSet(k .. j)
  BY FS_Interval
<1>2. PICK A : A = S \cap (k .. j)
  OBVIOUS
<1>3. IsFiniteSet(A) /\ Cardinality(A) \in Nat
  <2>1. IsFiniteSet(A)
    BY <1>1, <1>2, FS_Subset
  <2>2. QED
    BY <2>1, FS_CardinalityType
<1>4. k .. (j + 1) = (k .. j) \cup {j + 1} /\ j + 1 \notin A
  BY <1>2
<1>5. CASE j + 1 \in S
  <2>1. S \cap (k .. (j + 1)) = A \cup {j + 1}
    BY <1>2, <1>4, <1>5
  <2>2. Cardinality(A \cup {j + 1}) = Cardinality(A) + 1
    BY <1>3, <1>4, FS_AddElement
  <2>3. QED
    BY <1>2, <1>3, <1>5, <2>1, <2>2 DEF Among
<1>6. CASE j + 1 \notin S
  <2>1. S \cap (k .. (j + 1)) = A
    BY <1>2, <1>4, <1>6
  <2>2. QED
    BY <1>2, <1>3, <1>6, <2>1, SMTT(60) DEF Among
<1>7. QED
  BY <1>5, <1>6

\* Where there is no position, none is counted.
LEMMA AmongNone ==
  ASSUME NEW S, NEW k \in Nat, NEW j \in Nat, j < k
  PROVE  Among(S, k, j) = 0
<1>1. S \cap (k .. j) = {}
  OBVIOUS
<1>2. Cardinality({}) = 0
  BY FS_EmptySet
<1>3. QED
  BY <1>1, <1>2 DEF Among

\* One position alone.
LEMMA AmongOne ==
  ASSUME NEW S, NEW k \in Nat
  PROVE  Among(S, k, k) = IF k \in S THEN 1 ELSE 0
<1>1. S \cap (k .. k) = IF k \in S THEN {k} ELSE {}
  OBVIOUS
<1>2. Cardinality({k}) = 1 /\ Cardinality({}) = 0
  BY FS_Singleton, FS_EmptySet
<1>3. QED
  BY <1>1, <1>2 DEF Among

\* Counting further counts no fewer, and one more if the last one counts.
LEMMA AmongFurther ==
  ASSUME NEW S, NEW k \in Nat, NEW j \in Nat, NEW m \in Nat, k <= j + 1, j < m
  PROVE  /\ Among(S, k, j) \in Nat /\ Among(S, k, m) \in Nat
         /\ Among(S, k, j) <= Among(S, k, m)
         /\ m \in S => Among(S, k, j) < Among(S, k, m)
<1>1. PICK p \in Nat : m = p + 1 /\ k <= p + 1 /\ j <= p
  <2>1. m - 1 \in Nat /\ m = (m - 1) + 1 /\ j <= m - 1
    OBVIOUS
  <2>2. QED
    BY <2>1
<1>2. Among(S, k, p) \in Nat /\ Among(S, k, m) = Among(S, k, p) + IF m \in S THEN 1 ELSE 0
  BY <1>1, AmongStep
<1>3. Among(S, k, j) \in Nat
  BY AmongStep
<1>4. Among(S, k, j) <= Among(S, k, p)
  <2>1. S \cap (k .. j) \subseteq S \cap (k .. p)
    BY <1>1
  <2>2. IsFiniteSet(S \cap (k .. p))
    <3>1. IsFiniteSet(k .. p)
      BY FS_Interval
    <3>2. QED
      BY <3>1, FS_Subset
  <2>3. Cardinality(S \cap (k .. j)) <= Cardinality(S \cap (k .. p))
    BY <2>1, <2>2, FS_Subset
  <2>4. QED
    BY <2>3 DEF Among
<1>5. QED
  BY <1>2, <1>3, <1>4

\* The size of a set of positions is what is counted up to the last one.
LEMMA AmongAll ==
  ASSUME NEW L \in Nat, NEW K \in SUBSET (1 .. L)
  PROVE  Among(K, 1, L) = Cardinality(K) /\ Cardinality(K) \in Nat
<1>1. K \cap (1 .. L) = K
  OBVIOUS
<1>2. Among(K, 1, L) \in Nat
  BY AmongStep
<1>3. QED
  BY <1>1, <1>2 DEF Among

\* The count takes on every number up to the size.
LEMMA NthOf ==
  ASSUME NEW L \in Nat, NEW K \in SUBSET (1 .. L), NEW n \in 1 .. Cardinality(K)
  PROVE  Nth(K, n) \in K /\ Among(K, 1, Nth(K, n)) = n
<1> DEFINE T == {b \in Nat : \A h \in 1 .. Among(K, 1, b) :
                               \E k \in K : Among(K, 1, k) = h}
<1>1. 0 \in T
  <2>1. Among(K, 1, 0) = 0
    BY AmongNone
  <2>2. QED
    BY <2>1
<1>2. ASSUME NEW b \in Nat, b \in T PROVE b + 1 \in T
  <2>1. PICK a \in Nat : a = Among(K, 1, b)
    BY AmongStep
  <2>2. Among(K, 1, b + 1) = a + IF b + 1 \in K THEN 1 ELSE 0
    BY <2>1, AmongStep
  <2>3. ASSUME NEW h \in 1 .. Among(K, 1, b + 1) PROVE \E k \in K : Among(K, 1, k) = h
    <3>1. CASE h \in 1 .. a
      BY <1>2, <2>1, <3>1
    <3>2. CASE h \notin 1 .. a
      <4>1. b + 1 \in K /\ h = a + 1
        BY <2>2, <2>3, <3>2
      <4>2. QED
        BY <2>2, <4>1
    <3>3. QED
      BY <3>1, <3>2
  <2>4. QED
    BY <2>3
<1>3. L \in T
  <2> HIDE DEF T
  <2>1. QED
    BY <1>1, <1>2, ByInduction
<1>4. \E k \in K : Among(K, 1, k) = n
  BY <1>3, AmongAll
<1>5. QED
  BY <1>4 DEF Nth

\* Only one has a given count.
LEMMA NthIs ==
  ASSUME NEW L \in Nat, NEW K \in SUBSET (1 .. L), NEW k \in K
  PROVE  Among(K, 1, k) \in 1 .. Cardinality(K) /\ Nth(K, Among(K, 1, k)) = k
<1>1. \A h, j \in K : h < j => Among(K, 1, h) < Among(K, 1, j)
  <2> TAKE h, j \in K
  <2>1. h \in Nat /\ j \in Nat /\ 1 <= h + 1
    OBVIOUS
  <2>2. QED
    BY <2>1, AmongFurther
<1>2. Among(K, 1, k) \in 1 .. Cardinality(K)
  <2>1. PICK p \in Nat : k = p + 1
    <3>1. k - 1 \in Nat /\ k = (k - 1) + 1
      OBVIOUS
    <3>2. QED
      BY <3>1
  <2>2. Among(K, 1, p) \in Nat /\ Among(K, 1, k) = Among(K, 1, p) + 1
    BY <2>1, AmongStep
  <2>3. k \in Nat /\ k <= L
    OBVIOUS
  <2>4. Among(K, 1, k) <= Among(K, 1, L) /\ Among(K, 1, L) \in Nat
    <3>1. CASE k = L
      BY <2>2, <2>3, <3>1
    <3>2. CASE k < L
      BY <2>3, <3>2, AmongFurther
    <3>3. QED
      BY <2>3, <3>1, <3>2
  <2>5. QED
    BY <2>2, <2>4, AmongAll
<1>3. PICK n \in 1 .. Cardinality(K) : n = Among(K, 1, k)
  BY <1>2
<1>4. Nth(K, n) \in K /\ Among(K, 1, Nth(K, n)) = n
  BY NthOf
<1>5. Nth(K, n) = k
  <2>1. PICK q \in K : q = Nth(K, n)
    BY <1>4
  <2>2. Among(K, 1, q) = n /\ q \in Nat /\ k \in Nat /\ n \in Nat
    <3>1. Cardinality(K) \in Nat
      BY AmongAll
    <3>2. QED
      BY <1>4, <2>1, <3>1
  <2>3. ~(q < k) /\ ~(k < q)
    BY <1>1, <1>3, <2>2
  <2>4. QED
    BY <2>1, <2>2, <2>3
<1>6. QED
  BY <1>2, <1>3, <1>5

\* A component is a name, or "..", or leads nowhere.
IsName(component) == component \notin {NoName, ".", ".."}

\* The text with one component more.
LEMMA LongerText ==
  ASSUME NEW C, NEW t \in Seq(C), NEW x \in C, NEW L \in Nat, L = Len(t)
  PROVE  /\ Len(Append(t, x)) = L + 1
         /\ NamesOf(t) \in SUBSET (1 .. L) /\ UpsOf(t) \in SUBSET (1 .. L)
         /\ OnTheWay(t) \in SUBSET (1 .. L)
         /\ \A k \in 1 .. L : /\ k \in NamesOf(Append(t, x)) <=> k \in NamesOf(t)
                              /\ k \in UpsOf(Append(t, x)) <=> k \in UpsOf(t)
                              /\ Append(t, x)[k] = t[k]
         /\ L + 1 \in NamesOf(Append(t, x)) <=> IsName(x)
         /\ L + 1 \in UpsOf(Append(t, x)) <=> x = ".."
         /\ Append(t, x)[L + 1] = x
         /\ NamesOf(Append(t, x)) \in SUBSET (1 .. L + 1)
         /\ OnTheWay(Append(t, x)) \in SUBSET (1 .. L + 1)
<1>1. PICK u : u = Append(t, x)
  OBVIOUS
<1>2. /\ Len(u) = L + 1 /\ DOMAIN u = 1 .. L + 1 /\ DOMAIN t = 1 .. L
      /\ u[L + 1] = x /\ \A k \in 1 .. L : u[k] = t[k]
  BY <1>1
<1>3. /\ NamesOf(t) \in SUBSET (1 .. L) /\ UpsOf(t) \in SUBSET (1 .. L)
      /\ NamesOf(u) \in SUBSET (1 .. L + 1)
  BY <1>2 DEF NamesOf, UpsOf
<1>4. OnTheWay(t) \in SUBSET (1 .. L) /\ OnTheWay(u) \in SUBSET (1 .. L + 1)
  BY <1>3 DEF OnTheWay
<1>5. ASSUME NEW k \in 1 .. L
      PROVE  /\ k \in NamesOf(u) <=> k \in NamesOf(t)
             /\ k \in UpsOf(u) <=> k \in UpsOf(t)
  <2>1. k \in DOMAIN u /\ k \in DOMAIN t /\ u[k] = t[k]
    BY <1>2
  <2>2. QED
    BY <2>1, Zenon DEF NamesOf, UpsOf
<1>6. /\ L + 1 \in NamesOf(u) <=> IsName(x)
      /\ L + 1 \in UpsOf(u) <=> x = ".."
  <2>1. L + 1 \in DOMAIN u /\ u[L + 1] = x
    BY <1>2
  <2>2. QED
    BY <2>1, Zenon DEF NamesOf, UpsOf, IsName
<1>7. QED
  BY <1>1, <1>2, <1>3, <1>4, <1>5, <1>6

Alike(S, T, L) == \A k \in 1 .. L : k \in S <=> k \in T

\* What is counted in the longer text, from a position of the shorter one.
LEMMA LongerCounts ==
  ASSUME NEW L \in Nat, NEW S, NEW T, Alike(S, T, L), NEW k \in 1 .. L
  PROVE  /\ \A j \in k .. L : Among(S, k, j) = Among(T, k, j)
         /\ Among(T, k, L) \in Nat
         /\ Among(S, k, L + 1) = Among(T, k, L) + IF L + 1 \in S THEN 1 ELSE 0
<1>1. ASSUME NEW j \in k .. L PROVE Among(S, k, j) = Among(T, k, j)
  <2>1. S \cap (k .. j) = T \cap (k .. j)
    BY DEF Alike
  <2>2. QED
    BY <2>1 DEF Among
<1>2. /\ Among(T, k, L) \in Nat
      /\ Among(S, k, L + 1) = Among(S, k, L) + IF L + 1 \in S THEN 1 ELSE 0
  BY AmongStep
<1>3. L \in k .. L
  OBVIOUS
<1>4. QED
  BY <1>1, <1>2, <1>3

\* Which positions stay on the way when the text goes on.
LEMMA StaysOn ==
  ASSUME NEW C, NEW t \in Seq(C), NEW x \in C, NEW L \in Nat, L = Len(t)
  PROVE  /\ \A k \in 1 .. L :
              k \in OnTheWay(Append(t, x)) <=>
                /\ k \in OnTheWay(t)
                /\ Among(UpsOf(t), k, L) + (IF x = ".." THEN 1 ELSE 0)
                     < Among(NamesOf(t), k, L) + (IF IsName(x) THEN 1 ELSE 0)
         /\ L + 1 \in OnTheWay(Append(t, x)) <=> IsName(x)
<1>1. PICK u : u = Append(t, x)
  OBVIOUS
<1>2. PICK N, U, M, V : N = NamesOf(t) /\ U = UpsOf(t) /\ M = NamesOf(u) /\ V = UpsOf(u)
  OBVIOUS
<1>3. /\ Len(u) = L + 1
      /\ \A k \in 1 .. L : k \in M <=> k \in N
      /\ \A k \in 1 .. L : k \in V <=> k \in U
      /\ L + 1 \in M <=> IsName(x)
      /\ L + 1 \in V <=> x = ".."
  BY <1>1, <1>2, LongerText
<1>4. ASSUME NEW k
      PROVE  /\ k \in OnTheWay(t) <=>
                  k \in N /\ \A j \in k .. L : Among(U, k, j) < Among(N, k, j)
             /\ k \in OnTheWay(u) <=>
                  k \in M /\ \A j \in k .. L + 1 : Among(V, k, j) < Among(M, k, j)
  BY <1>2, <1>3 DEF OnTheWay
<1>5. ASSUME NEW k \in 1 .. L
      PROVE  k \in OnTheWay(u) <=>
                /\ k \in OnTheWay(t)
                /\ Among(U, k, L) + (IF x = ".." THEN 1 ELSE 0)
                     < Among(N, k, L) + (IF IsName(x) THEN 1 ELSE 0)
  <2>1. /\ \A j \in k .. L : Among(M, k, j) = Among(N, k, j)
        /\ Among(N, k, L) \in Nat
        /\ Among(M, k, L + 1) = Among(N, k, L) + IF L + 1 \in M THEN 1 ELSE 0
    <3>1. Alike(M, N, L)
      BY <1>3 DEF Alike
    <3>2. QED
      BY <3>1, LongerCounts
  <2>2. /\ \A j \in k .. L : Among(V, k, j) = Among(U, k, j)
        /\ Among(U, k, L) \in Nat
        /\ Among(V, k, L + 1) = Among(U, k, L) + IF L + 1 \in V THEN 1 ELSE 0
    <3>1. Alike(V, U, L)
      BY <1>3 DEF Alike
    <3>2. QED
      BY <3>1, LongerCounts
  <2>3. (\A j \in k .. L + 1 : Among(V, k, j) < Among(M, k, j)) <=>
          /\ \A j \in k .. L : Among(U, k, j) < Among(N, k, j)
          /\ Among(V, k, L + 1) < Among(M, k, L + 1)
    <3>1. k .. L + 1 = (k .. L) \cup {L + 1}
      OBVIOUS
    <3>2. QED
      BY <2>1, <2>2, <3>1
  <2>4. /\ Among(V, k, L + 1) = Among(U, k, L) + (IF x = ".." THEN 1 ELSE 0)
        /\ Among(M, k, L + 1) = Among(N, k, L) + (IF IsName(x) THEN 1 ELSE 0)
    BY <1>3, <2>1, <2>2
  <2>5. k \in M <=> k \in N
    BY <1>3
  <2>6. QED
    BY <1>4, <2>3, <2>4, <2>5
<1>6. L + 1 \in OnTheWay(u) <=> IsName(x)
  <2>1. /\ Among(M, L + 1, L + 1) = IF IsName(x) THEN 1 ELSE 0
        /\ Among(V, L + 1, L + 1) = IF x = ".." THEN 1 ELSE 0
    <3>1. L + 1 \in Nat
      OBVIOUS
    <3>2. /\ Among(M, L + 1, L + 1) = IF L + 1 \in M THEN 1 ELSE 0
          /\ Among(V, L + 1, L + 1) = IF L + 1 \in V THEN 1 ELSE 0
      BY <3>1, AmongOne
    <3>3. QED
      BY <1>3, <3>2
  <2>2. (L + 1) .. (L + 1) = {L + 1}
    OBVIOUS
  <2>3. IsName(x) => x # ".."
    BY Zenon DEF IsName
  <2>4. QED
    BY <1>3, <1>4, <2>1, <2>2, <2>3
<1>7. QED
  BY <1>1, <1>2, <1>5, <1>6

\* From a name that is on the way on, there are as many names more than ".." as
\* names on the way.
Balanced(text) ==
  \A k \in OnTheWay(text) :
    Among(UpsOf(text), k, Len(text)) + Among(OnTheWay(text), k, Len(text))
      = Among(NamesOf(text), k, Len(text))

\* The last of the names on the way is the one with no other behind it.
LEMMA TheLast ==
  ASSUME NEW L \in Nat, NEW K \in SUBSET (1 .. L), K # {}
  PROVE  /\ Cardinality(K) \in Nat \ {0} /\ Nth(K, Cardinality(K)) \in K
         /\ \A k \in K : /\ k <= Nth(K, Cardinality(K))
                         /\ Among(K, k, L) \in Nat \ {0}
                         /\ Among(K, k, L) = 1 <=> k = Nth(K, Cardinality(K))
<1>1. PICK n \in Nat : n = Cardinality(K)
  BY AmongAll
<1>2. n # 0
  <2>1. PICK k \in K : TRUE
    OBVIOUS
  <2>2. Among(K, 1, k) \in 1 .. n
    BY <1>1, NthIs
  <2>3. QED
    BY <2>2
<1>3. PICK m \in K : m = Nth(K, n) /\ Among(K, 1, m) = n
  <2>1. n \in 1 .. Cardinality(K)
    BY <1>1, <1>2
  <2>2. QED
    BY <2>1, NthOf
<1>4. ASSUME NEW k \in K PROVE k <= m
  <2>1. SUFFICES ASSUME m < k PROVE FALSE
    OBVIOUS
  <2>2. m \in Nat /\ k \in Nat /\ 1 <= m + 1
    OBVIOUS
  <2>3. Among(K, 1, m) < Among(K, 1, k)
    BY <2>1, <2>2, AmongFurther
  <2>4. Among(K, 1, k) \in 1 .. n
    BY <1>1, NthIs
  <2>5. QED
    BY <1>3, <2>3, <2>4
<1>5. ASSUME NEW k \in K
      PROVE  Among(K, k, L) \in Nat \ {0} /\ (Among(K, k, L) = 1 <=> k = m)
  <2>1. k \in Nat /\ m \in Nat /\ k <= L /\ m <= L /\ k <= m /\ k >= 1
    BY <1>4
  <2>2. Among(K, k, L) = Among(K, k, m)
    <3>1. K \cap (k .. L) = K \cap (k .. m)
      BY <1>4, <2>1
    <3>2. QED
      BY <3>1 DEF Among
  <2>3. Among(K, k, k) = 1
    BY <2>1, AmongOne
  <2>4. CASE k = m
    BY <2>2, <2>3, <2>4
  <2>5. CASE k # m
    <3>1. k < m /\ k <= k + 1
      BY <2>1, <2>5
    <3>2. Among(K, k, m) \in Nat /\ Among(K, k, k) < Among(K, k, m)
      BY <2>1, <3>1, AmongFurther
    <3>3. QED
      BY <2>2, <2>3, <2>5, <3>2
  <2>6. QED
    BY <2>4, <2>5
<1>6. QED
  BY <1>1, <1>2, <1>3, <1>4, <1>5

\* What a component does to the names on the way and to their balance.
LEMMA OnTheWayLed ==
  ASSUME NEW C, NEW t \in Seq(C), NEW x \in C, NEW L \in Nat, L = Len(t), Balanced(t)
  PROVE  /\ Balanced(Append(t, x))
         /\ x \in {NoName, "."} => OnTheWay(Append(t, x)) = OnTheWay(t)
         /\ IsName(x) => OnTheWay(Append(t, x)) = OnTheWay(t) \cup {L + 1}
         /\ x = ".." /\ OnTheWay(t) = {} => OnTheWay(Append(t, x)) = {}
         /\ x = ".." /\ OnTheWay(t) # {} =>
              OnTheWay(Append(t, x))
                = OnTheWay(t) \ {Nth(OnTheWay(t), Cardinality(OnTheWay(t)))}
<1>1. PICK u : u = Append(t, x)
  OBVIOUS
<1>2. PICK N, U, M, V : N = NamesOf(t) /\ U = UpsOf(t) /\ M = NamesOf(u) /\ V = UpsOf(u)
  OBVIOUS
<1>3. PICK K, W : K = OnTheWay(t) /\ W = OnTheWay(u)
  OBVIOUS
<1>4. /\ Len(u) = L + 1
      /\ K \in SUBSET (1 .. L) /\ W \in SUBSET (1 .. L + 1)
      /\ L + 1 \in M <=> IsName(x)
      /\ L + 1 \in V <=> x = ".."
  BY <1>1, <1>2, <1>3, LongerText
<1>5. Alike(M, N, L) /\ Alike(V, U, L)
  BY <1>1, <1>2, LongerText DEF Alike
<1>6. \A k \in K : Among(U, k, L) + Among(K, k, L) = Among(N, k, L)
  BY <1>2, <1>3 DEF Balanced
<1>7. /\ \A k \in 1 .. L :
           k \in W <=> /\ k \in K
                       /\ Among(U, k, L) + (IF x = ".." THEN 1 ELSE 0)
                            < Among(N, k, L) + (IF IsName(x) THEN 1 ELSE 0)
      /\ L + 1 \in W <=> IsName(x)
  BY <1>1, <1>2, <1>3, StaysOn
<1>8. ASSUME NEW k \in K
      PROVE  /\ Among(U, k, L) \in Nat /\ Among(N, k, L) \in Nat /\ Among(K, k, L) \in Nat \ {0}
             /\ Among(V, k, L + 1) = Among(U, k, L) + IF x = ".." THEN 1 ELSE 0
             /\ Among(M, k, L + 1) = Among(N, k, L) + IF IsName(x) THEN 1 ELSE 0
             /\ k \in 1 .. L /\ k \in Nat /\ k <= L + 1
  <2>1. k \in 1 .. L /\ k \in Nat /\ k <= L + 1
    BY <1>4
  <2>2. Among(U, k, L) \in Nat /\ Among(V, k, L + 1) = Among(U, k, L) + IF L + 1 \in V THEN 1 ELSE 0
    BY <1>5, <2>1, LongerCounts, SMTT(60)
  <2>3. Among(N, k, L) \in Nat /\ Among(M, k, L + 1) = Among(N, k, L) + IF L + 1 \in M THEN 1 ELSE 0
    BY <1>5, <2>1, LongerCounts
  <2>4. Among(K, k, L) \in Nat \ {0}
    BY <1>4, TheLast
  <2>5. QED
    BY <1>4, <2>1, <2>2, <2>3, <2>4
<1>9. W \subseteq K \cup {L + 1}
  BY <1>4, <1>7
<1>10. (x = ".." => ~IsName(x)) /\ (x \in {NoName, "."} => x # ".." /\ ~IsName(x))
  BY NoUp, Zenon DEF IsName
<1>11. CASE x \in {NoName, "."}
  <2>1. ~IsName(x) /\ x # ".."
    BY <1>10, <1>11
  <2>2. W = K
    <3>1. ASSUME NEW k \in K PROVE k \in W
      BY <1>6, <1>7, <1>8, <2>1
    <3>2. L + 1 \notin W
      BY <1>7, <2>1
    <3>3. QED
      BY <1>9, <3>1, <3>2
  <2>3. ASSUME NEW k \in W
        PROVE  Among(V, k, L + 1) + Among(W, k, L + 1) = Among(M, k, L + 1)
    <3>1. k \in K
      BY <2>2
    <3>2. L + 1 \notin K
      BY <1>4
    <3>3. Among(K, k, L + 1) = Among(K, k, L)
      <4>1. k \in Nat /\ k <= L + 1
        BY <1>8, <3>1
      <4>2. PICK l \in Nat : l = L
        BY <1>8
      <4>3. k \in Nat /\ k <= l + 1
        BY <4>1, <4>2
      <4>4. Among(K, k, l) \in Nat /\ Among(K, k, l + 1) = Among(K, k, l) + IF l + 1 \in K THEN 1 ELSE 0
        BY <4>3, AmongStep
      <4>5. Among(K, k, L) \in Nat /\ Among(K, k, L + 1) = Among(K, k, L) + IF L + 1 \in K THEN 1 ELSE 0
        BY <4>2, <4>4
      <4>6. QED
        BY <3>2, <4>5
    <3>4. QED
      BY <1>6, <1>8, <2>1, <2>2, <3>1, <3>3
  <2>4. Balanced(u)
    BY <1>2, <1>3, <1>4, <2>3 DEF Balanced
  <2>5. QED
    BY <1>1, <1>3, <1>10, <1>11, <2>1, <2>2, <2>4
<1>12. CASE IsName(x)
  <2>1. x # ".." /\ x \notin {NoName, "."}
    BY <1>10, <1>12
  <2>2. W = K \cup {L + 1}
    <3>1. ASSUME NEW k \in K PROVE k \in W
      BY <1>6, <1>7, <1>8, <1>12, <2>1
    <3>2. L + 1 \in W
      BY <1>7, <1>12
    <3>3. QED
      BY <1>9, <3>1, <3>2
  <2>3. Alike(W, K, L)
    BY <2>2 DEF Alike
  <2>4. ASSUME NEW k \in W
        PROVE  Among(V, k, L + 1) + Among(W, k, L + 1) = Among(M, k, L + 1)
    <3>1. CASE k \in K
      <4>1. Among(W, k, L + 1) = Among(K, k, L) + 1
        <5>1. k \in 1 .. L
          BY <1>8, <3>1
        <5>2. Among(W, k, L + 1) = Among(K, k, L) + IF L + 1 \in W THEN 1 ELSE 0
          BY <2>3, <5>1, LongerCounts
        <5>3. QED
          BY <2>2, <5>2
      <4>2. QED
        BY <1>6, <1>8, <1>12, <2>1, <3>1, <4>1
    <3>2. CASE k = L + 1
      <4>1. k \in Nat /\ k \in M /\ k \notin V /\ k \in W
        BY <1>4, <1>12, <2>1, <3>2
      <4>2. Among(V, k, k) = 0 /\ Among(W, k, k) = 1 /\ Among(M, k, k) = 1
        BY <4>1, AmongOne
      <4>3. QED
        BY <3>2, <4>2
    <3>3. QED
      BY <2>2, <3>1, <3>2
  <2>5. Balanced(u)
    BY <1>2, <1>3, <1>4, <2>4 DEF Balanced
  <2>6. QED
    BY <1>1, <1>3, <1>12, <2>1, <2>2, <2>5
<1>13. CASE x = ".." /\ K = {}
  <2>1. W = {}
    BY <1>7, <1>9, <1>10, <1>13
  <2>2. Balanced(u)
    BY <1>3, <2>1 DEF Balanced
  <2>3. QED
    BY <1>1, <1>3, <1>10, <1>13, <2>1, <2>2
<1>14. CASE x = ".." /\ K # {}
  <2>1. PICK m \in K : m = Nth(K, Cardinality(K))
    BY <1>4, <1>14, TheLast
  <2>2. \A k \in K : k <= m /\ (Among(K, k, L) = 1 <=> k = m)
    BY <1>4, <1>14, <2>1, TheLast
  <2>3. W = K \ {m}
    <3>1. ASSUME NEW k \in K PROVE k \in W <=> k # m
      <4>1. PICK a \in Nat, b \in Nat, c \in Nat \ {0} :
              a = Among(U, k, L) /\ b = Among(N, k, L) /\ c = Among(K, k, L)
        BY <1>8
      <4>2. a + c = b /\ (c = 1 <=> k = m)
        BY <1>6, <2>2, <4>1
      <4>3. k \in W <=> a + 1 < b + 0
        <5>1. x = ".." /\ ~IsName(x) /\ k \in 1 .. L
          BY <1>8, <1>10, <1>14
        <5>2. QED
          BY <1>7, <4>1, <5>1
      <4>4. QED
        BY <4>2, <4>3
    <3>2. L + 1 \notin W
      BY <1>7, <1>10, <1>14
    <3>3. QED
      BY <1>9, <3>1, <3>2
  <2>4. ASSUME NEW k \in W
        PROVE  Among(V, k, L + 1) + Among(W, k, L + 1) = Among(M, k, L + 1)
    <3>1. k \in K /\ k # m /\ k <= m /\ m \in 1 .. L /\ k \in Nat /\ m \notin W
      BY <1>4, <1>8, <2>2, <2>3
    <3>2. Among(K, k, L) = Among(W, k, L + 1) + 1
      <4>1. PICK A : A = W \cap (k .. (L + 1))
        OBVIOUS
      <4>2. K \cap (k .. L) = A \cup {m} /\ m \notin A
        BY <1>4, <2>3, <3>1, <4>1
      <4>3. IsFiniteSet(A)
        <5>1. IsFiniteSet(k .. (L + 1))
          <6>1. k \in Int /\ L + 1 \in Int
            BY <3>1
          <6>2. QED
            BY <6>1, FS_Interval
        <5>2. QED
          BY <4>1, <5>1, FS_Subset
      <4>4. Cardinality(A \cup {m}) = Cardinality(A) + 1
        BY <4>2, <4>3, FS_AddElement
      <4>5. QED
        BY <4>1, <4>2, <4>4 DEF Among
    <3>3. Among(W, k, L + 1) \in Nat
      <4>1. k \in Nat /\ L + 1 \in Nat /\ k <= (L + 1) + 1
        BY <1>8, <3>1
      <4>2. QED
        BY <4>1, AmongStep
    <3>4. QED
      BY <1>6, <1>8, <1>10, <1>14, <3>1, <3>2, <3>3, SMTT(60)
  <2>5. Balanced(u)
    BY <1>2, <1>3, <1>4, <2>4 DEF Balanced
  <2>6. QED
    BY <1>1, <1>3, <1>10, <1>14, <2>1, <2>3, <2>5
<1>15. x \in {NoName, "."} \/ IsName(x) \/ x = ".."
  BY Zenon DEF IsName
<1>16. QED
  BY <1>11, <1>12, <1>13, <1>14, <1>15

\* The names on the way, as a list.
LEMMA WhereTyped ==
  ASSUME NEW C, NEW t \in Seq(C)
  PROVE  /\ Where(t) \in Seq(C) /\ Len(Where(t)) = Cardinality(OnTheWay(t))
         /\ \A n \in 1 .. Cardinality(OnTheWay(t)) :
              /\ Nth(OnTheWay(t), n) \in OnTheWay(t)
              /\ Where(t)[n] = t[Nth(OnTheWay(t), n)] /\ IsName(Where(t)[n])
<1>1. PICK K, L : K = OnTheWay(t) /\ L = Len(t)
  OBVIOUS
<1>2. L \in Nat /\ K \in SUBSET (1 .. L) /\ \A k \in K : t[k] \in C /\ IsName(t[k])
  <2>1. L \in Nat /\ DOMAIN t = 1 .. L /\ \A k \in 1 .. L : t[k] \in C
    BY <1>1
  <2>2. \A k \in K : k \in DOMAIN t /\ IsName(t[k])
    BY <1>1, Zenon DEF OnTheWay, NamesOf, IsName
  <2>3. QED
    BY <2>1, <2>2
<1>3. PICK n \in Nat : n = Cardinality(K)
  BY <1>2, AmongAll
<1>4. \A h \in 1 .. n : Nth(K, h) \in K
  BY <1>2, <1>3, NthOf
<1>5. PICK w : w = [h \in 1 .. n |-> t[Nth(K, h)]]
  OBVIOUS
<1>6. w \in Seq(C) /\ Len(w) = n /\ \A h \in 1 .. n : w[h] = t[Nth(K, h)] /\ IsName(w[h])
  <2>1. \A h \in 1 .. n : t[Nth(K, h)] \in C /\ IsName(t[Nth(K, h)])
    BY <1>2, <1>4
  <2>2. w \in Seq(C) /\ Len(w) = n /\ \A h \in 1 .. n : w[h] = t[Nth(K, h)]
    BY <1>5, <2>1
  <2>3. QED
    BY <2>1, <2>2
<1>7. w = Where(t)
  BY <1>1, <1>3, <1>5 DEF Where
<1>8. QED
  BY <1>1, <1>3, <1>4, <1>6, <1>7

\* Positions that are counted alike are the n-th alike.
LEMMA NthAlike ==
  ASSUME NEW L \in Nat, NEW K \in SUBSET (1 .. L), NEW W \in SUBSET (1 .. L),
         NEW n \in 1 .. Cardinality(K), Nth(K, n) \in W,
         \A k \in 1 .. Nth(K, n) : k \in K <=> k \in W
  PROVE  Nth(W, n) = Nth(K, n)
<1>1. PICK k \in K : k = Nth(K, n) /\ Among(K, 1, k) = n
  BY NthOf
<1>2. K \cap (1 .. k) = W \cap (1 .. k)
  BY <1>1
<1>3. Among(W, 1, k) = n
  BY <1>1, <1>2 DEF Among
<1>4. k \in W
  BY <1>1
<1>5. QED
  BY <1>1, <1>3, <1>4, NthIs, ZenonT(60)

\* Where a path leads that goes on by one component.
LEMMA WhereLed ==
  ASSUME NEW C, NEW t \in Seq(C), NEW x \in C, Balanced(t)
  PROVE  Where(Append(t, x)) = Led(Where(t), x)
<1>1. PICK u, L : u = Append(t, x) /\ L = Len(t)
  OBVIOUS
<1>2. PICK K, W : K = OnTheWay(t) /\ W = OnTheWay(u)
  OBVIOUS
<1>3. L \in Nat /\ u \in Seq(C)
  BY <1>1
<1>4. /\ K \in SUBSET (1 .. L) /\ K \in SUBSET (1 .. L + 1) /\ W \in SUBSET (1 .. L + 1)
      /\ \A k \in 1 .. L : u[k] = t[k]
      /\ u[L + 1] = x
  <2>1. /\ K \in SUBSET (1 .. L) /\ W \in SUBSET (1 .. L + 1)
        /\ \A k \in 1 .. L : u[k] = t[k]
        /\ u[L + 1] = x
    BY <1>1, <1>2, <1>3, LongerText
  <2>2. QED
    BY <1>3, <2>1
<1>5. /\ x \in {NoName, "."} => W = K
      /\ IsName(x) => W = K \cup {L + 1}
      /\ x = ".." /\ K = {} => W = {}
      /\ x = ".." /\ K # {} => W = K \ {Nth(K, Cardinality(K))}
  BY <1>1, <1>2, <1>3, OnTheWayLed
<1>6. PICK n, m : n = Cardinality(K) /\ m = Cardinality(W)
  OBVIOUS
<1>7. n \in Nat /\ m \in Nat
  <2>1. n \in Nat
    BY <1>3, <1>4, <1>6, AmongAll
  <2>2. L + 1 \in Nat
    BY <1>3
  <2>3. m \in Nat
    BY <1>4, <1>6, <2>2, AmongAll
  <2>4. QED
    BY <2>1, <2>3
<1>8. PICK s, w : s = Where(t) /\ w = Where(u)
  OBVIOUS
<1>9. /\ s \in Seq(C) /\ Len(s) = n
      /\ \A h \in 1 .. n : Nth(K, h) \in K /\ s[h] = t[Nth(K, h)]
  BY <1>2, <1>6, <1>8, WhereTyped
<1>10. /\ w \in Seq(C) /\ Len(w) = m
       /\ \A h \in 1 .. m : Nth(W, h) \in W /\ w[h] = u[Nth(W, h)]
  BY <1>2, <1>3, <1>6, <1>8, WhereTyped
<1>11. ASSUME NEW h \in 1 .. n, h \in 1 .. m, Nth(W, h) = Nth(K, h) PROVE w[h] = s[h]
  BY <1>4, <1>9, <1>10, <1>11
<1>12. CASE x \in {NoName, "."}
  <2>1. W = K /\ n = m
    BY <1>5, <1>6, <1>12
  <2>2. \A h \in 1 .. n : w[h] = s[h]
    BY <1>11, <2>1
  <2>3. w = s
    BY <1>7, <1>9, <1>10, <2>1, <2>2
  <2>4. x # ".."
    BY <1>12, NoUp, Zenon
  <2>5. QED
    BY <1>1, <1>8, <1>12, <2>3, <2>4 DEF Led
<1>13. CASE IsName(x)
  <2>1. W = K \cup {L + 1} /\ L + 1 \notin K
    BY <1>3, <1>4, <1>5, <1>13
  <2>2. m = n + 1
    <3>1. IsFiniteSet(K)
      <4>1. IsFiniteSet(1 .. L)
        BY <1>3, FS_Interval
      <4>2. QED
        BY <1>4, <4>1, FS_Subset
    <3>2. QED
      BY <1>6, <2>1, <3>1, FS_AddElement
  <2>3. ASSUME NEW h \in 1 .. n PROVE w[h] = s[h]
    <3>1. Nth(K, h) \in K
      BY <1>9
    <3>2. Nth(K, h) \in W /\ Nth(K, h) \in 1 .. L
      BY <1>4, <2>1, <3>1
    <3>3. \A k \in 1 .. Nth(K, h) : k \in K <=> k \in W
      BY <1>3, <2>1, <3>2
    <3>4. h \in 1 .. Cardinality(K) /\ L + 1 \in Nat
      BY <1>3, <1>6
    <3>5. Nth(W, h) = Nth(K, h)
      BY <1>4, <3>2, <3>3, <3>4, NthAlike
    <3>6. h \in 1 .. m
      BY <1>7, <2>2
    <3>7. QED
      BY <1>11, <3>5, <3>6
  <2>4. w[n + 1] = x
    <3>1. m # 0 /\ W # {} /\ L + 1 \in Nat /\ L + 1 \in W
      BY <1>3, <1>7, <2>1, <2>2
    <3>2. \A k \in W : k <= Nth(W, m)
      BY <1>4, <1>6, <3>1, TheLast
    <3>3. Nth(W, m) \in W
      BY <1>4, <1>6, <3>1, TheLast
    <3>4. Nth(W, m) = L + 1
      <4>1. Nth(W, m) \in 1 .. L + 1 /\ L + 1 <= Nth(W, m)
        BY <1>4, <3>1, <3>2, <3>3
      <4>2. QED
        BY <1>3, <4>1
    <3>5. m \in 1 .. m
      BY <1>7, <3>1
    <3>6. QED
      BY <1>4, <1>10, <2>2, <3>4, <3>5
  <2>5. w = Append(s, x)
    BY <1>7, <1>9, <1>10, <2>2, <2>3, <2>4, SMTT(60)
  <2>6. x # ".." /\ x \notin {NoName, "."}
    BY <1>13, Zenon DEF IsName
  <2>7. QED
    BY <1>1, <1>8, <2>5, <2>6 DEF Led
<1>14. CASE x = ".." /\ K = {}
  <2>1. W = {} /\ n = 0 /\ m = 0
    <3>1. W = {}
      BY <1>5, <1>14
    <3>2. Cardinality({}) = 0
      BY FS_EmptySet
    <3>3. QED
      BY <1>6, <1>14, <3>1, <3>2
  <2>2. s = <<>> /\ w = <<>>
    BY <1>9, <1>10, <2>1
  <2>3. QED
    BY <1>1, <1>8, <1>14, <2>2 DEF Led
<1>15. CASE x = ".." /\ K # {}
  <2>0. \A k \in K : k \in Nat
    BY <1>3, <1>4
  <2>1. PICK top \in K : top = Nth(K, n)
    BY <1>3, <1>4, <1>6, <1>15, TheLast
  <2>2. n # 0 /\ \A k \in K : k <= top
    BY <1>3, <1>4, <1>6, <1>15, <2>1, TheLast
  <2>3. W = K \ {top}
    BY <1>5, <1>6, <1>15, <2>1
  <2>4. m = n - 1
    <3>1. IsFiniteSet(K)
      <4>1. IsFiniteSet(1 .. L)
        BY <1>3, FS_Interval
      <4>2. QED
        BY <1>4, <4>1, FS_Subset
    <3>2. Cardinality(K \ {top}) = Cardinality(K) - 1
      BY <2>1, <3>1, FS_RemoveElement
    <3>3. QED
      BY <1>6, <2>3, <3>2
  <2>5. ASSUME NEW h \in 1 .. m PROVE w[h] = s[h]
    <3>1. h \in 1 .. n /\ h # n
      BY <1>7, <2>4
    <3>2. Nth(K, h) \in K /\ Nth(K, h) # top
      <4>1. Nth(K, h) \in K /\ Among(K, 1, Nth(K, h)) = h
        BY <1>3, <1>4, <1>6, <3>1, NthOf
      <4>2. n \in 1 .. Cardinality(K)
        BY <1>6, <1>7, <2>2
      <4>3. Among(K, 1, top) = n
        BY <1>3, <1>4, <2>1, <4>2, NthOf
      <4>4. QED
        BY <3>1, <4>1, <4>3
    <3>3. Nth(K, h) \in W /\ Nth(K, h) < top
      <4>1. Nth(K, h) \in W
        BY <2>3, <3>2
      <4>2. Nth(K, h) <= top /\ Nth(K, h) \in Nat /\ top \in Nat
        BY <2>0, <2>1, <2>2, <3>2
      <4>3. QED
        BY <3>2, <4>1, <4>2
    <3>4. \A k \in 1 .. Nth(K, h) : k \in K <=> k \in W
      <4>1. Nth(K, h) \in Nat /\ top \in Nat
        BY <2>0, <2>1, <3>2
      <4>2. QED
        BY <2>3, <3>3, <4>1
    <3>5. h \in 1 .. Cardinality(K) /\ L + 1 \in Nat
      BY <1>3, <1>6, <3>1
    <3>6. Nth(W, h) = Nth(K, h)
      BY <1>4, <3>3, <3>4, <3>5, NthAlike
    <3>7. QED
      BY <1>11, <3>1, <3>6
  <2>6. s # <<>> /\ Front(s) \in Seq(C) /\ Len(Front(s)) = n - 1
        /\ \A h \in 1 .. n - 1 : Front(s)[h] = s[h]
    BY <1>7, <1>9, <2>2 DEF Front
  <2>7. w = Front(s)
    BY <1>7, <1>10, <2>4, <2>5, <2>6
  <2>8. QED
    BY <1>1, <1>8, <1>15, <2>6, <2>7 DEF Led
<1>16. x \in {NoName, "."} \/ IsName(x) \/ x = ".."
  BY Zenon DEF IsName
<1>17. QED
  BY <1>12, <1>13, <1>14, <1>15, <1>16

\* No component leads nowhere.
LEMMA WhereNothing == Balanced(<<>>) /\ Where(<<>>) = <<>>
<1>1. OnTheWay(<<>>) = {}
  BY DEF OnTheWay, NamesOf
<1>2. Cardinality({}) = 0
  BY FS_EmptySet
<1>3. Where(<<>>) \in Seq({}) /\ Len(Where(<<>>)) = 0
  <2>1. <<>> \in Seq({})
    OBVIOUS
  <2>2. Where(<<>>) \in Seq({}) /\ Len(Where(<<>>)) = Cardinality(OnTheWay(<<>>))
    BY <2>1, WhereTyped
  <2>3. QED
    BY <1>1, <1>2, <2>2
<1>4. QED
  BY <1>1, <1>3 DEF Balanced

\* Every text is balanced.
LEMMA AlwaysBalanced ==
  ASSUME NEW C, NEW t \in Seq(C)
  PROVE  Balanced(t)
<1> DEFINE T == {n \in Nat : n <= Len(t) => Balanced(SubSeq(t, 1, n))}
<1>1. 0 \in T
  BY WhereNothing, WholeList
<1>2. ASSUME NEW n \in Nat, n \in T PROVE n + 1 \in T
  <2>1. SUFFICES ASSUME n + 1 <= Len(t) PROVE Balanced(SubSeq(t, 1, n + 1))
    OBVIOUS
  <2>2. PICK a : a = SubSeq(t, 1, n)
    OBVIOUS
  <2>3. a \in Seq(C) /\ t[n + 1] \in C /\ SubSeq(t, 1, n + 1) = Append(a, t[n + 1])
    BY <2>1, <2>2, OneLonger
  <2>4. Balanced(a)
    BY <1>2, <2>1, <2>2
  <2>5. PICK L \in Nat : L = Len(a)
    BY <2>3
  <2>6. Balanced(Append(a, t[n + 1]))
    BY <2>3, <2>4, <2>5, OnTheWayLed
  <2>7. QED
    BY <2>3, <2>6
<1>3. Len(t) \in T
  <2> HIDE DEF T
  <2>1. QED
    BY <1>1, <1>2, ByInduction
<1>4. QED
  <2>1. SubSeq(t, 1, Len(t)) = t
    BY WholeList
  <2>2. Len(t) \in Nat /\ Len(t) <= Len(t)
    OBVIOUS
  <2>3. QED
    BY <1>3, <2>1, <2>2

\* Where a path leads is found by following its components, one at a time.
LEMMA WhereFollows ==
  ASSUME NEW C, NEW t \in Seq(C), NEW x \in C
  PROVE  Where(Append(t, x)) = Led(Where(t), x)
  BY AlwaysBalanced, WhereLed

\* A list of names leads along these names.
LEMMA WhereNames ==
  ASSUME NEW C, NEW s \in Seq(C), \A h \in 1 .. Len(s) : IsName(s[h])
  PROVE  Where(s) = s
<1> DEFINE T == {n \in Nat : n <= Len(s) => Where(SubSeq(s, 1, n)) = SubSeq(s, 1, n)}
<1>1. 0 \in T
  BY WhereNothing, WholeList
<1>2. ASSUME NEW n \in Nat, n \in T PROVE n + 1 \in T
  <2>1. SUFFICES ASSUME n + 1 <= Len(s)
                 PROVE  Where(SubSeq(s, 1, n + 1)) = SubSeq(s, 1, n + 1)
    OBVIOUS
  <2>2. PICK a : a = SubSeq(s, 1, n)
    OBVIOUS
  <2>3. a \in Seq(C) /\ s[n + 1] \in C /\ SubSeq(s, 1, n + 1) = Append(a, s[n + 1])
    BY <2>1, <2>2, OneLonger
  <2>4. Where(a) = a
    BY <1>2, <2>1, <2>2
  <2>5. Where(Append(a, s[n + 1])) = Led(a, s[n + 1])
    BY <2>3, <2>4, WhereFollows
  <2>6. s[n + 1] # ".." /\ s[n + 1] \notin {NoName, "."}
    <3>1. IsName(s[n + 1])
      BY <2>1
    <3>2. QED
      BY <3>1, Zenon DEF IsName
  <2>7. QED
    BY <2>3, <2>5, <2>6 DEF Led
<1>3. Len(s) \in T
  <2> HIDE DEF T
  <2>1. QED
    BY <1>1, <1>2, ByInduction, SMTT(60)
<1>4. QED
  <2>1. SubSeq(s, 1, Len(s)) = s
    BY WholeList
  <2>2. Len(s) \in Nat /\ Len(s) <= Len(s)
    OBVIOUS
  <2>3. QED
    BY <1>3, <2>1, <2>2

\* A path that goes on from where another leads ends where both lead, one put
\* behind the other.
LEMMA WhereJoined ==
  ASSUME NEW C, NEW a \in Seq(C), NEW b \in Seq(C)
  PROVE  Where(Where(a) \o b) = Where(a \o b)
<1>1. PICK s : s = Where(a)
  OBVIOUS
<1>2. s \in Seq(C) /\ Where(s) = s
  <2>1. s \in Seq(C)
    BY <1>1, WhereTyped
  <2>2. \A h \in 1 .. Len(s) : IsName(s[h])
    BY <1>1, WhereTyped
  <2>3. QED
    BY <2>1, <2>2, WhereNames
<1> DEFINE T == {n \in Nat : n <= Len(b) => Where(s \o SubSeq(b, 1, n)) = Where(a \o SubSeq(b, 1, n))}
<1>3. 0 \in T
  BY <1>1, <1>2, WholeList
<1>4. ASSUME NEW n \in Nat, n \in T PROVE n + 1 \in T
  <2>1. SUFFICES ASSUME n + 1 <= Len(b)
                 PROVE  Where(s \o SubSeq(b, 1, n + 1)) = Where(a \o SubSeq(b, 1, n + 1))
    OBVIOUS
  <2>2. PICK c, x : c = SubSeq(b, 1, n) /\ x = b[n + 1]
    OBVIOUS
  <2>3. c \in Seq(C) /\ x \in C /\ SubSeq(b, 1, n + 1) = Append(c, x)
    BY <2>1, <2>2, OneLonger
  <2>4. Where(s \o c) = Where(a \o c)
    BY <1>4, <2>1, <2>2
  <2>5. /\ s \o c \in Seq(C) /\ s \o Append(c, x) = Append(s \o c, x)
        /\ a \o c \in Seq(C) /\ a \o Append(c, x) = Append(a \o c, x)
    BY <1>2, <2>3, SMTT(60)
  <2>6. Where(Append(s \o c, x)) = Led(Where(s \o c), x)
    BY <2>3, <2>5, WhereFollows
  <2>7. Where(Append(a \o c, x)) = Led(Where(a \o c), x)
    BY <2>3, <2>5, WhereFollows
  <2>8. QED
    BY <2>3, <2>4, <2>5, <2>6, <2>7
<1>5. Len(b) \in T
  <2> HIDE DEF T
  <2>1. QED
    BY <1>3, <1>4, ByInduction
<1>6. QED
  <2>1. SubSeq(b, 1, Len(b)) = b
    BY WholeList
  <2>2. Len(b) \in Nat /\ Len(b) <= Len(b)
    OBVIOUS
  <2>3. QED
    BY <1>1, <1>5, <2>1, <2>2

\* The texts a call works on.
LEMMA TextsTyped ==
  ASSUME NEW c \in PathCalls
  PROVE  /\ Absolute(c.path) \in Seq(STRING) /\ Text(c) \in Seq(STRING)
         /\ Absolute(Text(c)) \in Seq(STRING)
<1>1. /\ c.path \in Seq(STRING) /\ c.path # <<>>
      /\ c.op = "join" => c.name \in Seq(STRING)
      /\ Cwd \in Seq(STRING)
  BY PathsAssumption
<1>2. PICK base : base = c.path
  OBVIOUS
<1>3. base \in Seq(STRING) /\ base # <<>> /\ Front(base) \in Seq(STRING)
  BY <1>1, <1>2 DEF Front
<1>4. ASSUME NEW t \in Seq(STRING) PROVE Absolute(t) \in Seq(STRING)
  <2>1. Cwd \o t \in Seq(STRING)
    BY <1>1
  <2>2. QED
    BY <2>1 DEF Absolute
<1>5. ASSUME NEW name \in Seq(STRING) PROVE Joined(base, name) \in Seq(STRING)
  <2>1. Front(base) \o name \in Seq(STRING) /\ base \o name \in Seq(STRING)
    BY <1>3
  <2>2. QED
    BY <2>1 DEF Joined
<1>6. Text(c) \in Seq(STRING)
  BY <1>1, <1>2, <1>3, <1>5 DEF Text
<1>7. QED
  BY <1>1, <1>4, <1>6

\* A join leads where its name leads from its directory.
LEMMA JoinLeads ==
  ASSUME NEW c \in PathCalls, c.op = "join", c.path # <<NoName>>
  PROVE  Where(Absolute(Text(c))) = Where(Where(Absolute(c.path)) \o c.name)
<1>1. PICK base, e : base = c.path /\ e = c.name
  OBVIOUS
<1>2. /\ base \in Seq(STRING) /\ base # <<>> /\ base # <<NoName>>
      /\ e \in Seq(STRING) /\ e # <<>> /\ Cwd \in Seq(STRING)
  BY <1>1, PathsAssumption
<1>3. /\ Len(base) \in Nat \ {0} /\ Len(e) \in Nat \ {0}
      /\ Len(base) = 1 => base[1] # NoName
  BY <1>2
<1>4. Text(c) = Joined(base, e)
  BY <1>1 DEF Text
<1>5. PICK A : A = Absolute(base)
  OBVIOUS
<1>6. CASE Last(base) = NoName
  <2>1. base[Len(base)] = NoName /\ Len(base) > 1
    <3>0. PICK n \in Nat \ {0} : n = Len(base)
      BY <1>3
    <3>1. base[Len(base)] = NoName
      BY <1>6 DEF Last
    <3>2. Len(base) # 1
      <4>1. SUFFICES ASSUME Len(base) = 1 PROVE FALSE
        OBVIOUS
      <4>2. base[1] = NoName
        BY <3>1, <4>1
      <4>3. QED
        BY <1>3, <4>1, <4>2
    <3>3. n > 1
      BY <3>0, <3>2
    <3>4. QED
      BY <3>0, <3>1, <3>3
  <2>2. PICK f : f = Front(base)
    OBVIOUS
  <2>3. /\ f \in Seq(STRING) /\ Len(f) = Len(base) - 1 /\ f[1] = base[1] /\ base[Len(base)] \in STRING
        /\ \A h \in 1 .. Len(base) - 1 : f[h] = base[h]
    BY <1>2, <2>1, <2>2 DEF Front
  <2>4. NoName \in STRING /\ base = Append(f, NoName)
    <3>1. NoName \in STRING
      BY <2>1, <2>3
    <3>2. PICK n \in Nat : n = Len(base)
      BY <1>3
    <3>3. base[n] = NoName /\ Len(f) + 1 = n
      BY <2>1, <2>3, <3>2
    <3>4. base = Append(f, NoName)
      BY <1>2, <2>3, <3>1, <3>2, <3>3
    <3>5. QED
      BY <3>1, <3>4
  <2>5. PICK j : j = f \o e
    OBVIOUS
  <2>6. Joined(base, e) = j
    BY <1>2, <1>6, <2>2, <2>5 DEF Joined
  <2>7. Len(j) > 1 /\ j[1] = base[1]
    BY <1>2, <1>3, <2>1, <2>3, <2>5
  <2>8. IsAbsolute(j) <=> IsAbsolute(base)
    BY <2>1, <2>7 DEF IsAbsolute
  <2>9. PICK F \in Seq(STRING) : F = IF IsAbsolute(base) THEN f ELSE Cwd \o f
    <3>1. Cwd \o f \in Seq(STRING)
      BY <1>2, <2>3
    <3>2. QED
      BY <2>3, <3>1
  <2>10. A = Append(F, NoName)
    <3>1. Cwd \o Append(f, NoName) = Append(Cwd \o f, NoName)
      BY <1>2, <2>3, <2>4, SMTT(60)
    <3>2. QED
      BY <1>5, <2>4, <2>9, <3>1 DEF Absolute
  <2>11. Absolute(j) = F \o e
    <3>1. Cwd \o (f \o e) = (Cwd \o f) \o e
      BY <1>2, <2>3, SMTT(60)
    <3>2. QED
      BY <2>5, <2>8, <2>9, <3>1 DEF Absolute
  <2>12. Where(A) = Where(F)
    <3>1. Where(A) = Led(Where(F), NoName)
      BY <2>4, <2>9, <2>10, WhereFollows
    <3>2. QED
      BY <3>1, NoUp DEF Led
  <2>13. Where(Where(F) \o e) = Where(F \o e)
    BY <1>2, <2>9, WhereJoined
  <2>14. QED
    BY <1>1, <1>4, <1>5, <2>6, <2>11, <2>12, <2>13
<1>7. CASE Last(base) # NoName
  <2>1. base[Len(base)] # NoName
    BY <1>7 DEF Last
  <2>2. PICK j : j = base \o e
    OBVIOUS
  <2>3. Joined(base, e) = j
    BY <1>2, <1>7, <2>2 DEF Joined
  <2>4. Len(j) > 1 /\ j[1] = base[1]
    BY <1>2, <1>3, <2>2
  <2>5. IsAbsolute(j) <=> IsAbsolute(base)
    <3>1. Len(base) = 1 => base[1] # NoName
      BY <1>3
    <3>2. Len(base) # 1 => Len(base) > 1
      <4>1. PICK n \in Nat \ {0} : n = Len(base)
        BY <1>3
      <4>2. n # 1 => n > 1
        BY <4>1
      <4>3. QED
        BY <4>1, <4>2
    <3>3. QED
      BY <2>4, <3>1, <3>2 DEF IsAbsolute
  <2>6. Absolute(j) = A \o e
    <3>1. Cwd \o (base \o e) = (Cwd \o base) \o e
      BY <1>2
    <3>2. QED
      BY <1>5, <2>2, <2>5, <3>1 DEF Absolute
  <2>7. A \in Seq(STRING)
    BY <1>1, <1>5, TextsTyped
  <2>8. Where(Where(A) \o e) = Where(A \o e)
    BY <1>2, <2>7, WhereJoined
  <2>9. QED
    BY <1>1, <1>4, <1>5, <2>3, <2>6, <2>8
<1>8. QED
  BY <1>6, <1>7

\* As long as a call goes on, the stack is where the components read so far lead.
PathsInv ==
  /\ request \in PathCalls
  /\ result = Pending =>
       LET whole == Absolute(Text(request)) IN
       \E n \in 0 .. Len(whole) : /\ rest = SubSeq(whole, n + 1, Len(whole))
                                  /\ stack = Where(SubSeq(whole, 1, n))
  /\ PathsNormal

\* A call begins at the root.
LEMMA PathsBegin == PathsInit => PathsInv
<1> SUFFICES ASSUME PathsInit PROVE PathsInv
  OBVIOUS
<1>1. PICK whole : whole = Absolute(Text(request))
  OBVIOUS
<1>2. /\ request \in PathCalls /\ rest = whole /\ stack = <<>>
      /\ result \in {TooLong, Pending, NoCwd} /\ (result = TooLong => Overflows(request))
  BY <1>1 DEF PathsInit, Entered, TooLong, Pending, NoCwd
<1>3. whole \in Seq(STRING)
  BY <1>1, <1>2, TextsTyped
<1>4. 0 \in 0 .. Len(whole) /\ rest = SubSeq(whole, 0 + 1, Len(whole))
  BY <1>2, <1>3
<1>5. stack = Where(SubSeq(whole, 1, 0))
  BY <1>2, <1>3, WhereNothing, WholeList
<1>6. PathsNormal
  BY <1>2 DEF PathsNormal, Pending, TooLong, NoCwd
<1>7. QED
  BY <1>1, <1>2, <1>4, <1>5, <1>6 DEF PathsInv

\* A call reads one component more, and fails only if the stack is full.
LEMMA PathsGoOn == PathsInv /\ Component => PathsInv'
<1> SUFFICES ASSUME PathsInv, Component PROVE PathsInv'
  OBVIOUS
<1>1. PICK whole : whole = Absolute(Text(request))
  OBVIOUS
<1>2. request \in PathCalls /\ request' = request /\ whole \in Seq(STRING)
  BY <1>1, TextsTyped DEF PathsInv, Component
<1>3. PICK n \in 0 .. Len(whole) : /\ rest = SubSeq(whole, n + 1, Len(whole))
                                   /\ stack = Where(SubSeq(whole, 1, n))
  BY <1>1 DEF PathsInv, Component
<1>4. PICK done : done = SubSeq(whole, 1, n)
  OBVIOUS
<1>5. PICK x : x = Head(rest)
  OBVIOUS
<1>6. n \in Nat /\ n + 1 \in 0 .. Len(whole) /\ n + 1 <= Len(whole) /\ x = whole[n + 1]
      /\ rest' = SubSeq(whole, (n + 1) + 1, Len(whole))
  <2>1. rest # <<>> /\ rest' = Tail(rest)
    BY DEF Component
  <2>2. n \in Nat /\ n < Len(whole)
    BY <1>2, <1>3, <2>1
  <2>3. Tail(rest) = SubSeq(whole, (n + 1) + 1, Len(whole)) /\ Head(rest) = whole[n + 1]
    BY <1>2, <1>3, <2>2
  <2>4. QED
    BY <1>2, <1>5, <2>1, <2>2, <2>3
<1>7. /\ done \in Seq(STRING) /\ x \in STRING
      /\ SubSeq(whole, 1, n + 1) = Append(done, x)
  BY <1>2, <1>4, <1>6, OneLonger
<1>8. Where(SubSeq(whole, 1, n + 1)) = Led(stack, x)
  BY <1>3, <1>4, <1>7, WhereFollows
<1>9. stack \in Seq(STRING)
  BY <1>3, <1>4, <1>7, WhereTyped
<1>10. ASSUME UNCHANGED result, stack' = Led(stack, x) PROVE PathsInv'
  <2>1. result = Pending /\ result' = Pending
    BY <1>10 DEF Component
  <2>2. PathsNormal'
    BY <2>1 DEF PathsNormal, Pending, TooLong
  <2>3. QED
    BY <1>1, <1>2, <1>6, <1>8, <1>10, <2>2 DEF PathsInv
<1>11. CASE x \in {NoName, "."} /\ UNCHANGED <<stack, result>>
  BY <1>10, <1>11, NoUp DEF Led
<1>12. CASE /\ x = ".." /\ UNCHANGED result
            /\ stack' = IF stack = <<>> THEN stack ELSE Front(stack)
  BY <1>10, <1>12 DEF Led
<1>13. CASE /\ x \notin {NoName, ".", ".."} /\ Len(stack) < DepthMax
            /\ stack' = Append(stack, x) /\ UNCHANGED result
  <2>1. x # ".." /\ x \notin {NoName, "."}
    BY <1>13, Zenon
  <2>2. QED
    BY <1>10, <1>13, <2>1 DEF Led
<1>14. CASE /\ x \notin {NoName, ".", ".."} /\ ~(Len(stack) < DepthMax)
            /\ result' = TooLong /\ UNCHANGED stack
  <2>1. x # ".." /\ x \notin {NoName, "."}
    BY <1>14, Zenon
  <2>2. Len(Led(stack, x)) = Len(stack) + 1
    BY <1>7, <1>9, <2>1 DEF Led
  <2>3. Len(Where(SubSeq(whole, 1, n + 1))) > DepthMax
    BY <1>8, <1>9, <1>14, <2>2, PathsAssumption
  <2>4. n + 1 \in DOMAIN whole
    BY <1>2, <1>6
  <2>5. PathsNormal'
    BY <1>1, <1>2, <1>14, <2>3, <2>4 DEF PathsNormal, TooLong
  <2>6. result' # Pending
    BY <1>14 DEF TooLong, Pending
  <2>7. QED
    BY <1>2, <2>5, <2>6 DEF PathsInv
<1>15. QED
  BY <1>5, <1>11, <1>12, <1>13, <1>14 DEF Component

\* When everything is read, the stack is where the path leads.
LEMMA AllRead ==
  ASSUME PathsInv, result = Pending, rest = <<>>
  PROVE  /\ stack = Where(Absolute(Text(request))) /\ request \in PathCalls
         /\ Absolute(Text(request)) \in Seq(STRING) /\ stack \in Seq(STRING)
<1>1. PICK whole : whole = Absolute(Text(request))
  OBVIOUS
<1>2. request \in PathCalls /\ whole \in Seq(STRING)
  BY <1>1, TextsTyped DEF PathsInv
<1>3. PICK n \in 0 .. Len(whole) : /\ rest = SubSeq(whole, n + 1, Len(whole))
                                   /\ stack = Where(SubSeq(whole, 1, n))
  BY <1>1 DEF PathsInv
<1>4. n = Len(whole)
  <2>1. SUFFICES ASSUME n < Len(whole) PROVE FALSE
    BY <1>2, <1>3
  <2>2. Len(rest) = Len(whole) - n
    BY <1>2, <1>3, <2>1
  <2>3. Len(rest) = 0
    OBVIOUS
  <2>4. QED
    BY <1>2, <1>3, <2>1, <2>2, <2>3
<1>5. SubSeq(whole, 1, n) = whole
  BY <1>2, <1>4, WholeList
<1>6. stack \in Seq(STRING)
  BY <1>2, <1>3, <1>5, WhereTyped
<1>7. QED
  BY <1>1, <1>2, <1>3, <1>5, <1>6

\* The text that is put together is where the path leads.
LEMMA PathsAssembled == PathsInv /\ Assemble => PathsInv'
<1> SUFFICES ASSUME PathsInv, Assemble PROVE PathsInv'
  OBVIOUS
<1>1. PICK whole : whole = Absolute(Text(request))
  OBVIOUS
<1>2. /\ stack = Where(whole) /\ request \in PathCalls
      /\ request' = request /\ stack' = stack /\ request.op # "parent"
  BY <1>1, AllRead DEF Assemble
<1>3. request.op = "join" /\ request.path # <<NoName>> =>
        stack = Where(Where(Absolute(request.path)) \o request.name)
  BY <1>1, <1>2, JoinLeads
<1>4. CASE Size(stack) < request.cap
  <2>1. result' = Returns(stack)
    BY <1>4 DEF Assemble
  <2>2. /\ result'.rc = "OK" /\ result'.out = stack /\ result' # TooLong /\ result' # Pending
    BY <2>1 DEF Returns, TooLong, Pending
  <2>3. PathsNormal'
    BY <1>1, <1>2, <1>3, <2>2 DEF PathsNormal
  <2>4. QED
    BY <1>2, <2>2, <2>3 DEF PathsInv
<1>5. CASE ~(Size(stack) < request.cap)
  <2>1. result' = TooLong
    BY <1>5 DEF Assemble
  <2>2. result'.rc # "OK" /\ result' # Pending
    BY <2>1 DEF TooLong, Pending
  <2>3. Size(stack) >= request.cap
    <3>1. Size(stack) \in Nat /\ request.cap \in Nat
      <4>1. stack \in Seq(STRING)
        BY <1>2, AllRead DEF Assemble
      <4>2. QED
        BY <1>2, <4>1, PathsAssumption DEF Size
    <3>2. QED
      BY <1>5, <3>1
  <2>4. PathsNormal'
    BY <1>1, <1>2, <2>1, <2>2, <2>3 DEF PathsNormal
  <2>5. QED
    BY <1>2, <2>2, <2>4 DEF PathsInv
<1>6. QED
  BY <1>4, <1>5

\* The parent is where the path leads that goes on with "..".
LEMMA PathsUp == PathsInv /\ fsp_path_parent => PathsInv'
<1> SUFFICES ASSUME PathsInv, fsp_path_parent PROVE PathsInv'
  OBVIOUS
<1>1. PICK whole : whole = Absolute(Text(request))
  OBVIOUS
<1>2. /\ stack = Where(whole) /\ request \in PathCalls /\ stack \in Seq(STRING)
      /\ whole \in Seq(STRING)
      /\ request' = request /\ stack' = stack /\ request.op = "parent"
  BY <1>1, AllRead DEF fsp_path_parent
<1>3. PICK above : above = IF stack = <<>> THEN stack ELSE Front(stack)
  OBVIOUS
<1>4. above \in Seq(STRING) /\ Size(stack) = 2 * Len(above) + (IF stack = <<>> THEN 1 ELSE 2)
  <2>1. CASE stack = <<>>
    BY <1>3, <2>1 DEF Size
  <2>2. CASE stack # <<>>
    <3>1. above = SubSeq(stack, 1, Len(stack) - 1) /\ Len(stack) \in Nat \ {0}
      BY <1>2, <1>3, <2>2 DEF Front
    <3>2. above \in Seq(STRING) /\ Len(above) = Len(stack) - 1
      <4>1. PICK n \in Nat : n = Len(stack) - 1
        BY <3>1
      <4>2. n <= Len(stack) /\ above = SubSeq(stack, 1, n)
        BY <3>1, <4>1
      <4>3. above \in Seq(STRING) /\ Len(above) = n
        BY <1>2, <4>1, <4>2
      <4>4. QED
        BY <4>1, <4>3
    <3>3. Size(stack) = 2 * Len(stack)
      BY <2>2 DEF Size
    <3>4. QED
      BY <2>2, <3>1, <3>2, <3>3
  <2>3. QED
    BY <2>1, <2>2
<1>5. Where(Append(whole, "..")) = above
  <2>1. PICK C : C = STRING \cup {".."}
    OBVIOUS
  <2>2. whole \in Seq(C) /\ ".." \in C
    BY <1>2, <2>1
  <2>3. Where(Append(whole, "..")) = Led(Where(whole), "..")
    BY <2>2, WhereFollows
  <2>4. QED
    BY <1>2, <1>3, <2>3 DEF Led
<1>6. result' = IF Size(stack) >= BufferMax THEN TooLong
                ELSE IF above = <<>> THEN IF request.cap < 2 THEN TooLong ELSE Returns(above)
                ELSE Returns(SubSeq(above, 1, Min({Len(above), (request.cap - 1) \div 2})))
  BY <1>3 DEF fsp_path_parent
<1>7. PICK cap \in Nat \ {0} : cap = request.cap
  BY <1>2, PathsAssumption
<1>8. CASE result' = TooLong
  <2>1. result'.rc # "OK" /\ result' # Pending
    BY <1>8 DEF TooLong, Pending
  <2>2. Size(stack) >= BufferMax \/ cap < 2
    BY <1>6, <1>7, <1>8 DEF TooLong, Returns
  <2>3. Size(stack) >= BufferMax \/ Size(stack) >= cap
    BY <1>4, <1>7, <2>2
  <2>4. PathsNormal'
    BY <1>1, <1>2, <1>7, <1>8, <2>1, <2>3 DEF PathsNormal
  <2>5. QED
    BY <1>2, <2>1, <2>4 DEF PathsInv
<1>9. CASE result' # TooLong
  <2>1. PICK out : result' = Returns(out) /\ (Size(stack) < cap => out = above)
    <3>0. ~(Size(stack) >= BufferMax)
      BY <1>6, <1>9
    <3>1. CASE above = <<>>
      BY <1>6, <1>9, <3>0, <3>1
    <3>2. CASE above # <<>>
      <4>1. PICK least : least = Min({Len(above), (cap - 1) \div 2})
        OBVIOUS
      <4>2. result' = Returns(SubSeq(above, 1, least))
        BY <1>6, <1>7, <3>0, <3>2, <4>1
      <4>3. ASSUME Size(stack) < cap PROVE SubSeq(above, 1, least) = above
        <5>1. Len(above) \in Nat /\ Len(above) <= (cap - 1) \div 2 /\ (cap - 1) \div 2 \in Nat
          BY <1>4, <1>7, <4>3
        <5>2. least = Len(above)
          BY <4>1, <5>1 DEF Min
        <5>3. QED
          BY <1>4, <5>2, WholeList
      <4>4. QED
        BY <4>2, <4>3
    <3>3. QED
      BY <3>1, <3>2
  <2>2. /\ result'.rc = "OK" /\ result'.out = out /\ result' # Pending
    BY <2>1 DEF Returns, Pending
  <2>3. PathsNormal'
    BY <1>1, <1>2, <1>5, <1>7, <1>9, <2>1, <2>2 DEF PathsNormal
  <2>4. QED
    BY <1>2, <2>2, <2>3 DEF PathsInv
<1>10. QED
  BY <1>8, <1>9

\* A path, normalised, joined or its parent taken, is where its names lead, for
\* paths of any length (fsp_path_normalize, fsp_path_join, fsp_path_parent).
THEOREM PathsLeadRight == PathsSpec => []PathsNormal
<1>1. PathsInv /\ UNCHANGED pathVars => PathsInv'
  BY DEF PathsInv, pathVars, PathsNormal
<1>2. PathsInv /\ [PathsNext]_pathVars => PathsInv'
  BY <1>1, PathsGoOn, PathsAssembled, PathsUp DEF PathsNext
<1>3. PathsInv => PathsNormal
  BY DEF PathsInv
<1>4. QED
  BY <1>2, <1>3, PathsBegin, PTL DEF PathsSpec
=============================================================================

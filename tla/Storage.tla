------------------------------- MODULE Storage -------------------------------
(***************************************************************************)
(* storage_impl.c: directories as volumes and byte copies of them as       *)
(* snapshots.  The registry is changed under one mutex and written to the  *)
(* state file (temporary file and rename) before the mutex is released,    *)
(* but copying, clearing and removing snapshot directories happens without *)
(* it: snapshot_create takes the mutex twice with the copy in between,     *)
(* snapshot_restore and snapshot_delete do their work after releasing it.  *)
(* The process may end at any moment.                                      *)
(*                                                                         *)
(* The content of a directory is one value; "partial" is a copy that is    *)
(* not finished.  Refused calls change nothing and are stuttering steps.   *)
(***************************************************************************)
EXTENDS SequencesExt

CONSTANTS Threads,
          Volumes,       \* volume names
          Names,         \* snapshot names
          Paths,         \* backend directories
          Inside,        \* path -> the paths that lie inside it
          Contents,      \* what applications write into a volume
          Worlds         \* who calls, which paths are used, and whether
                         \* storage_persist and storage_copy_tree may fail

ASSUME StorageAssumption ==
  /\ Volumes # {} /\ Names # {} /\ Paths # {}
  /\ Inside \in [Paths -> SUBSET Paths]
  /\ Contents \cap {"none", "empty", "partial"} = {}
  /\ Worlds \subseteq [callers : SUBSET Threads, paths : SUBSET Paths, fails : BOOLEAN]

Key == Volumes \X Names
Data == Contents \cup {"none", "empty", "partial"}
Volume == [name : Volumes, path : Paths, readonly : BOOLEAN]
Job == [vol : Volumes, path : Paths, snap : Key]

VARIABLES vols,      \* volume records
          snaps,     \* snapshot records, head first
          file,      \* the state file
          up,        \* the plugin is initialized
          volData,   \* content of each backend directory
          snapData,  \* content of each snapshot directory
          pc, job,   \* per thread, the unlocked work of its call
          saved,     \* content of each snapshot when it was registered
          contested, \* snapshots two calls have been making at the same time
          world      \* the circumstances of this behaviour

vars == <<vols, snaps, file, up, volData, snapData, pc, job, saved, contested, world>>
history == <<saved, contested, world>>
data == <<volData, snapData>>

TypeOK ==
  /\ vols \subseteq Volume
  /\ snaps \in Seq(Key)
  /\ file \in [vols : SUBSET Volume, snaps : Seq(Key)]
  /\ up \in BOOLEAN
  /\ volData \in [Paths -> Data] /\ snapData \in [Key -> Data]
  /\ pc \in [Threads -> {"idle", "undo", "copy", "copying", "register", "discard",
                         "clear", "restore", "remove"}]
  /\ job \in [Threads -> Job]
  /\ saved \in [Key -> Data]
  /\ contested \subseteq Key
  /\ world \in Worlds

Init ==
  /\ vols = {} /\ snaps = <<>> /\ file = [vols |-> {}, snaps |-> <<>>]
  /\ up = TRUE
  /\ volData = [p \in Paths |-> "none"] /\ snapData = [k \in Key |-> "none"]
  /\ pc = [t \in Threads |-> "idle"]
  /\ job = [t \in Threads |-> CHOOSE j \in Job : TRUE]
  /\ saved = [k \in Key |-> "none"] /\ contested = {}
  /\ world \in Worlds

-----------------------------------------------------------------------------
Ready(t) == up /\ pc[t] = "idle" /\ t \in world.callers
NoJob == CHOOSE j \in Job : TRUE
Goto(t, step) ==
  /\ pc' = [pc EXCEPT ![t] = step]
  /\ job' = [job EXCEPT ![t] = IF step = "idle" THEN NoJob ELSE @]
Work(t, step, v, p, k) ==
  /\ pc' = [pc EXCEPT ![t] = step]
  /\ job' = [job EXCEPT ![t] = [vol |-> v, path |-> p, snap |-> k]]

\* storage_rm_rf of a backend directory: what lies inside goes with it.
Removed(p) == [q \in Paths |-> IF q \in Inside[p] \cup {p} THEN "none" ELSE volData[q]]

\* storage_rm_rf or storage_dir_clear fails: the directory is still there, and any part of
\* what it holds is gone.
RemovalFails(p) ==
  /\ world.fails /\ volData[p] # "none"
  /\ \E gone \in SUBSET Inside[p], hit \in SUBSET (Inside[p] \cup {p}) :
       volData' = [q \in Paths |-> IF q \in gone THEN "none"
                                  ELSE IF q \in hit /\ volData[q] # "none" THEN "partial"
                                  ELSE volData[q]]

\* storage_persist: the registry as it will be, whole or not at all.
storage_persist == file' = [vols |-> vols', snaps |-> snaps']
PersistError == world.fails /\ UNCHANGED file

-----------------------------------------------------------------------------
(* Volumes.                                                                *)

\* storage_create_volume.  If the registry cannot be written the record is
\* taken back under the mutex, a directory just made is removed after it.
storage_create_volume(t, v, p, ro) ==
  /\ Ready(t) /\ p \in world.paths
  /\ \A r \in vols : r.name # v /\ r.path # p
  /\ volData' = [volData EXCEPT ![p] = IF @ = "none" THEN "empty" ELSE @]
  /\ \/ /\ vols' = vols \cup {[name |-> v, path |-> p, readonly |-> ro]}
        /\ UNCHANGED snaps /\ storage_persist /\ UNCHANGED <<pc, job>>
     \/ /\ PersistError /\ UNCHANGED <<vols, snaps>>
        /\ IF volData[p] = "none" THEN Work(t, "undo", v, p, job[t].snap)
           ELSE UNCHANGED <<pc, job>>
  /\ UNCHANGED <<up, snapData, history>>

UndoCreate(t) ==
  /\ pc[t] = "undo"
  /\ volData' = Removed(job[t].path) \/ RemovalFails(job[t].path)
  /\ Goto(t, "idle")
  /\ UNCHANGED <<vols, snaps, file, up, snapData, history>>

\* Mutant: read-only volumes are deleted too.
DeleteReadonly(t, v) ==
  /\ Ready(t)
  /\ \E r \in vols : /\ r.name = v
                     /\ volData' = Removed(r.path)
                     /\ vols' = vols \ {r}
  /\ UNCHANGED snaps /\ (storage_persist \/ PersistError)
  /\ UNCHANGED <<up, snapData, pc, job, history>>

\* storage_delete_volume: the directory, then the record, then the file; a
\* failing write is reported, the rest stays done, and a directory that cannot be
\* removed keeps its record.  (The process ending between these is the failing step
\* followed by Crash.)
storage_delete_volume(t, v) ==
  /\ Ready(t) /\ UNCHANGED snaps
  /\ \E r \in vols : /\ r.name = v /\ ~r.readonly
                     /\ \/ /\ volData' = Removed(r.path) /\ vols' = vols \ {r}
                           /\ storage_persist \/ PersistError
                        \/ RemovalFails(r.path) /\ UNCHANGED <<vols, file>>
  /\ UNCHANGED <<up, snapData, pc, job, history>>

\* storage_unregister_volume: only the record.
storage_unregister_volume(t, v) ==
  /\ Ready(t)
  /\ \E r \in vols : r.name = v /\ vols' = vols \ {r}
  /\ UNCHANGED snaps /\ (storage_persist \/ PersistError)
  /\ UNCHANGED <<data, up, pc, job, history>>

-----------------------------------------------------------------------------
(* storage_snapshot_create.                                                *)

\* History: another call is making the same snapshot.
Contest(t, k) ==
  contested' = contested \cup
    {j \in {k} : \E u \in Threads \ {t} :
       pc[u] \in {"copy", "copying", "register", "discard"} /\ job[u].snap = j}

\* First section: the volume and its directory exist, the snapshot and its
\* directory do not.
SnapshotBegin(t, v, n) ==
  /\ Ready(t)
  /\ <<v, n>> \notin ToSet(snaps) /\ snapData[<<v, n>>] = "none"
  /\ \E r \in vols : r.name = v /\ volData[r.path] # "none"
                     /\ Work(t, "copy", v, r.path, <<v, n>>)
  /\ Contest(t, <<v, n>>)
  /\ UNCHANGED <<vols, snaps, file, up, data, saved, world>>

SnapDir(t, d) == snapData' = [snapData EXCEPT ![job[t].snap] = d]

\* storage_rm_rf of the snapshot's directory, whose result nobody tests here: what cannot
\* be removed stays.
SnapRemoved(t) ==
  \/ SnapDir(t, "none")
  \/ world.fails /\ snapData[job[t].snap] # "none" /\ SnapDir(t, "partial")

\* storage_copy_tree: storage_mkdir_p makes the directory and leaves one that is there
\* as it is; then each file is emptied (fopen "wb") and filled.  On an error the
\* copy is removed.  (Trees have no symbolic links, whose copy fails where one is.)
SnapshotCopy(t) ==
  LET source == volData[job[t].path]
      copy   == snapData[job[t].snap]
  IN
  /\ \/ /\ pc[t] = "copy" /\ source # "none"
        /\ SnapDir(t, IF copy = "none" THEN "partial" ELSE copy) /\ Goto(t, "copying")
     \/ /\ pc[t] = "copying" /\ source \notin {"none", "empty"}
        /\ SnapDir(t, "partial") /\ Goto(t, "copying")
     \/ /\ pc[t] = "copying" /\ source # "none"
        /\ SnapDir(t, source) /\ Goto(t, "register")
     \/ /\ pc[t] \in {"copy", "copying"}
        /\ source = "none" \/ world.fails
        /\ SnapRemoved(t) /\ Goto(t, "idle")
  /\ UNCHANGED <<vols, snaps, file, up, volData, history>>

\* Second section: if the volume is gone, the snapshot was registered by
\* another call, or the registry cannot be written, the copy is given up.
SnapshotRegister(t) ==
  /\ pc[t] = "register"
  /\ LET k == job[t].snap IN
     \/ /\ (\E r \in vols : r.name = job[t].vol) /\ k \notin ToSet(snaps)
        /\ snaps' = <<k>> \o snaps
        /\ saved' = [saved EXCEPT ![k] = snapData[k]]
        /\ UNCHANGED vols /\ storage_persist /\ Goto(t, "idle")
     \/ /\ \/ ~\E r \in vols : r.name = job[t].vol
           \/ k \in ToSet(snaps)
           \/ world.fails
        /\ Goto(t, "discard")
        /\ UNCHANGED <<vols, snaps, file, saved>>
  /\ UNCHANGED <<up, data, contested, world>>

SnapshotDiscard(t) ==
  /\ pc[t] = "discard"
  /\ SnapRemoved(t) /\ Goto(t, "idle")
  /\ UNCHANGED <<vols, snaps, file, up, volData, history>>

-----------------------------------------------------------------------------
(* Restore and delete.  A snapshot is named by its id, or by its name, which *)
(* storage_find_snapshot looks for in the snapshots of all volumes: any    *)
(* record may be the one found.                                            *)

RestoreBegin(t, i, v) ==
  /\ Ready(t)
  /\ snapData[snaps[i]] # "none"
  /\ \E r \in vols : r.name = v /\ ~r.readonly /\ volData[r.path] # "none"
                     /\ Work(t, "clear", v, r.path, snaps[i])
  /\ UNCHANGED <<vols, snaps, file, up, data, history>>

storage_snapshot_restore(t, v) == \E i \in DOMAIN snaps : RestoreBegin(t, i, v)

\* storage_dir_clear, then storage_copy_tree, which makes the target
\* directory if it is gone.
RestoreClear(t) ==
  /\ pc[t] = "clear"
  /\ LET p == job[t].path IN
     \/ /\ volData[p] # "none"
        /\ volData' = [Removed(p) EXCEPT ![p] = "empty"] /\ Goto(t, "restore")
     \/ RemovalFails(p) /\ Goto(t, "idle")
     \/ volData[p] = "none" /\ Goto(t, "idle") /\ UNCHANGED volData
  /\ UNCHANGED <<vols, snaps, file, up, snapData, history>>

RestoreCopy(t) ==
  /\ pc[t] = "restore"
  /\ LET d == snapData[job[t].snap] IN
     \/ d # "none" /\ volData' = [volData EXCEPT ![job[t].path] = d]
     \/ world.fails /\ volData' = [volData EXCEPT ![job[t].path] = "partial"]
     \/ d = "none" /\ UNCHANGED volData
  /\ Goto(t, "idle")
  /\ UNCHANGED <<vols, snaps, file, up, snapData, history>>

\* Mutant: the directory is removed although the file was not written.
DeleteAnyway(t, i) ==
  /\ Ready(t)
  /\ snaps' = RemoveAt(snaps, i) /\ UNCHANGED vols
  /\ storage_persist \/ PersistError
  /\ Work(t, "remove", job[t].vol, job[t].path, snaps[i])
  /\ UNCHANGED <<up, data, history>>

\* storage_snapshot_delete: record and file under the mutex; the directory
\* after it, and only if the file could be written.
DeleteBegin(t, i) ==
  /\ Ready(t)
  /\ snaps' = RemoveAt(snaps, i) /\ UNCHANGED vols
  /\ \/ storage_persist /\ Work(t, "remove", job[t].vol, job[t].path, snaps[i])
     \/ PersistError /\ UNCHANGED <<pc, job>>
  /\ UNCHANGED <<up, data, history>>

storage_snapshot_delete(t) == \E i \in DOMAIN snaps : DeleteBegin(t, i)

DeleteRemove(t) ==
  /\ pc[t] = "remove"
  /\ SnapRemoved(t) /\ Goto(t, "idle")
  /\ UNCHANGED <<vols, snaps, file, up, volData, history>>

-----------------------------------------------------------------------------
(* Surroundings.                                                           *)

\* An application writes into a directory that exists; applications leave
\* the directories of read-only volumes alone.
AppWrite(p, c) ==
  /\ volData[p] # "none" /\ ~\E r \in vols \cup file.vols : r.path = p /\ r.readonly
  /\ volData' = [volData EXCEPT ![p] = c]
  /\ UNCHANGED <<vols, snaps, file, up, snapData, pc, job, history>>

\* The process ends (or storage_impl_shutdown frees the registry).
Crash ==
  /\ up /\ up' = FALSE
  /\ vols' = {} /\ snaps' = <<>>
  /\ pc' = [t \in Threads |-> "idle"]
  /\ job' = [t \in Threads |-> NoJob]
  /\ UNCHANGED <<file, data, history>>

\* storage_impl_init: storage_load puts each record at the head of its list.
storage_impl_init ==
  /\ ~up /\ up' = TRUE
  /\ vols' = file.vols /\ snaps' = Reverse(file.snaps)
  /\ UNCHANGED <<file, data, pc, job, history>>

Next ==
  \/ \E t \in Threads :
       \/ \E v \in Volumes, p \in Paths, ro \in BOOLEAN : storage_create_volume(t, v, p, ro)
       \/ \E v \in Volumes : \/ storage_delete_volume(t, v) \/ storage_unregister_volume(t, v)
                             \/ storage_snapshot_restore(t, v)
                             \/ \E n \in Names : SnapshotBegin(t, v, n)
       \/ UndoCreate(t) \/ SnapshotCopy(t) \/ SnapshotRegister(t) \/ SnapshotDiscard(t)
       \/ RestoreClear(t) \/ RestoreCopy(t)
       \/ storage_snapshot_delete(t) \/ DeleteRemove(t)
  \/ \E p \in Paths, c \in Contents : AppWrite(p, c)
  \/ Crash \/ storage_impl_init

Spec == Init /\ [][Next]_vars

-----------------------------------------------------------------------------
(* Properties.                                                             *)

\* Names and directories identify volumes, and a volume has a snapshot of a
\* given name once, although snapshot_create looks, lets go of the mutex and
\* registers later, and also after a restart.
RegistryUnique ==
  /\ \A r, s \in vols : r.name = s.name \/ r.path = s.path => r = s
  /\ IsInjective(snaps) /\ IsInjective(file.snaps)

\* The directory of snapshot k has the content k was registered with.
Intact(k) == snapData[k] = saved[k] /\ saved[k] # "none"

\* Every snapshot that is registered, in memory or in the file a restart will
\* read, is intact, whatever fails, whoever deletes or restores meanwhile and
\* wherever the process ends, unless two calls of storage_snapshot_create
\* have been making it at the same time.
SnapshotsIntact == \A k \in (ToSet(snaps) \cup ToSet(file.snaps)) \ contested : Intact(k)

\* As the comment of the second section would have it, a call that loses gives up its own
\* product: the directory of a snapshot that another call has registered stays.
LoserGivesUpOwn ==
  [][\A t \in Threads :
       pc[t] = "discard" /\ job[t].snap \in ToSet(snaps) =>
         snapData'[job[t].snap] = snapData[job[t].snap]]_vars

\* With one caller, the plugin never touches the data of a read-only volume
\* (storage.h: it is neither deleted nor restored into), whatever fails and
\* whatever happens to the other volumes, unless its directory lies inside
\* that of another volume.
ReadonlyKept ==
  [][\A r \in vols : /\ r.readonly /\ \E t \in Threads : world.callers = {t}
                     /\ \A p \in Paths : r.path \notin Inside[p]
       => volData'[r.path] = volData[r.path]]_vars

\* The registry between the sections of every call: typed, each name once, and
\* every snapshot on record with the data it was made of.
StorageSound == TypeOK /\ RegistryUnique /\ SnapshotsIntact
=============================================================================

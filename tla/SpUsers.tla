------------------------------ MODULE SpUsers ------------------------------
(***************************************************************************)
(* sp_auth.c: the user table of the SP plugin, a list under g_sp_ctx.lock, *)
(* and the file sp_users.conf it is saved to.  A change is one section     *)
(* under the lock; the save after it takes the lock again and writes       *)
(* sp_users.conf.tmp, whose name all threads share, outside the lock.      *)
(* Files are modelled as inodes: fopen("w") truncates the inode the name   *)
(* has, and a stream keeps writing to its inode after a rename.            *)
(*                                                                         *)
(* A line of the file is a table entry; lines have one length (user names  *)
(* and role lists of equal length), so a table flushed over a longer one   *)
(* leaves the last lines of the longer one.  A user's salted hash stands   *)
(* for its password: salts differ and hashes do not collide.               *)
(***************************************************************************)
EXTENDS Callers, Naturals, Sequences, SequencesExt

CONSTANTS Users,
          Accounts,   \* user -> what an add asks for: [pw, roles, enabled]
          Passwords,  \* passwords tried
          Requests,   \* actions asked for in a check
          Matrix,     \* sp_role_matrix: role -> set of permissions
          Covers,     \* permission -> requests sp_perm_match accepts
          MaxTable    \* bound: entries in the table

NOENTRY == "none"
FREED == "freed"     \* a pointer to an entry that was freed
Inodes == 1 .. 4      \* tmp, conf and one stream per thread: never more in use

ASSUME SpUsersAssumption ==
  /\ \A u \in Users : \A a \in Accounts[u] : a.pw \in Passwords /\ a.enabled \in BOOLEAN
  /\ Matrix \in [DOMAIN Matrix -> SUBSET DOMAIN Covers]
  /\ MaxTable \in Nat

VARIABLES users,      \* g_sp_ctx.users, the head first
          inode,      \* lines of each inode
          tmp, conf,  \* the inodes named sp_users.conf.tmp and sp_users.conf
          call,       \* per thread: the call in progress
          acked,      \* history: the lines of the last save that reported success
          failed,     \* history: the save of the last change reported EIO
          overlap     \* history: two saves have overlapped

disk == <<inode, tmp, conf>>
userHistory == <<acked, failed, overlap>>
userVars == <<users, disk, call, userHistory>>

Idle == [pc |-> "idle", fd |-> 0, buf |-> <<>>, entry |-> NOENTRY]
Saving(t) == call[t].pc \in {"open", "table", "close", "rename"}

\* sp_user_find_locked: the first entry of that name.
Named(table, u) == {i \in DOMAIN table : table[i].user = u}
FindUser(table, u) == CHOOSE i \in Named(table, u) : \A j \in Named(table, u) : i <= j

EndCall(t) == call' = [call EXCEPT ![t] = Idle]

UsersInit ==
  /\ users = <<>> /\ inode = [i \in Inodes |-> <<>>]
  /\ tmp = 0 /\ conf = 0
  /\ call = [t \in Threads |-> Idle]
  /\ acked = <<>> /\ failed = FALSE /\ overlap = FALSE

-----------------------------------------------------------------------------
(* Changes of the table; a refused call changes nothing and is a stutter.  *)

\* A change is followed by sp_users_save; it overlaps with a save under way.
ThenSave(t) ==
  /\ overlap' = (overlap \/ \E s \in Threads \ {t} : Saving(s))
  /\ UNCHANGED <<acked, failed>>

\* Bound: no change begins once two saves have overlapped.
Begins(t) == call[t].pc = "idle" /\ ~overlap

\* sp_add_user, for a name the table does not have.
AddUser(t, u, a) ==
  /\ Begins(t) /\ Named(users, u) = {}
  /\ Len(users) < MaxTable
  /\ users' = <<[user |-> u, pw |-> a.pw, enabled |-> a.enabled,
               roles |-> IF a.roles = <<>> THEN <<"viewer">> ELSE a.roles]>> \o users
  /\ call' = [call EXCEPT ![t].pc = "open"]
  /\ ThenSave(t)
  /\ UNCHANGED disk

\* sp_del_user: unlinks and frees the first entry of that name, which is
\* the one sp_authenticate in another thread may have found.
DelUser(t, u) ==
  /\ Begins(t) /\ Named(users, u) # {}
  /\ users' = RemoveAt(users, FindUser(users, u))
  /\ call' = [s \in Threads |->
                 IF s = t THEN [call[s] EXCEPT !.pc = "open"]
                 ELSE IF call[s].entry = u THEN [call[s] EXCEPT !.entry = FREED]
                 ELSE call[s]]
  /\ ThenSave(t)
  /\ UNCHANGED disk

-----------------------------------------------------------------------------
(* sp_users_save.                                                          *)

InUse == ({tmp, conf} \cup {call[t].fd : t \in Threads}) \cap Inodes

\* A save that reports EIO: the change stays in memory.
SaveFails(t) == EndCall(t) /\ failed' = TRUE /\ UNCHANGED <<acked, overlap>>

\* A name is removed; an inode without a name or a stream is empty here.
Forget(i) == inode' = [n \in Inodes |-> IF n = i THEN <<>> ELSE inode[n]]
Unlink == tmp' = 0 /\ Forget(tmp)

\* fopen(tmp, "w"): the name's inode emptied, or a new one.
SaveOpen(t) ==
  /\ call[t].pc = "open"
  /\ \/ Faults /\ SaveFails(t) /\ UNCHANGED <<inode, tmp>>
     \/ LET i == IF tmp # 0 THEN tmp ELSE CHOOSE n \in Inodes : n \notin InUse
        IN /\ inode' = [inode EXCEPT ![i] = <<>>]
           /\ tmp' = i
           /\ call' = [call EXCEPT ![t].pc = "table", ![t].fd = i]
           /\ UNCHANGED userHistory
  /\ UNCHANGED <<conf, users>>

\* The table, under the lock, into the stream's buffer.
SaveTable(t) ==
  /\ call[t].pc = "table"
  /\ call' = [call EXCEPT ![t].pc = "close", ![t].buf = users]
  /\ UNCHANGED <<users, disk, userHistory>>

\* The buffer over the beginning of the inode, where the stream stands.
Flushed(old, buf) == buf \o SubSeq(old, Len(buf) + 1, Len(old))

\* Mutant: the result of fclose is not looked at.
SaveCloseUnchecked(t) ==
  /\ call[t].pc = "close"
  /\ \/ Faults /\ UNCHANGED inode
     \/ inode' = [inode EXCEPT ![call[t].fd] = Flushed(@, call[t].buf)]
  /\ call' = [call EXCEPT ![t].pc = "rename", ![t].fd = 0]
  /\ UNCHANGED <<tmp, conf, users, userHistory>>

\* fclose: writes the buffer, or fails and the temporary file is removed.
SaveClose(t) ==
  /\ call[t].pc = "close"
  /\ \/ Faults /\ SaveFails(t) /\ Unlink
     \/ /\ inode' = [inode EXCEPT ![call[t].fd] = Flushed(@, call[t].buf)]
        /\ call' = [call EXCEPT ![t].pc = "rename", ![t].fd = 0]
        /\ UNCHANGED <<tmp, userHistory>>
  /\ UNCHANGED <<conf, users>>

\* rename over sp_users.conf; when it fails, unlink of the temporary file.
SaveRename(t) ==
  /\ call[t].pc = "rename"
  /\ \/ (Faults \/ tmp = 0) /\ SaveFails(t) /\ Unlink /\ UNCHANGED conf
     \/ /\ tmp # 0 /\ conf' = tmp /\ tmp' = 0 /\ Forget(conf)
        /\ EndCall(t) /\ acked' = call[t].buf /\ failed' = FALSE /\ UNCHANGED overlap
  /\ UNCHANGED users

-----------------------------------------------------------------------------
(* Queries.                                                                *)

\* sp_authenticate, under the lock: the entry of that name.
Lookup(t, u) ==
  /\ call[t].pc = "idle" /\ Named(users, u) # {}
  /\ call' = [call EXCEPT ![t].pc = "check", ![t].entry = u]
  /\ UNCHANGED <<users, disk, userHistory>>

\* What sp_authenticate compares: an enabled entry, the hash of its password.
Accepts(e, p) == e.enabled /\ e.pw = p

\* After the unlock the entry is read through its pointer, freed or not: a
\* session or EBADCRED, neither changes the table.
Check(t) ==
  /\ call[t].pc = "check"
  /\ EndCall(t)
  /\ UNCHANGED <<users, disk, userHistory>>

\* sp_check_acl and sp_authorize: some role of the user's entry has a
\* permission for the request.  The enabled flag is not looked at.
Allowed(table, u, request) ==
  /\ Named(table, u) # {}
  /\ \E role \in ToSet(table[FindUser(table, u)].roles) \cap DOMAIN Matrix :
       \E p \in Matrix[role] : request \in Covers[p]

-----------------------------------------------------------------------------
\* Mutant: the enabled flag is not read back.
LoadedEnabled ==
  IF conf = 0 THEN <<>>
  ELSE Reverse([i \in DOMAIN inode[conf] |-> [inode[conf][i] EXCEPT !.enabled = TRUE]])

\* sp_users_load: each line is put at the head of the list.
Loaded == IF conf = 0 THEN <<>> ELSE Reverse(inode[conf])

\* The process ends, by sp_destroy or at any point of the calls in progress,
\* and starts again.  A temporary file that was left stays.
RestartUsers ==
  /\ users' = Loaded
  /\ call' = [t \in Threads |-> Idle]
  /\ failed' = FALSE
  /\ UNCHANGED <<disk, acked, overlap>>

UsersNext ==
  \/ \E t \in Threads, u \in Users :
       \/ \E a \in Accounts[u] : AddUser(t, u, a)
       \/ DelUser(t, u)
       \/ Lookup(t, u)
  \/ \E t \in Threads : SaveOpen(t) \/ SaveTable(t) \/ SaveClose(t) \/ SaveRename(t) \/ Check(t)
  \/ RestartUsers

UsersSpec == UsersInit /\ [][UsersNext]_userVars

-----------------------------------------------------------------------------
UsersTypeOK ==
  /\ \A i \in DOMAIN users : /\ users[i].user \in Users /\ users[i].pw \in Passwords
                            /\ users[i].enabled \in BOOLEAN /\ users[i].roles # <<>>
  /\ Len(users) <= MaxTable + 1
  /\ tmp \in 0 .. 4 /\ conf \in 0 .. 4 /\ (tmp = conf => tmp = 0)
  /\ \A t \in Threads : call[t].pc \in {"idle", "open", "table", "close", "rename", "check"}
  /\ failed \in BOOLEAN /\ overlap \in BOOLEAN

\* No save is under way and the last one succeeded.
UsersSettled == ~failed /\ \A t \in Threads : ~Saving(t)

\* sp_users_save, as long as no two saves overlap: the file is at any moment,
\* in the middle of a save and after a crash in one too, the whole table of the
\* last save that reported success, and when no save is under way or has failed
\* it is the table in memory.
TableDurable ==
  /\ UsersTypeOK
  /\ ~overlap =>
    /\ acked = IF conf = 0 THEN <<>> ELSE inode[conf]
    /\ UsersSettled => ToSet(users) = ToSet(acked)

\* sp_users_load after sp_users_save, as long as no two saves overlap: a restart
\* leaves to every user the passwords it is authenticated with and the requests
\* it is authorized for, though the list comes back in the other order.
RestartKeepsRights ==
  [][ (RestartUsers /\ UsersSettled /\ ~overlap) =>
      \A u \in Users :
        /\ \A p \in Passwords :
             (\E i \in Named(users, u) : Accepts(users[i], p) /\ i = FindUser(users, u))
               <=> (\E i \in Named(users', u) : Accepts(users'[i], p) /\ i = FindUser(users', u))
        /\ \A r \in Requests : Allowed(users, u, r) <=> Allowed(users', u, r) ]_userVars

\* sp_authenticate reads its entry after the unlock; sp.h says that a failed
\* operation returns an error code and never crashes, so the entry must still
\* be in the table.
EntryStillThere ==
  \A t \in Threads : call[t].entry # FREED
=============================================================================

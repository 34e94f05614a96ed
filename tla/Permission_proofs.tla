-------------------------- MODULE Permission_proofs --------------------------
(* Proofs about permission_impl.c for any threads, roles, subjects and      *)
(* patterns, and about what is decided by looking at a text or a file: the  *)
(* rules of matching, for any texts and versions, and what the loader makes *)
(* of any well formed image.                                                *)
EXTENDS Permission, Matching, Executables, ListFacts, FiniteSetTheorems, TLAPS

\* The policy part of the type invariant, without the bounds, and the records
\* of revisions.
Shape ==
  /\ mem \in Policy
  /\ files \in [Paths -> Policy]
  /\ path \in Paths \cup {NOPATH}
  /\ up \in BOOLEAN /\ detached \in BOOLEAN
  /\ pc \in [Threads -> {"idle", "autosave"}]
  /\ mine \in [Threads -> Nat] /\ rev \in Nat /\ acked \in Nat
  /\ fileRev \in [Paths -> Nat]

\* No binding of the policy is for a role it does not have.
Bound(f) == \A g \in f.grants : g[2] \in f.roles

\* A process that has read nothing has a policy without bindings.
LEMMA EmptyClosed == Empty \in Policy /\ Bound(Empty)
BY DEF Empty, Policy, Entry, Bound

\* What state_read_locked makes of a file is a policy without dangling
\* bindings, whatever the file holds.
LEMMA ParsedClosed ==
  ASSUME NEW f \in Policy PROVE Parsed(f) \in Policy /\ Bound(Parsed(f))
<1>1. ASSUME NEW e \in Entry PROVE [e EXCEPT !.resource = Trim[e.resource]] \in Entry
  BY PermissionAssumption DEF Entry
<1>2. ASSUME NEW r \in Roles
      PROVE (IF r \in f.roles
             THEN {[e EXCEPT !.resource = Trim[e.resource]] : e \in f.perms[r]}
             ELSE {}) \in SUBSET Entry
  BY <1>1 DEF Policy
<1>3. QED
  BY <1>2 DEF Parsed, Policy, Bound

\* The later of two revisions is one of them and not before either.
LEMMA LaterRevision ==
  ASSUME NEW a \in Nat, NEW b \in Nat
  PROVE  Max({a, b}) \in {a, b} /\ Max({a, b}) >= a /\ Max({a, b}) >= b
<1>1. \E x \in {a, b} : \A y \in {a, b} : x >= y
  <2>1. CASE a >= b
    BY <2>1
  <2>2. CASE b >= a
    BY <2>2
  <2>3. QED
    BY <2>1, <2>2
<1>2. QED
  BY <1>1 DEF Max

-----------------------------------------------------------------------------
\* The revisions: nothing runs ahead of the policy in memory, and while the
\* default file is told to follow the memory, it is the file being written and
\* it holds everything reported as done.
Revisions ==
  /\ \A t \in Threads : mine[t] <= rev
  /\ acked <= rev
  /\ up /\ ~detached => path = DEFAULT /\ acked <= fileRev[DEFAULT]

PInv == Shape /\ NoDangling /\ Revisions

\* The state before hw_permission_state_open first runs is in the invariant.
LEMMA PInvInit == Init => PInv
<1> SUFFICES ASSUME Init PROVE PInv
  OBVIOUS
<1>1. Shape
  BY EmptyClosed DEF Init, Shape
<1>2. NoDangling
  BY EmptyClosed DEF Init, NoDangling, Bound
<1>3. Revisions
  BY DEF Init, Revisions
<1>4. QED
  BY <1>1, <1>2, <1>3 DEF PInv

\* The first section of every operation that changes the policy: given a
\* policy without dangling bindings it keeps the invariant, as no file and no
\* report changes and the new revision is the latest.
LEMMA ChangeKeeps ==
  ASSUME PInv, NEW t \in Threads, NEW f \in Policy, Bound(f), Change(t, f)
  PROVE  PInv'
<1>1. Shape'
  BY DEF PInv, Shape, Change, disk
<1>2. NoDangling'
  BY DEF Change, NoDangling, Bound
<1>3. Revisions'
  BY PermissionAssumption DEF PInv, Shape, Revisions, Change, disk
<1>4. QED
  BY <1>1, <1>2, <1>3 DEF PInv

\* autosave_state, the second section: a report made after the write is in the
\* file, since the write takes the latest revision and not the caller's own.
LEMMA AutosaveKeeps ==
  ASSUME PInv, NEW t \in Threads, autosave_state(t) PROVE PInv'
<1>1. acked' \in Nat /\ acked' <= rev
  BY LaterRevision DEF PInv, Shape, Revisions, autosave_state, Returned
<1>2. CASE path = NOPATH /\ UNCHANGED <<disk, detached>>
  <2>1. ~(up' /\ ~detached')
    BY <1>2, PermissionAssumption DEF PInv, Revisions, autosave_state
  <2>2. QED
    BY <1>1, <1>2, <2>1 DEF PInv, Shape, NoDangling, Revisions, autosave_state, Returned, disk
<1>3. CASE /\ path # NOPATH /\ state_write_locked(path)
           /\ detached' = (detached /\ path # DEFAULT)
  <2>1. path \in Paths
    BY <1>3 DEF PInv, Shape
  <2>2. Shape'
    BY <1>1, <1>3, <2>1 DEF PInv, Shape, autosave_state, Returned, state_write_locked
  <2>3. up' /\ ~detached' => path' = DEFAULT /\ acked' <= fileRev'[DEFAULT]
    BY <1>1, <1>3, <2>1 DEF PInv, Shape, Revisions, autosave_state, state_write_locked
  <2>4. QED
    BY <1>1, <2>2, <2>3 DEF PInv, NoDangling, Revisions, autosave_state
<1>4. CASE path # NOPATH /\ WriteFails /\ detached' = TRUE /\ UNCHANGED disk
  BY <1>1, <1>4 DEF PInv, Shape, NoDangling, Revisions, autosave_state, Returned, disk
<1>5. QED
  BY <1>2, <1>3, <1>4 DEF autosave_state

\* Every step of the plugin, of its callers and of a crash keeps the invariant.
LEMMA PInvStep == PInv /\ [Next]_vars => PInv'
<1> SUFFICES ASSUME PInv, [Next]_vars PROVE PInv'
  OBVIOUS
<1>0. mem \in Policy /\ Bound(mem)
  BY DEF PInv, Shape, NoDangling, Bound
<1>1. CASE UNCHANGED vars
  BY <1>1 DEF vars, PInv, Shape, NoDangling, Revisions
<1>2. ASSUME NEW t \in Threads, NEW r \in Roles, ops_role_add(t, r) PROVE PInv'
  <2> DEFINE f == [mem EXCEPT !.roles = @ \cup {r}, !.perms[r] = {}]
  <2>1. f \in Policy /\ Bound(f)
    BY <1>0, <1>2 DEF Policy, Bound, ops_role_add
  <2>2. Change(t, f)
    BY <1>2 DEF ops_role_add
  <2>3. QED
    BY <2>1, <2>2, ChangeKeeps
<1>3. ASSUME NEW t \in Threads, NEW r \in Roles, ops_role_remove(t, r) PROVE PInv'
  <2> DEFINE f == [mem EXCEPT !.roles = @ \ {r}, !.perms[r] = {},
                           !.grants = {g \in @ : g[2] # r}]
  <2>1. f \in Policy /\ Bound(f)
    BY <1>0, <1>3 DEF Policy, Bound, ops_role_remove
  <2>2. Change(t, f)
    BY <1>3 DEF ops_role_remove
  <2>3. QED
    BY <2>1, <2>2, ChangeKeeps
<1>4. ASSUME NEW t \in Threads, NEW r \in Roles, NEW e \in Entry, ops_role_add_perm(t, r, e) PROVE PInv'
  <2> DEFINE f == [mem EXCEPT !.perms[r] = @ \cup {e}]
  <2>1. f \in Policy /\ Bound(f)
    BY <1>0, <1>4 DEF Policy, Bound, ops_role_add_perm
  <2>2. Change(t, f)
    BY <1>4 DEF ops_role_add_perm
  <2>3. QED
    BY <2>1, <2>2, ChangeKeeps
<1>5. ASSUME NEW t \in Threads, NEW r \in Roles, NEW e \in Entry, ops_role_remove_perm(t, r, e) PROVE PInv'
  <2> DEFINE f == [mem EXCEPT !.perms[r] = @ \ {e}]
  <2>1. f \in Policy /\ Bound(f)
    BY <1>0, <1>5 DEF Policy, Bound, ops_role_remove_perm
  <2>2. Change(t, f)
    BY <1>5 DEF ops_role_remove_perm
  <2>3. QED
    BY <2>1, <2>2, ChangeKeeps
<1>6. ASSUME NEW t \in Threads, NEW r \in Roles, NEW s \in Subjects, ops_grant(t, s, r) PROVE PInv'
  <2> DEFINE f == [mem EXCEPT !.grants = @ \cup {<<s, r>>}]
  <2>1. f \in Policy /\ Bound(f)
    BY <1>0, <1>6 DEF Policy, Bound, ops_grant
  <2>2. Change(t, f)
    BY <1>6 DEF ops_grant
  <2>3. QED
    BY <2>1, <2>2, ChangeKeeps
<1>7. ASSUME NEW t \in Threads, NEW r \in Roles, NEW s \in Subjects, ops_revoke(t, s, r) PROVE PInv'
  <2> DEFINE f == [mem EXCEPT !.grants = @ \ {<<s, r>>}]
  <2>1. f \in Policy /\ Bound(f)
    BY <1>0, <1>7 DEF Policy, Bound, ops_revoke
  <2>2. Change(t, f)
    BY <1>7 DEF ops_revoke
  <2>3. QED
    BY <2>1, <2>2, ChangeKeeps
<1>8. ASSUME NEW t \in Threads, NEW p \in Paths \cup {NOPATH}, ops_set_state_file(t, p)
      PROVE  PInv'
  BY <1>8 DEF ops_set_state_file, PInv, Shape, NoDangling, Revisions, disk
<1>9. ASSUME NEW t \in Threads, NEW p \in Paths, ops_save(t, p) PROVE PInv'
  <2>1. Shape' /\ NoDangling'
    BY <1>9 DEF ops_save, state_write_locked, PInv, Shape, NoDangling
  <2>2. Revisions'
    BY <1>9 DEF ops_save, state_write_locked, PInv, Shape, Revisions
  <2>3. QED
    BY <2>1, <2>2 DEF PInv
<1>10. ASSUME NEW t \in Threads, NEW p \in Paths, ops_load(t, p) PROVE PInv'
  <2>1. mem' \in Policy /\ Bound(mem')
    BY <1>10, ParsedClosed DEF ops_load, PInv, Shape
  <2>2. QED
    BY <1>10, <2>1 DEF ops_load, PInv, Shape, NoDangling, Bound, Revisions, disk
<1>11. ASSUME NEW t \in Threads, autosave_state(t) PROVE PInv'
  BY <1>11, AutosaveKeeps
<1>12. CASE hw_permission_state_open
  <2>1. mem' \in Policy /\ Bound(mem')
    BY <1>0, <1>12, ParsedClosed, PermissionAssumption DEF hw_permission_state_open, PInv, Shape
  <2>2. Shape' /\ NoDangling'
    BY <1>12, <2>1, PermissionAssumption
    DEF hw_permission_state_open, PInv, Shape, NoDangling, Bound
  <2>3. Revisions'
    BY <1>12, PermissionAssumption DEF hw_permission_state_open, PInv, Shape, Revisions
  <2>4. QED
    BY <2>2, <2>3 DEF PInv
<1>13. ASSUME hw_permission_state_close \/ Crash PROVE PInv'
  <2>1. Shape'
    BY <1>13, EmptyClosed DEF hw_permission_state_close, Crash, PInv, Shape, disk
  <2>2. NoDangling'
    BY <1>13, EmptyClosed DEF hw_permission_state_close, Crash, NoDangling, Bound
  <2>3. Revisions'
    BY <1>13 DEF hw_permission_state_close, Crash, PInv, Revisions, disk
  <2>4. QED
    BY <2>1, <2>2, <2>3 DEF PInv
<1>14. ASSUME NEW t \in Threads, Operation(t) PROVE PInv'
  BY <1>2, <1>3, <1>4, <1>5, <1>6, <1>7, <1>8, <1>9, <1>10, <1>14 DEF Operation
<1>15. QED
  BY <1>1, <1>11, <1>12, <1>13, <1>14 DEF Next

\* The invariant holds in every reachable state, for any number of threads,
\* roles, subjects and patterns and however often the process is restarted.
THEOREM PermissionInvariant == Spec => []PInv
BY PInvInit, PInvStep, PTL DEF Spec

\* No binding outlives its role: role_remove takes the bindings with it, and
\* reading a state file drops what has no role.
THEOREM PermissionNoDangling == Spec => []NoDangling
<1>1. PInv => NoDangling
  BY DEF PInv
<1>2. QED
  BY <1>1, PermissionInvariant, PTL

\* What an operation reported as done is in the state file, whichever thread's
\* autosave_state ran in between.
THEOREM PermissionAckedDurable == Spec => []AckedDurable
<1>1. PInv => AckedDurable
  BY DEF PInv, Revisions, AckedDurable
<1>2. QED
  BY <1>1, PermissionInvariant, PTL
-----------------------------------------------------------------------------
(* What the arrays hold, and what a state file gives back.                 *)

\* A role's entries fit in its array of PermMax entries.
Fits(f) ==
  \A r \in Roles : IsFiniteSet(f.perms[r]) /\ Cardinality(f.perms[r]) <= PermMax

\* The policy in memory and the policies in the files fit in the arrays, and
\* the files that exist are those that were asked for.
Arrays ==
  /\ Fits(mem) /\ \A p \in Paths : Fits(files[p])
  /\ exists \subseteq Paths
  /\ rev <= ChangeMax
  /\ \A p \in Paths : fileRev[p] <= ChangeMax

\* One entry more, where there was a free place, fits.
LEMMA OneMore ==
  ASSUME NEW S, IsFiniteSet(S), Cardinality(S) < PermMax, NEW e
  PROVE  IsFiniteSet(S \cup {e}) /\ Cardinality(S \cup {e}) <= PermMax
<1>1. Cardinality(S) \in Nat /\ PermMax \in Nat
  BY FS_CardinalityType, PermissionAssumption
<1>2. IsFiniteSet(S \cup {e}) /\ (\/ Cardinality(S \cup {e}) = Cardinality(S)
                                 \/ Cardinality(S \cup {e}) = Cardinality(S) + 1)
  BY FS_AddElement
<1>3. QED
  BY <1>1, <1>2

\* One entry less fits.
LEMMA OneLess ==
  ASSUME NEW S, IsFiniteSet(S), Cardinality(S) <= PermMax, NEW e
  PROVE  IsFiniteSet(S \ {e}) /\ Cardinality(S \ {e}) <= PermMax
<1>1. Cardinality(S) \in Nat /\ PermMax \in Nat
  BY FS_CardinalityType, PermissionAssumption
<1>2. QED
  BY <1>1, FS_RemoveElement

\* A new process has a policy that fits.
LEMMA EmptyFits == Fits(Empty)
BY FS_EmptySet, PermissionAssumption DEF Fits, Empty

\* Trimming the entries of a role makes no more of them: what fitted when it
\* was written fits when state_read_locked reads it.
LEMMA ParsedFits ==
  ASSUME NEW f \in Policy, Fits(f) PROVE Fits(Parsed(f))
<1> SUFFICES ASSUME NEW r \in Roles
             PROVE  /\ IsFiniteSet(Parsed(f).perms[r])
                    /\ Cardinality(Parsed(f).perms[r]) <= PermMax
  BY DEF Fits
<1> DEFINE Old == f.perms[r]
           New == {[e EXCEPT !.resource = Trim[e.resource]] : e \in Old}
           trim == [e \in Old |-> [e EXCEPT !.resource = Trim[e.resource]]]
<1>1. IsFiniteSet(Old) /\ Cardinality(Old) <= PermMax /\ Cardinality(Old) \in Nat
  BY FS_CardinalityType DEF Fits
<1>2. trim \in Surjection(Old, New)
  <2>1. trim \in [Old -> New]
    OBVIOUS
  <2>2. \A y \in New : \E e \in Old : trim[e] = y
    OBVIOUS
  <2>3. QED
    BY <2>1, <2>2 DEF Surjection
<1>3. IsFiniteSet(New) /\ Cardinality(New) <= Cardinality(Old) /\ Cardinality(New) \in Nat
  <2> HIDE DEF Old, New, trim
  <2>1. QED
    BY <1>1, <1>2, FS_Surjection, FS_CardinalityType
<1>4. CASE r \in f.roles
  <2>1. Parsed(f).perms[r] = New
    BY <1>4 DEF Parsed
  <2> HIDE DEF Old, New, trim
  <2>2. QED
    BY <1>1, <1>3, <2>1, PermissionAssumption
<1>5. CASE r \notin f.roles
  <2>1. Parsed(f).perms[r] = {}
    BY <1>5 DEF Parsed
  <2>2. QED
    BY <2>1, FS_EmptySet, PermissionAssumption
<1>6. QED
  BY <1>4, <1>5

\* Reading a policy back gives the decisions of the policy that was written, if
\* its patterns are plain: an entry comes back as it is, and a role or a binding
\* that does not come back decided nothing.
LEMMA ReadsBack ==
  ASSUME NEW f \in Policy, Plain(f) PROVE Decisions(Parsed(f)) = Decisions(f)
<1>1. ASSUME NEW r \in f.roles PROVE Parsed(f).perms[r] = f.perms[r]
  <2>1. r \in Roles /\ f.perms[r] \subseteq Entry
    BY DEF Policy
  <2>2. Parsed(f).perms[r] = {[e EXCEPT !.resource = Trim[e.resource]] : e \in f.perms[r]}
    BY <2>1 DEF Parsed
  <2>3. \A e \in f.perms[r] : [e EXCEPT !.resource = Trim[e.resource]] = e
    BY <2>1 DEF Plain, Entry
  <2>4. QED
    BY <2>2, <2>3
<1>2. Parsed(f).roles = f.roles /\ Parsed(f).grants = {g \in f.grants : g[2] \in f.roles}
  BY DEF Parsed
<1>3. ASSUME NEW s, NEW a, NEW x PROVE ops_check(Parsed(f), s, a, x) <=> ops_check(f, s, a, x)
  BY <1>1, <1>2 DEF ops_check
<1>4. QED
  BY <1>3 DEF Decisions

\* The first section of an operation, given a policy that fits.
LEMMA ChangeFits ==
  ASSUME PInv, Arrays, NEW t \in Threads, NEW f \in Policy, Fits(f), Change(t, f)
  PROVE  Arrays'
BY PermissionAssumption DEF Change, Arrays, Fits, disk, PInv, Shape

\* Every step keeps what the arrays can hold: ops_role_add_perm asks for a free
\* place, and reading a file is no way around it.
LEMMA ArraysStep == PInv /\ Arrays /\ [Next]_vars => Arrays'
<1> SUFFICES ASSUME PInv, Arrays, [Next]_vars PROVE Arrays'
  OBVIOUS
<1>0. /\ mem \in Policy /\ files \in [Paths -> Policy] /\ rev \in Nat
      /\ fileRev \in [Paths -> Nat] /\ path \in Paths \cup {NOPATH}
      /\ Fits(mem) /\ \A p \in Paths : Fits(files[p])
  BY DEF PInv, Shape, Arrays
<1>p. PermMax \in Nat /\ IsFiniteSet({}) /\ Cardinality({}) <= PermMax
  BY FS_EmptySet, PermissionAssumption
<1>1. CASE UNCHANGED vars
  BY <1>1 DEF vars, Arrays, Fits
<1>2. ASSUME NEW t \in Threads, NEW r \in Roles, ops_role_add(t, r) PROVE Arrays'
  <2> DEFINE f == [mem EXCEPT !.roles = @ \cup {r}, !.perms[r] = {}]
  <2>1. /\ f \in Policy
        /\ \A q \in Roles : f.perms[q] \in {mem.perms[q], {}}
    BY <1>0 DEF Policy
  <2>2. Fits(f)
    BY <1>0, <1>p, <2>1 DEF Fits
  <2>3. Change(t, f)
    BY <1>2 DEF ops_role_add
  <2> HIDE DEF f
  <2>4. QED
    BY <2>1, <2>2, <2>3, ChangeFits
<1>3. ASSUME NEW t \in Threads, NEW r \in Roles, ops_role_remove(t, r) PROVE Arrays'
  <2> DEFINE f == [mem EXCEPT !.roles = @ \ {r}, !.perms[r] = {},
                           !.grants = {g \in @ : g[2] # r}]
  <2>1. /\ f \in Policy
        /\ \A q \in Roles : f.perms[q] \in {mem.perms[q], {}}
    BY <1>0 DEF Policy
  <2>2. Fits(f)
    BY <1>0, <1>p, <2>1 DEF Fits
  <2>3. Change(t, f)
    BY <1>3 DEF ops_role_remove
  <2> HIDE DEF f
  <2>4. QED
    BY <2>1, <2>2, <2>3, ChangeFits
<1>4. ASSUME NEW t \in Threads, NEW r \in Roles, NEW e \in Entry, ops_role_add_perm(t, r, e)
      PROVE  Arrays'
  <2> DEFINE f == [mem EXCEPT !.perms[r] = @ \cup {e}]
  <2>1. IsFiniteSet(mem.perms[r]) /\ Cardinality(mem.perms[r]) < PermMax
    BY <1>0, <1>4 DEF Fits, ops_role_add_perm
  <2>2. IsFiniteSet(mem.perms[r] \cup {e}) /\ Cardinality(mem.perms[r] \cup {e}) <= PermMax
    BY <1>p, <2>1, OneMore
  <2>3. f \in Policy /\ Fits(f)
    BY <1>0, <2>2 DEF Policy, Fits
  <2>4. QED
    BY <1>4, <2>3, ChangeFits DEF ops_role_add_perm
<1>5. ASSUME NEW t \in Threads, NEW r \in Roles, NEW e \in Entry, ops_role_remove_perm(t, r, e)
      PROVE  Arrays'
  <2> DEFINE f == [mem EXCEPT !.perms[r] = @ \ {e}]
  <2>1. IsFiniteSet(mem.perms[r]) /\ Cardinality(mem.perms[r]) <= PermMax
    BY <1>0 DEF Fits
  <2>2. IsFiniteSet(mem.perms[r] \ {e}) /\ Cardinality(mem.perms[r] \ {e}) <= PermMax
    BY <2>1, OneLess
  <2>3. f \in Policy /\ Fits(f)
    BY <1>0, <2>2 DEF Policy, Fits
  <2>4. QED
    BY <1>5, <2>3, ChangeFits DEF ops_role_remove_perm
<1>6. ASSUME NEW t \in Threads, NEW r \in Roles, NEW s \in Subjects,
             ops_grant(t, s, r) \/ ops_revoke(t, s, r)
      PROVE  Arrays'
  <2> DEFINE f == [mem EXCEPT !.grants = @ \cup {<<s, r>>}]
             g == [mem EXCEPT !.grants = @ \ {<<s, r>>}]
  <2>1. f \in Policy /\ f.perms = mem.perms
    BY <1>0, SMTT(60) DEF Policy
  <2>2. g \in Policy /\ g.perms = mem.perms
    <3>1. mem.grants \ {<<s, r>>} \subseteq Subjects \X Roles
      BY <1>0 DEF Policy
    <3>2. QED
      BY <1>0, <3>1 DEF Policy
  <2>3. Fits(f) /\ Fits(g)
    BY <1>0, <2>1, <2>2 DEF Fits
  <2>4. Change(t, f) \/ Change(t, g)
    BY <1>6 DEF ops_grant, ops_revoke
  <2> HIDE DEF f, g
  <2>5. QED
    BY <2>1, <2>2, <2>3, <2>4, ChangeFits
<1>7. ASSUME NEW t \in Threads, NEW p \in Paths \cup {NOPATH}, ops_set_state_file(t, p)
      PROVE  Arrays'
  BY <1>7 DEF ops_set_state_file, Arrays, Fits, disk
<1>8. ASSUME NEW p \in Paths, state_write_locked(p), UNCHANGED <<mem, rev>> PROVE Arrays'
  BY <1>0, <1>8 DEF state_write_locked, Arrays, Fits
<1>9. ASSUME NEW t \in Threads, NEW p \in Paths, ops_load(t, p) PROVE Arrays'
  <2>1. Fits(Parsed(files[p])) /\ files[p] \in Policy
    BY <1>0, ParsedFits
  <2>2. Fits(mem)' /\ rev' <= ChangeMax
    BY <1>0, <1>9, <2>1, PermissionAssumption DEF ops_load, Fits
  <2>3. QED
    BY <1>9, <2>2 DEF ops_load, Arrays, Fits, disk
<1>10. ASSUME NEW t \in Threads, autosave_state(t) PROVE Arrays'
  <2>1. CASE path # NOPATH /\ state_write_locked(path)
    BY <1>0, <1>8, <1>10, <2>1 DEF autosave_state
  <2>2. CASE UNCHANGED disk
    BY <1>10, <2>2 DEF autosave_state, disk, Arrays, Fits
  <2>3. QED
    BY <1>10, <2>1, <2>2 DEF autosave_state, disk
<1>11. CASE hw_permission_state_open
  <2>1. Fits(Parsed(files[DEFAULT]))
    BY <1>0, ParsedFits, PermissionAssumption
  <2>2. Fits(mem)'
    BY <1>0, <1>11, <2>1 DEF hw_permission_state_open, Fits
  <2>3. QED
    BY <1>0, <1>11, <2>2 DEF hw_permission_state_open, Arrays, Fits
<1>12. ASSUME hw_permission_state_close \/ Crash PROVE Arrays'
  BY <1>12, EmptyFits DEF hw_permission_state_close, Crash, disk, Arrays, Fits
<1>13. ASSUME NEW t \in Threads, NEW p \in Paths, ops_save(t, p) PROVE Arrays'
  BY <1>8, <1>13 DEF ops_save
<1>14. ASSUME NEW t \in Threads, Operation(t) PROVE Arrays'
  BY <1>2, <1>3, <1>4, <1>5, <1>6, <1>7, <1>9, <1>13, <1>14 DEF Operation
<1>15. QED
  BY <1>1, <1>10, <1>11, <1>12, <1>14 DEF Next

\* The policy in memory always fits in the arrays, and every state file gives back
\* the decisions of the policy that was written to it, for any number of threads,
\* roles, entries and files and however often the process is restarted.
THEOREM PermissionReloads == Spec => []PolicyReloads
<1>1. Init => Arrays
  BY EmptyFits, PermissionAssumption DEF Init, Arrays, Fits
<1>2. PInv /\ Arrays => PolicyReloads
  <2> SUFFICES ASSUME PInv, Arrays PROVE PolicyReloads
    OBVIOUS
  <2>1. ReloadFaithful
    BY ReadsBack DEF ReloadFaithful, PInv, Shape
  <2>2. /\ mine \in [Threads -> 0 .. ChangeMax] /\ rev \in 0 .. ChangeMax
        /\ acked \in 0 .. ChangeMax /\ fileRev \in [Paths -> 0 .. ChangeMax]
    BY PermissionAssumption DEF PInv, Shape, Revisions, Arrays
  <2>3. QED
    BY <2>1, <2>2 DEF PolicyReloads, TypeOK, PInv, Shape, Arrays, Fits
<1>3. QED
  BY <1>1, <1>2, ArraysStep, PermissionInvariant, PTL DEF Spec

-----------------------------------------------------------------------------
\* The equation of the recursive function in glob_match.
GlobRests(f, pat, s) ==
  f = [i \in 1 .. Len(pat) + 1 |->
        IF i > Len(pat) THEN {Len(s) + 1}
        ELSE IF pat[i] = "*" THEN {j \in 1 .. Len(s) + 1 : \E k \in f[i + 1] : j <= k}
        ELSE {j \in 1 .. Len(s) : pat[i] \in {"?", s[j]} /\ j + 1 \in f[i + 1]}]

\* glob_match, by that function.
LEMMA GlobBy ==
  ASSUME NEW pat, NEW s
  PROVE  glob_match(pat, s) <=> 1 \in (CHOOSE f : GlobRests(f, pat, s))[1]
  BY Zenon DEF glob_match, GlobRests

\* The i-th character of a pattern is laid over the text from behind a to b.
Lays(pat, s, i, a, b) ==
  IF pat[i] = "*" THEN b >= a
  ELSE b = a + 1 /\ (pat[i] = "?" \/ pat[i] = s[b])

\* The pattern from its i-th character on is laid over what follows j - 1 characters.
LaidBy(cut, pat, s, i, j) ==
  /\ cut \in [i - 1 .. Len(pat) -> 0 .. Len(s)]
  /\ cut[i - 1] = j - 1 /\ cut[Len(pat)] = Len(s)
  /\ \A q \in i .. Len(pat) : Lays(pat, s, q, cut[q - 1], cut[q])

\* From these places on it can be laid.
Laid(pat, s, i) == {j \in 1 .. Len(s) + 1 : \E cut : LaidBy(cut, pat, s, i, j)}

\* What a pattern means is that it can be laid over the whole text.
LEMMA MatchesLaid ==
  ASSUME NEW pat \in Seq(STRING), NEW s \in Seq(STRING)
  PROVE  Matches(pat, s) <=> 1 \in Laid(pat, s, 1)
<1>1. PICK n \in Nat, m \in Nat : n = Len(pat) /\ m = Len(s)
  OBVIOUS
<1>2. 1 \in 1 .. m + 1 /\ 1 - 1 = 0
  BY <1>1
<1>3. ASSUME Matches(pat, s) PROVE 1 \in Laid(pat, s, 1)
  <2>1. PICK cut \in [0 .. n -> 0 .. m] :
          /\ cut[0] = 0 /\ cut[n] = m
          /\ \A q \in 1 .. n : Lays(pat, s, q, cut[q - 1], cut[q])
    BY <1>1, <1>3 DEF Matches, Lays
  <2>2. LaidBy(cut, pat, s, 1, 1)
    BY <1>1, <1>2, <2>1 DEF LaidBy
  <2>3. QED
    BY <1>1, <1>2, <2>2 DEF Laid
<1>4. ASSUME 1 \in Laid(pat, s, 1) PROVE Matches(pat, s)
  <2>1. PICK cut : LaidBy(cut, pat, s, 1, 1)
    BY <1>4 DEF Laid
  <2>2. /\ cut \in [0 .. n -> 0 .. m] /\ cut[0] = 0 /\ cut[n] = m
        /\ \A q \in 1 .. n : Lays(pat, s, q, cut[q - 1], cut[q])
    BY <1>1, <1>2, <2>1 DEF LaidBy
  <2>3. QED
    BY <1>1, <2>2 DEF Matches, Lays
<1>5. QED
  BY <1>3, <1>4

\* The places meet the equation: behind the pattern there is only the end.
LEMMA LaidAtEnd ==
  ASSUME NEW pat \in Seq(STRING), NEW s \in Seq(STRING)
  PROVE  Laid(pat, s, Len(pat) + 1) = {Len(s) + 1}
<1>1. PICK n \in Nat, m \in Nat : n = Len(pat) /\ m = Len(s)
  OBVIOUS
<1>2. (n + 1) - 1 = n
  BY <1>1
<1>3. ASSUME NEW j \in Laid(pat, s, n + 1) PROVE j = m + 1
  <2>1. PICK cut : LaidBy(cut, pat, s, n + 1, j)
    BY <1>3 DEF Laid
  <2>2. cut[n] = j - 1 /\ cut[n] = m
    BY <1>1, <1>2, <2>1 DEF LaidBy
  <2>3. j \in 1 .. m + 1
    BY <1>1, <1>3 DEF Laid
  <2>4. QED
    BY <2>2, <2>3
<1>4. m + 1 \in Laid(pat, s, n + 1)
  <2>1. PICK cut : cut = [q \in n .. n |-> m]
    OBVIOUS
  <2>2. cut \in [n .. n -> 0 .. m] /\ cut[n] = m
    BY <2>1
  <2>3. \A q \in n + 1 .. n : FALSE
    OBVIOUS
  <2>4. (m + 1) - 1 = m
    OBVIOUS
  <2>5. LaidBy(cut, pat, s, n + 1, m + 1)
    BY <1>1, <1>2, <2>2, <2>3, <2>4 DEF LaidBy
  <2>6. m + 1 \in 1 .. m + 1
    OBVIOUS
  <2>7. QED
    BY <1>1, <2>5, <2>6 DEF Laid
<1>5. QED
  BY <1>1, <1>3, <1>4

\* And before, one character is laid and then the others.
LEMMA LaidBefore ==
  ASSUME NEW pat \in Seq(STRING), NEW s \in Seq(STRING), NEW i \in 1 .. Len(pat),
         NEW j \in 1 .. Len(s) + 1
  PROVE  j \in Laid(pat, s, i) <=>
           \E k \in Laid(pat, s, i + 1) : Lays(pat, s, i, j - 1, k - 1)
<1>1. PICK n \in Nat, m \in Nat : n = Len(pat) /\ m = Len(s)
  OBVIOUS
<1>2. /\ i \in Nat /\ (i + 1) - 1 = i /\ i - 1 \in Nat /\ i - 1 \in i - 1 .. n
      /\ i \in i .. n /\ n \in i .. n /\ n \in i - 1 .. n /\ i \in i - 1 .. n
  BY <1>1
<1>3. ASSUME j \in Laid(pat, s, i)
      PROVE  \E k \in Laid(pat, s, i + 1) : Lays(pat, s, i, j - 1, k - 1)
  <2>1. PICK cut : LaidBy(cut, pat, s, i, j)
    BY <1>3 DEF Laid
  <2>2. /\ cut \in [i - 1 .. n -> 0 .. m] /\ cut[i - 1] = j - 1 /\ cut[n] = m
        /\ \A q \in i .. n : Lays(pat, s, q, cut[q - 1], cut[q])
    BY <1>1, <2>1 DEF LaidBy
  <2>3. PICK k : k = cut[i] + 1
    OBVIOUS
  <2>4. cut[i] \in 0 .. m
    BY <1>2, <2>2
  <2>5. k \in 1 .. m + 1 /\ k - 1 = cut[i]
    BY <2>3, <2>4, SMTT(60)
  <2>6. PICK next : next = [q \in i .. n |-> cut[q]]
    OBVIOUS
  <2>7. \A q \in i .. n : next[q] = cut[q] /\ q \in i - 1 .. n
    BY <1>2, <2>6
  <2>8. next \in [i .. n -> 0 .. m]
    BY <2>2, <2>6, <2>7
  <2>9. ASSUME NEW q \in i + 1 .. n PROVE Lays(pat, s, q, next[q - 1], next[q])
    <3>1. q \in i .. n /\ q - 1 \in i .. n
      BY <1>2, <2>9
    <3>2. next[q] = cut[q] /\ next[q - 1] = cut[q - 1]
      BY <2>7, <3>1
    <3>3. QED
      BY <2>2, <3>1, <3>2
  <2>10. next[i] = k - 1 /\ next[n] = m
    BY <1>2, <2>2, <2>5, <2>7
  <2>11. LaidBy(next, pat, s, i + 1, k)
    BY <1>1, <1>2, <2>8, <2>9, <2>10 DEF LaidBy
  <2>12. k \in Laid(pat, s, i + 1)
    BY <1>1, <2>5, <2>11 DEF Laid
  <2>13. Lays(pat, s, i, j - 1, k - 1)
    BY <1>2, <2>2, <2>5
  <2>14. QED
    BY <2>12, <2>13
<1>4. ASSUME NEW k \in Laid(pat, s, i + 1), Lays(pat, s, i, j - 1, k - 1)
      PROVE  j \in Laid(pat, s, i)
  <2>1. PICK next : LaidBy(next, pat, s, i + 1, k)
    BY <1>4 DEF Laid
  <2>2. /\ next \in [i .. n -> 0 .. m] /\ next[i] = k - 1 /\ next[n] = m
        /\ \A q \in i + 1 .. n : Lays(pat, s, q, next[q - 1], next[q])
    BY <1>1, <1>2, <2>1 DEF LaidBy
  <2>3. PICK cut : cut = [q \in i - 1 .. n |-> IF q = i - 1 THEN j - 1 ELSE next[q]]
    OBVIOUS
  <2>4. j - 1 \in 0 .. m
    BY <1>1
  <2>5. \A q \in i .. n : cut[q] = next[q] /\ cut[q] \in 0 .. m
    BY <1>2, <2>2, <2>3
  <2>6. cut[i - 1] = j - 1
    BY <1>2, <2>3
  <2>7. \A q \in i - 1 .. n : q = i - 1 \/ q \in i .. n
    BY <1>2
  <2>8. cut \in [i - 1 .. n -> 0 .. m]
    <3>1. \A q \in i - 1 .. n : cut[q] \in 0 .. m
      BY <2>4, <2>5, <2>6, <2>7
    <3>2. QED
      BY <2>3, <3>1
  <2>9. ASSUME NEW q \in i .. n PROVE Lays(pat, s, q, cut[q - 1], cut[q])
    <3>1. CASE q = i
      <4>1. cut[q - 1] = j - 1 /\ cut[q] = k - 1
        BY <1>2, <2>2, <2>5, <2>6, <3>1
      <4>2. QED
        BY <1>4, <3>1, <4>1
    <3>2. CASE q # i
      <4>1. q \in i + 1 .. n /\ q - 1 \in i .. n
        BY <1>2, <2>9, <3>2
      <4>2. cut[q] = next[q] /\ cut[q - 1] = next[q - 1]
        BY <2>5, <4>1
      <4>3. QED
        BY <2>2, <4>1, <4>2
    <3>3. QED
      BY <3>1, <3>2
  <2>10. cut[n] = m
    BY <1>2, <2>2, <2>5
  <2>11. LaidBy(cut, pat, s, i, j)
    BY <1>1, <2>6, <2>8, <2>9, <2>10 DEF LaidBy
  <2>12. QED
    BY <2>11 DEF Laid
<1>5. QED
  BY <1>3, <1>4

\* The i-th set of the equation of glob_match, from the next one.
RestsFrom(next, pat, s, i) ==
  IF i > Len(pat) THEN {Len(s) + 1}
  ELSE IF pat[i] = "*" THEN {j \in 1 .. Len(s) + 1 : \E k \in next : j <= k}
  ELSE {j \in 1 .. Len(s) : pat[i] \in {"?", s[j]} /\ j + 1 \in next}

\* The places from where on the pattern can be laid over the text are such sets.
LEMMA LaidRests ==
  ASSUME NEW pat \in Seq(STRING), NEW s \in Seq(STRING), NEW i \in 1 .. Len(pat) + 1
  PROVE  Laid(pat, s, i) = RestsFrom(Laid(pat, s, i + 1), pat, s, i)
<1>1. PICK n \in Nat, m \in Nat : n = Len(pat) /\ m = Len(s)
  OBVIOUS
<1>2. CASE i > n
  <2>1. i = n + 1
    BY <1>1, <1>2
  <2>2. Laid(pat, s, i) = {m + 1}
    BY <1>1, <2>1, LaidAtEnd
  <2>3. QED
    BY <1>1, <1>2, <2>2 DEF RestsFrom
<1>3. CASE i <= n
  <2>1. i \in 1 .. n /\ ~(i > n)
    BY <1>1, <1>3
  <2>2. PICK A, B : A = Laid(pat, s, i) /\ B = Laid(pat, s, i + 1)
    OBVIOUS
  <2>3. A \in SUBSET (1 .. m + 1) /\ B \in SUBSET (1 .. m + 1)
    BY <1>1, <2>2 DEF Laid
  <2>4. ASSUME NEW j \in 1 .. m + 1
        PROVE  j \in A <=> \E k \in B : Lays(pat, s, i, j - 1, k - 1)
    <3>1. i \in 1 .. Len(pat) /\ j \in 1 .. Len(s) + 1
      BY <1>1, <2>1
    <3>2. QED
      BY <2>2, <3>1, LaidBefore
  <2>5. CASE pat[i] = "*"
    <3>1. ASSUME NEW j \in 1 .. m + 1 PROVE j \in A <=> \E k \in B : j <= k
      <4>1. \A k \in B : Lays(pat, s, i, j - 1, k - 1) <=> j <= k
        BY <2>3, <2>5 DEF Lays
      <4>2. QED
        BY <2>4, <4>1
    <3>2. A = {j \in 1 .. m + 1 : \E k \in B : j <= k}
      BY <2>3, <3>1
    <3>3. QED
      BY <1>1, <2>1, <2>2, <2>5, <3>2 DEF RestsFrom
  <2>6. CASE pat[i] # "*"
    <3>1. ASSUME NEW j \in 1 .. m + 1
          PROVE  j \in A <=> j + 1 \in B /\ (pat[i] = "?" \/ pat[i] = s[j])
      <4>1. ASSUME NEW k \in B
            PROVE  Lays(pat, s, i, j - 1, k - 1)
                     <=> k = j + 1 /\ (pat[i] = "?" \/ pat[i] = s[j])
        <5>1. k \in Nat /\ (k - 1 = (j - 1) + 1 <=> k = j + 1)
          BY <2>3
        <5>2. k = j + 1 => s[k - 1] = s[j]
          BY <5>1
        <5>3. Lays(pat, s, i, j - 1, k - 1)
                <=> k - 1 = (j - 1) + 1 /\ (pat[i] = "?" \/ pat[i] = s[k - 1])
          BY <2>6 DEF Lays
        <5>4. QED
          BY <5>1, <5>2, <5>3
      <4>2. QED
        BY <2>4, <4>1
    <3>2. \A j \in 1 .. m + 1 : j + 1 \in B => j \in 1 .. m
      BY <2>3
    <3>3. A = {j \in 1 .. m : pat[i] \in {"?", s[j]} /\ j + 1 \in B}
      <4>1. ASSUME NEW j \in A PROVE j \in 1 .. m /\ pat[i] \in {"?", s[j]} /\ j + 1 \in B
        BY <2>3, <3>1, <3>2
      <4>2. ASSUME NEW j \in 1 .. m, pat[i] \in {"?", s[j]}, j + 1 \in B PROVE j \in A
        <5>1. j \in 1 .. m + 1
          BY <1>1
        <5>2. QED
          BY <3>1, <4>2, <5>1
      <4>3. QED
        BY <4>1, <4>2
    <3>4. QED
      BY <1>1, <2>1, <2>2, <2>6, <3>3 DEF RestsFrom
  <2>7. QED
    BY <2>5, <2>6
<1>4. QED
  BY <1>1, <1>2, <1>3

\* glob_match finds a way to lay the pattern over the text whenever there is one.
LEMMA GlobExact ==
  ASSUME NEW pat \in Seq(STRING), NEW s \in Seq(STRING)
  PROVE  glob_match(pat, s) <=> Matches(pat, s)
<1>1. PICK n \in Nat : n = Len(pat)
  OBVIOUS
<1>2. PICK g : g = [i \in 1 .. n + 1 |-> Laid(pat, s, i)]
  OBVIOUS
<1>3. ASSUME NEW f, NEW i \in 1 .. n + 1, GlobRests(f, pat, s)
      PROVE  f[i] = RestsFrom(f[i + 1], pat, s, i)
  BY <1>1, <1>3 DEF GlobRests, RestsFrom
<1>4. GlobRests(g, pat, s)
  <2>1. ASSUME NEW i \in 1 .. n + 1 PROVE g[i] = RestsFrom(g[i + 1], pat, s, i)
    <3>1. Laid(pat, s, i) = RestsFrom(Laid(pat, s, i + 1), pat, s, i)
      BY <1>1, LaidRests
    <3>2. CASE i = n + 1
      <4>1. \A a, b : RestsFrom(a, pat, s, i) = RestsFrom(b, pat, s, i)
        BY <1>1, <3>2 DEF RestsFrom
      <4>2. QED
        BY <1>2, <3>1, <4>1
    <3>3. CASE i # n + 1
      <4>1. i + 1 \in 1 .. n + 1
        BY <3>3
      <4>2. QED
        BY <1>2, <3>1, <4>1
    <3>4. QED
      BY <3>2, <3>3
  <2>2. g = [i \in 1 .. n + 1 |-> RestsFrom(g[i + 1], pat, s, i)]
    BY <1>2, <2>1
  <2>3. QED
    BY <1>1, <2>2 DEF GlobRests, RestsFrom
<1>5. PICK f : f = CHOOSE x : GlobRests(x, pat, s)
  OBVIOUS
<1>6. GlobRests(f, pat, s)
  BY <1>4, <1>5
<1> DEFINE T == {k \in Nat : k <= n => f[n + 1 - k] = g[n + 1 - k]}
<1>7. 0 \in T
  <2>1. PICK i \in 1 .. n + 1 : i = n + 1 - 0
    OBVIOUS
  <2>2. \A a, b : RestsFrom(a, pat, s, i) = RestsFrom(b, pat, s, i)
    BY <1>1, <2>1 DEF RestsFrom
  <2>3. f[i] = g[i]
    BY <1>3, <1>4, <1>6, <2>2
  <2>4. QED
    BY <2>1, <2>3
<1>8. ASSUME NEW k \in Nat, k \in T PROVE k + 1 \in T
  <2>1. SUFFICES ASSUME k + 1 <= n PROVE f[n + 1 - (k + 1)] = g[n + 1 - (k + 1)]
    OBVIOUS
  <2>2. PICK i \in 1 .. n + 1 : i = n + 1 - (k + 1) /\ i + 1 = n + 1 - k
    <3>1. n + 1 - (k + 1) \in 1 .. n + 1 /\ (n + 1 - (k + 1)) + 1 = n + 1 - k
      BY <2>1
    <3>2. QED
      BY <3>1
  <2>3. f[i + 1] = g[i + 1]
    BY <1>8, <2>1, <2>2
  <2>4. f[i] = g[i]
    BY <1>3, <1>4, <1>6, <2>3
  <2>5. QED
    BY <2>2, <2>4
<1>9. n \in T
  <2> HIDE DEF T
  <2>1. QED
    BY <1>7, <1>8, ByInduction
<1>10. f[1] = Laid(pat, s, 1)
  <2>1. n + 1 - n = 1 /\ 1 \in 1 .. n + 1
    OBVIOUS
  <2>2. QED
    BY <1>2, <1>9, <2>1
<1>11. glob_match(pat, s) <=> 1 \in f[1]
  BY <1>5, GlobBy
<1>12. QED
  BY <1>10, <1>11, MatchesLaid

\* No character up to the p-th is special; and each is laid.
Literal(pat, p) == \A q \in 1 .. p : pat[q] # "*" /\ pat[q] # "?"
LaysAll(cut, pat, s, n, m) ==
  /\ cut \in [0 .. n -> 0 .. m] /\ cut[0] = 0
  /\ \A q \in 1 .. n : Lays(pat, s, q, cut[q - 1], cut[q])

\* Characters that are not special lie one on the other.
LEMMA PlainLaid ==
  ASSUME NEW pat, NEW s, NEW n \in Nat, NEW m \in Nat, NEW p \in 0 .. n, NEW cut,
         LaysAll(cut, pat, s, n, m), Literal(pat, p)
  PROVE  /\ \A q \in 0 .. p : cut[q] = q
         /\ \A q \in 1 .. p : pat[q] = s[q]
<1> DEFINE T == {q \in Nat : q <= p => cut[q] = q}
<1>1. 0 \in T
  BY DEF LaysAll
<1>2. ASSUME NEW q \in Nat, q \in T PROVE q + 1 \in T
  <2>1. SUFFICES ASSUME q + 1 <= p PROVE cut[q + 1] = q + 1
    OBVIOUS
  <2>2. q + 1 \in 1 .. n /\ q + 1 \in 1 .. p /\ (q + 1) - 1 = q /\ cut[q] = q
    BY <1>2, <2>1
  <2>3. Lays(pat, s, q + 1, cut[q], cut[q + 1]) /\ pat[q + 1] # "*"
    BY <2>2 DEF Literal, LaysAll
  <2>4. QED
    BY <2>2, <2>3 DEF Lays
<1>3. Nat \subseteq T
  <2> HIDE DEF T
  <2>1. QED
    BY <1>1, <1>2, ByInduction
<1>4. \A q \in 0 .. p : cut[q] = q
  <2>1. SUFFICES ASSUME NEW q \in 0 .. p PROVE cut[q] = q
    OBVIOUS
  <2>2. q \in Nat /\ q <= p
    OBVIOUS
  <2>3. QED
    BY <1>3, <2>2
<1>5. ASSUME NEW q \in 1 .. p PROVE pat[q] = s[q]
  <2>1. q \in 1 .. n /\ cut[q] = q /\ pat[q] # "*" /\ pat[q] # "?"
    BY <1>4 DEF Literal
  <2>2. Lays(pat, s, q, cut[q - 1], cut[q])
    BY <2>1 DEF LaysAll
  <2>3. QED
    BY <2>1, <2>2 DEF Lays
<1>6. QED
  BY <1>4, <1>5

\* SP decides as the permission plugin on the patterns that both know.
LEMMA PrefixExact ==
  ASSUME NEW pat \in Seq(STRING), NEW s \in Seq(STRING), PrefixPattern(pat)
  PROVE  sp_perm_match(pat, s) <=> Matches(pat, s)
<1>1. PICK n \in Nat, m \in Nat : n = Len(pat) /\ m = Len(s)
  OBVIOUS
<1>2. /\ DOMAIN pat = 1 .. n /\ DOMAIN s = 1 .. m
      /\ \A q \in 1 .. n : pat[q] # "?" /\ (pat[q] = "*" => q = n)
  BY <1>1 DEF PrefixPattern
<1>3. Matches(pat, s) <=>
        \E cut : LaysAll(cut, pat, s, n, m) /\ cut[n] = m
  BY <1>1 DEF Matches, Lays, LaysAll
<1>4. CASE pat # <<>> /\ Last(pat) = "*"
  <2>1. PICK p \in Nat : n = p + 1
    <3>1. n # 0
      BY <1>1, <1>4
    <3>2. n - 1 \in Nat /\ n = (n - 1) + 1
      BY <3>1
    <3>3. QED
      BY <3>2
  <2>2. pat[n] = "*" /\ n \in 1 .. n /\ \A q \in 1 .. p : q \in 1 .. n /\ pat[q] # "*" /\ pat[q] # "?"
    BY <1>1, <1>2, <1>4, <2>1 DEF Last
  <2>3. PICK f : f = Front(pat)
    OBVIOUS
  <2>4. f \in Seq(STRING) /\ Len(f) = p /\ \A q \in 1 .. p : f[q] = pat[q]
    <3>1. f = SubSeq(pat, 1, p) /\ p <= Len(pat)
      <4>1. f = SubSeq(pat, 1, Len(pat) - 1)
        BY <2>3 DEF Front
      <4>2. Len(pat) - 1 = p
        BY <1>1, <2>1
      <4>3. QED
        BY <2>1, <4>1, <4>2
    <3>2. QED
      BY <2>1, <3>1
  <2>5. sp_perm_match(pat, s) <=> p <= m /\ \A q \in 1 .. p : pat[q] = s[q]
    <3>1. sp_perm_match(pat, s) <=> IsPrefix(f, s)
      BY <1>4, <2>3 DEF sp_perm_match
    <3>2. p <= m => /\ SubSeq(s, 1, p) \in Seq(STRING) /\ Len(SubSeq(s, 1, p)) = p
                    /\ \A q \in 1 .. p : SubSeq(s, 1, p)[q] = s[q]
      BY <1>1
    <3>3. SubSeq(f, 1, p) = f
      BY <2>4
    <3>4. IsPrefix(f, s) <=> p <= m /\ f = SubSeq(s, 1, p)
      BY <1>1, <2>4, <3>3 DEF IsPrefix
    <3>5. p <= m => (f = SubSeq(s, 1, p) <=> \A q \in 1 .. p : pat[q] = s[q])
      <4>1. PICK u : u = SubSeq(s, 1, p)
        OBVIOUS
      <4>2. ASSUME p <= m, \A q \in 1 .. p : pat[q] = s[q] PROVE f = u
        <5>1. u \in Seq(STRING) /\ Len(u) = Len(f) /\ \A q \in 1 .. Len(f) : f[q] = u[q]
          BY <2>4, <3>2, <4>1, <4>2
        <5>2. QED
          BY <2>4, <5>1, SameMembers
      <4>3. ASSUME p <= m, f = u PROVE \A q \in 1 .. p : pat[q] = s[q]
        BY <2>4, <3>2, <4>1, <4>3
      <4>4. QED
        BY <4>1, <4>2, <4>3
    <3>6. QED
      BY <3>1, <3>4, <3>5
  <2>6. ASSUME Matches(pat, s) PROVE p <= m /\ \A q \in 1 .. p : pat[q] = s[q]
    <3>1. PICK cut : LaysAll(cut, pat, s, n, m) /\ cut[n] = m
      BY <1>3, <2>6
    <3>2. p \in 0 .. n /\ p \in 0 .. p
      BY <2>1
    <3>3. /\ \A q \in 0 .. p : cut[q] = q
          /\ \A q \in 1 .. p : pat[q] = s[q]
      <4>1. Literal(pat, p)
        BY <2>2 DEF Literal
      <4>2. QED
        BY <3>1, <3>2, <4>1, PlainLaid
    <3>4. cut[p] = p /\ cut[p] \in 0 .. m
      BY <3>1, <3>2, <3>3 DEF LaysAll
    <3>5. QED
      BY <3>3, <3>4
  <2>7. ASSUME p <= m, \A q \in 1 .. p : pat[q] = s[q] PROVE Matches(pat, s)
    <3>1. PICK cut : cut = [q \in 0 .. n |-> IF q <= p THEN q ELSE m]
      OBVIOUS
    <3>2. cut \in [0 .. n -> 0 .. m] /\ cut[0] = 0 /\ cut[n] = m
      BY <2>1, <2>7, <3>1
    <3>3. ASSUME NEW q \in 1 .. n PROVE Lays(pat, s, q, cut[q - 1], cut[q])
      <4>1. CASE q = n
        <5>1. cut[q] = m /\ cut[q - 1] = p
          BY <2>1, <3>1, <4>1
        <5>2. QED
          BY <2>2, <2>7, <4>1, <5>1 DEF Lays
      <4>2. CASE q # n
        <5>1. q \in 1 .. p /\ cut[q] = q /\ cut[q - 1] = q - 1
          BY <2>1, <3>1, <4>2
        <5>2. pat[q] = s[q] /\ pat[q] # "*" /\ q = (q - 1) + 1
          BY <2>2, <2>7, <5>1
        <5>3. QED
          BY <5>1, <5>2 DEF Lays
      <4>3. QED
        BY <4>1, <4>2
    <3>4. QED
      BY <1>3, <3>2, <3>3 DEF LaysAll
  <2>8. QED
    BY <2>5, <2>6, <2>7
<1>5. CASE ~(pat # <<>> /\ Last(pat) = "*")
  <2>1. \A q \in 1 .. n : pat[q] # "*" /\ pat[q] # "?"
    <3>1. ASSUME NEW q \in 1 .. n, pat[q] = "*" PROVE FALSE
      <4>1. q = n /\ pat # <<>>
        BY <1>1, <1>2, <3>1
      <4>2. Last(pat) = "*"
        BY <1>1, <3>1, <4>1 DEF Last
      <4>3. QED
        BY <1>5, <4>1, <4>2
    <3>2. QED
      BY <1>2, <3>1
  <2>2. sp_perm_match(pat, s) <=> pat = s
    BY <1>5 DEF sp_perm_match
  <2>3. ASSUME Matches(pat, s) PROVE pat = s
    <3>1. PICK cut : LaysAll(cut, pat, s, n, m) /\ cut[n] = m
      BY <1>3, <2>3
    <3>2. n \in 0 .. n
      OBVIOUS
    <3>3. /\ \A q \in 0 .. n : cut[q] = q
          /\ \A q \in 1 .. n : pat[q] = s[q]
      <4>1. Literal(pat, n)
        BY <2>1 DEF Literal
      <4>2. QED
        BY <3>1, <3>2, <4>1, PlainLaid
    <3>4. n = m
      BY <3>1, <3>2, <3>3
    <3>5. QED
      <4>1. Len(pat) = Len(s) /\ \A q \in 1 .. Len(pat) : pat[q] = s[q]
        BY <1>1, <3>3, <3>4
      <4>2. QED
        BY <4>1, SameMembers
  <2>4. ASSUME pat = s PROVE Matches(pat, s)
    <3>1. PICK cut : cut = [q \in 0 .. n |-> q]
      OBVIOUS
    <3>2. n = m /\ cut \in [0 .. n -> 0 .. m] /\ cut[0] = 0 /\ cut[n] = m
      BY <1>1, <2>4, <3>1
    <3>3. ASSUME NEW q \in 1 .. n PROVE Lays(pat, s, q, cut[q - 1], cut[q])
      <4>1. cut[q] = q /\ cut[q - 1] = q - 1 /\ q = (q - 1) + 1
        BY <3>1
      <4>2. QED
        BY <2>1, <2>4, <4>1 DEF Lays
    <3>4. QED
      BY <1>3, <3>2, <3>3 DEF LaysAll
  <2>5. QED
    BY <2>2, <2>3, <2>4
<1>6. QED
  BY <1>4, <1>5

\* One list for each member of a list.
Singly(v) == [k \in DOMAIN v |-> <<v[k]>>]

\* Put together, they are the list.
LEMMA SinglyFlattened ==
  ASSUME NEW C, NEW v \in Seq(C)
  PROVE  FlattenSeq(Singly(v)) = v
<1>1. PICK w : w = Singly(v)
  OBVIOUS
<1>2. w \in Seq(Seq(C)) /\ Len(w) = Len(v) /\ \A k \in 1 .. Len(v) : w[k] = <<v[k]>>
  <2>1. PICK n \in Nat : n = Len(v) /\ DOMAIN v = 1 .. n
    OBVIOUS
  <2>2. w = [k \in 1 .. n |-> <<v[k]>>]
    BY <1>1, <2>1 DEF Singly
  <2>3. \A k \in 1 .. n : <<v[k]>> \in Seq(C)
    <3>1. ASSUME NEW k \in 1 .. n PROVE <<v[k]>> \in Seq(C)
      <4>1. PICK x \in C : x = v[k]
        BY <2>1, <3>1
      <4>2. <<x>> \in Seq(C)
        OBVIOUS
      <4>3. QED
        BY <4>1, <4>2
    <3>2. QED
      BY <3>1
  <2>4. PICK D : D = Seq(C)
    OBVIOUS
  <2>5. w \in [1 .. n -> D]
    BY <2>2, <2>3, <2>4
  <2>6. w \in Seq(D) /\ Len(w) = n
    BY <2>1, <2>5
  <2>7. QED
    BY <2>1, <2>2, <2>4, <2>6
<1> DEFINE T == {n \in Nat : n <= Len(v) => FlattenSeq(SubSeq(w, 1, n)) = SubSeq(v, 1, n)}
<1>3. 0 \in T
  <2>1. SubSeq(w, 1, 0) = <<>> /\ SubSeq(v, 1, 0) = <<>>
    BY <1>2, WholeList
  <2>2. <<>> \in Seq(Seq(C))
    OBVIOUS
  <2>3. FlattenSeq(<<>>) = <<>>
    BY <2>2, Flattened
  <2>4. QED
    BY <2>1, <2>3
<1>4. ASSUME NEW n \in Nat, n \in T PROVE n + 1 \in T
  <2>1. SUFFICES ASSUME n + 1 <= Len(v)
                 PROVE  FlattenSeq(SubSeq(w, 1, n + 1)) = SubSeq(v, 1, n + 1)
    OBVIOUS
  <2>2. PICK a, b, x : a = SubSeq(w, 1, n) /\ b = SubSeq(v, 1, n) /\ x = v[n + 1]
    OBVIOUS
  <2>3. n + 1 <= Len(w) /\ w[n + 1] = <<x>>
    BY <1>2, <2>1, <2>2
  <2>4. b \in Seq(C) /\ x \in C /\ SubSeq(v, 1, n + 1) = Append(b, x)
    BY <2>1, <2>2, OneLonger
  <2>5. a \in Seq(Seq(C)) /\ SubSeq(w, 1, n + 1) = Append(a, <<x>>)
    BY <1>2, <2>2, <2>3, OneLonger
  <2>6. <<x>> \in Seq(C) /\ b \o <<x>> = Append(b, x)
    BY <2>4
  <2>7. FlattenSeq(Append(a, <<x>>)) = FlattenSeq(a) \o <<x>>
    BY <2>5, <2>6, Flattened
  <2>8. FlattenSeq(a) = b
    BY <1>4, <2>1, <2>2
  <2>9. QED
    BY <2>4, <2>5, <2>6, <2>7, <2>8
<1>5. Len(v) \in T
  <2> HIDE DEF T
  <2>1. QED
    BY <1>3, <1>4, ByInduction
<1>6. SubSeq(w, 1, Len(v)) = w /\ SubSeq(v, 1, Len(v)) = v
  BY <1>2, WholeList
<1>7. Len(v) \in Nat /\ Len(v) <= Len(v)
  OBVIOUS
<1>8. QED
  BY <1>1, <1>5, <1>6, <1>7

\* The versions that are compared.
VersionTexts == Seq(Nat \cup {Junk})

\* All segments of a version of numbers are numbers.
LEMMA ProperNumbers ==
  ASSUME NEW v \in VersionTexts, Proper(v)
  PROVE  NumbersIn(v) = v /\ Len(v) \in 0 .. 3 /\ \A k \in 1 .. Len(v) : v[k] \in Nat
<1>1. \A k \in DOMAIN v : v[k] # Junk
  BY DEF Proper
<1>2. NumbersIn(v) = FlattenSeq(Singly(v))
  <2>1. [k \in DOMAIN v |-> IF v[k] = Junk THEN <<>> ELSE <<v[k]>>] = Singly(v)
    BY <1>1 DEF Singly
  <2>2. QED
    BY <2>1 DEF NumbersIn
<1>3. FlattenSeq(Singly(v)) = v
  BY SinglyFlattened DEF VersionTexts
<1>4. Len(v) \in Nat /\ Len(v) <= 3
  BY DEF VersionTexts, Proper
<1>5. \A k \in 1 .. Len(v) : v[k] \in Nat
  BY <1>1 DEF VersionTexts
<1>6. PICK n : n = Len(v)
  OBVIOUS
<1>7. n \in 0 .. 3
  BY <1>4, <1>6
<1>8. NumbersIn(v) = v
  BY <1>2, <1>3
<1>9. QED
  BY <1>5, <1>6, <1>7, <1>8

\* The segments of a readable version.
LEMMA SegmentsTyped ==
  ASSUME NEW v \in VersionTexts, Readable(v)
  PROVE  \E a, b, c \in Nat :
           /\ version_segments(v) = <<a, b, c>> /\ v[1] = a
           /\ Proper(v) => /\ Len(v) >= 2 => b = v[2]
                           /\ Len(v) >= 3 => c = v[3]
                           /\ Len(v) < 2 => b = 0
                           /\ Len(v) < 3 => c = 0
<1>1. /\ Len(v) \in Nat \ {0} /\ v[1] # Junk
      /\ \A k \in 1 .. Len(v) : v[k] # Junk => v[k] \in Nat
  BY DEF VersionTexts, Readable
<1> DEFINE Read(k) == Len(v) >= k /\ \A q \in 1 .. k : v[q] # Junk
<1>2. PICK a, b, c : /\ a = v[1] /\ b = (IF Read(2) THEN v[2] ELSE 0)
                     /\ c = (IF Read(3) THEN v[3] ELSE 0)
  OBVIOUS
<1>3. version_segments(v) = <<a, b, c>>
  BY <1>2 DEF version_segments
<1>4. a \in Nat /\ b \in Nat /\ c \in Nat
  <2>1. Read(2) => v[2] \in Nat
    BY <1>1
  <2>2. Read(3) => v[3] \in Nat
    BY <1>1
  <2>3. 1 \in 1 .. Len(v)
    BY <1>1
  <2>4. QED
    BY <1>1, <1>2, <2>1, <2>2, <2>3
<1>5. ASSUME Proper(v)
      PROVE  /\ Len(v) >= 2 => b = v[2]
             /\ Len(v) >= 3 => c = v[3]
             /\ Len(v) < 2 => b = 0
             /\ Len(v) < 3 => c = 0
  <2>1. \A q \in 1 .. Len(v) : v[q] # Junk
    BY <1>5 DEF Proper, VersionTexts
  <2>2. Len(v) >= 2 => Read(2)
    BY <1>1, <2>1
  <2>3. Len(v) >= 3 => Read(3)
    BY <1>1, <2>1
  <2>4. (Len(v) < 2 => ~Read(2)) /\ (Len(v) < 3 => ~Read(3))
    BY <1>1
  <2>5. QED
    BY <1>2, <2>2, <2>3, <2>4
<1>6. QED
  BY <1>2, <1>3, <1>4, <1>5

\* With a base above both patches, minor version and patch are one number.
LEMMA OneNumber ==
  ASSUME NEW a \in Nat, NEW b \in Nat, NEW c \in Nat, NEW d \in Nat
  PROVE  (a >= c /\ (a = c => b >= d)) <=> (1 + b + d) * a + b >= (1 + b + d) * c + d
<1>1. PICK base \in Nat : base = 1 + b + d
  OBVIOUS
<1>2. CASE a = c
  BY <1>1, <1>2
<1>3. CASE a > c
  <2>1. PICK e \in Nat : a = c + 1 + e
    <3>1. a - c - 1 \in Nat /\ a = c + 1 + (a - c - 1)
      BY <1>3
    <3>2. QED
      BY <3>1
  <2>2. base * a = base * c + base + base * e /\ base * e \in Nat /\ base * c \in Nat
    BY <2>1
  <2>3. QED
    BY <1>1, <1>3, <2>2
<1>4. CASE a < c
  <2>1. PICK e \in Nat : c = a + 1 + e
    <3>1. c - a - 1 \in Nat /\ c = a + 1 + (c - a - 1)
      BY <1>4
    <3>2. QED
      BY <3>1
  <2>2. base * c = base * a + base + base * e /\ base * e \in Nat /\ base * a \in Nat
    BY <2>1
  <2>3. QED
    BY <1>1, <1>4, <2>2
<1>5. QED
  BY <1>2, <1>3, <1>4

\* A provider is accepted if the major version is the one asked for and the rest
\* no older.
LEMMA CompatExact ==
  ASSUME NEW have \in VersionTexts, NEW req \in VersionTexts
  PROVE  hw_proto_version_compat(have, req) <=>
           Readable(have) /\ Readable(req) /\ have[1] = req[1] /\ NoOlder(have, req)
<1>1. CASE ~(Readable(have) /\ Readable(req))
  BY <1>1 DEF hw_proto_version_compat
<1>2. CASE Readable(have) /\ Readable(req)
  <2>1. PICK a, b, c \in Nat : version_segments(have) = <<a, b, c>> /\ have[1] = a
    BY <1>2, SegmentsTyped
  <2>2. PICK x, y, z \in Nat : version_segments(req) = <<x, y, z>> /\ req[1] = x
    BY <1>2, SegmentsTyped
  <2>3. hw_proto_version_compat(have, req) <=> a = x /\ b >= y /\ (b = y => c >= z)
    BY <1>2, <2>1, <2>2 DEF hw_proto_version_compat, CoversVersion
  <2>4. NoOlder(have, req) <=> (1 + c + z) * b + c >= (1 + c + z) * y + z
    BY <2>1, <2>2 DEF NoOlder
  <2>5. (b >= y /\ (b = y => c >= z)) <=> (1 + c + z) * b + c >= (1 + c + z) * y + z
    BY <2>1, <2>2, OneNumber
  <2>6. QED
    BY <1>2, <2>1, <2>2, <2>3, <2>4, <2>5
<1>3. QED
  BY <1>1, <1>2

\* Acceptance goes through a version between two others.
LEMMA CompatGoesThrough ==
  ASSUME NEW u \in VersionTexts, NEW v \in VersionTexts, NEW w \in VersionTexts
  PROVE  CompatThrough(u, v, w)
<1> SUFFICES ASSUME hw_proto_version_compat(u, v), hw_proto_version_compat(v, w)
             PROVE  hw_proto_version_compat(u, w)
  BY DEF CompatThrough
<1>1. Readable(u) /\ Readable(v) /\ Readable(w)
  BY DEF hw_proto_version_compat
<1>2. PICK a, b, c \in Nat : version_segments(u) = <<a, b, c>>
  BY <1>1, SegmentsTyped
<1>3. PICK f, g, h \in Nat : version_segments(v) = <<f, g, h>>
  BY <1>1, SegmentsTyped
<1>4. PICK x, y, z \in Nat : version_segments(w) = <<x, y, z>>
  BY <1>1, SegmentsTyped
<1>5. a = f /\ b >= g /\ (b = g => c >= h)
  BY <1>2, <1>3 DEF hw_proto_version_compat, CoversVersion
<1>6. f = x /\ g >= y /\ (g = y => h >= z)
  BY <1>3, <1>4 DEF hw_proto_version_compat, CoversVersion
<1>7. a = x /\ b >= y /\ (b = y => c >= z)
  BY <1>2, <1>3, <1>4, <1>5, <1>6
<1>8. QED
  BY <1>1, <1>2, <1>4, <1>7 DEF hw_proto_version_compat, CoversVersion
\* The comparison never calls an accepted version older.
LEMMA CmpNoOlder ==
  ASSUME NEW have \in VersionTexts, NEW req \in VersionTexts, Proper(have), Proper(req),
         hw_proto_version_compat(have, req)
  PROVE  hw_proto_version_cmp(have, req) >= 0
<1>1. Readable(have) /\ Readable(req)
      /\ CoversVersion(version_segments(have), version_segments(req))
  BY DEF hw_proto_version_compat
<1>2. PICK a, b, c \in Nat :
        /\ version_segments(have) = <<a, b, c>> /\ have[1] = a
        /\ (Len(have) >= 2 => b = have[2]) /\ (Len(have) >= 3 => c = have[3])
  BY <1>1, SegmentsTyped
<1>3. PICK x, y, z \in Nat :
        /\ version_segments(req) = <<x, y, z>> /\ req[1] = x
        /\ (Len(req) >= 2 => y = req[2]) /\ (Len(req) >= 3 => z = req[3])
  BY <1>1, SegmentsTyped
<1>4. a = x /\ b >= y /\ (b = y => c >= z)
  BY <1>1, <1>2, <1>3 DEF CoversVersion
<1>5. PICK n \in 0 .. 3 : n = Len(have) /\ DOMAIN have = 1 .. n
  BY ProperNumbers DEF VersionTexts
<1>6. PICK m \in 0 .. 3 : m = Len(req) /\ DOMAIN req = 1 .. m
  BY ProperNumbers DEF VersionTexts
<1>7. PICK T : T = {k \in DOMAIN have \cap DOMAIN req : have[k] # req[k]}
  OBVIOUS
<1>8. NumbersIn(have) = have /\ NumbersIn(req) = req
  BY ProperNumbers
<1>9. hw_proto_version_cmp(have, req) =
        IF T = {} THEN 0
        ELSE LET k == CHOOSE e \in T : \A j \in T : e <= j IN
             IF have[k] < req[k] THEN -1 ELSE 1
  BY <1>7, <1>8 DEF hw_proto_version_cmp
<1>10. CASE T = {}
  BY <1>9, <1>10
<1>11. CASE T # {}
  <2>1. T \subseteq 1 .. 3 /\ T \subseteq Nat
    BY <1>5, <1>6, <1>7
  <2>2. \E e \in T : \A j \in T : e <= j
    BY <1>11, <2>1, LeastNumber
  <2>3. PICK k : k = CHOOSE e \in T : \A j \in T : e <= j
    OBVIOUS
  <2>4. k \in T /\ \A j \in T : k <= j
    BY <2>2, <2>3
  <2>5. hw_proto_version_cmp(have, req) = IF have[k] < req[k] THEN -1 ELSE 1
    BY <1>9, <1>11, <2>3
  <2>6. k \in 1 .. 3 /\ k <= n /\ k <= m /\ have[k] # req[k]
    BY <1>5, <1>6, <1>7, <2>1, <2>4
  <2>7. k # 1
    BY <1>2, <1>3, <1>4, <2>6
  <2>8. CASE k = 2
    <3>1. have[k] = b /\ req[k] = y
      BY <1>2, <1>3, <1>5, <1>6, <2>6, <2>8
    <3>2. QED
      BY <1>4, <2>5, <3>1
  <2>9. CASE k = 3
    <3>1. have[k] = c /\ req[k] = z /\ have[2] = b /\ req[2] = y
      BY <1>2, <1>3, <1>5, <1>6, <2>6, <2>9
    <3>2. 2 \notin T
      BY <2>4, <2>9
    <3>3. b = y
      BY <1>5, <1>6, <1>7, <2>6, <2>9, <3>1, <3>2
    <3>4. QED
      BY <1>4, <2>5, <3>1, <3>3
  <2>10. QED
    BY <2>6, <2>7, <2>8, <2>9
<1>12. QED
  BY <1>10, <1>11

\* An answer is the pair of what the two rules say.
LEMMA PairRead ==
  ASSUME NEW x, NEW y
  PROVE  <<x, y>>[1] = x /\ <<x, y>>[2] = y /\ <<x, y>> # <<>>
OBVIOUS

\* The rules decide.
LEMMA RulesDecide ==
  ASSUME NEW p, NEW t
  PROVE  /\ glob_match(p, t) \in BOOLEAN
         /\ sp_perm_match(p, t) \in BOOLEAN
         /\ Matches(p, t) \in BOOLEAN
<1>1. glob_match(p, t) \in BOOLEAN
  <2>1. glob_match(p, t) = (1 \in (CHOOSE f : GlobRests(f, p, t))[1])
    BY Zenon DEF glob_match, GlobRests
  <2>2. (1 \in (CHOOSE f : GlobRests(f, p, t))[1]) \in BOOLEAN
    OBVIOUS
  <2>3. QED
    BY <2>1, <2>2
<1>2. sp_perm_match(p, t) \in BOOLEAN
  BY Zenon DEF sp_perm_match, IsPrefix
<1>3. Matches(p, t) \in BOOLEAN
  BY Zenon DEF Matches
<1>4. QED
  BY <1>1, <1>2, <1>3

\* What the questions ask.
Answered ==
  \/ answer = <<>>
  \/ /\ question.rule = "glob"
     /\ answer = <<glob_match(question.pat, question.text),
                   sp_perm_match(question.pat, question.text)>>
  \/ /\ question.rule = "version"
     /\ answer = <<hw_proto_version_compat(question.have, question.req),
                   hw_proto_version_cmp(question.have, question.req)>>
MatchInv == question \in Questions /\ Answered

\* The rules answer what they are meant to: the permission plugin finds a way to
\* lay a pattern over a text whenever there is one, SP decides as it does on
\* the patterns both know, and versions are accepted and compared as meant.
THEOREM MatchersAreExact == MatchingSpec => []MatchersExact
<1>1. MatchingInit => MatchInv
  BY DEF MatchingInit, MatchInv, Answered
<1>2. MatchInv /\ [MatchingNext]_matchVars => MatchInv'
  BY DEF MatchInv, Answered, MatchingNext, AskGlob, AskVersion, matchVars
<1>3. MatchInv => MatchersExact
  <2> SUFFICES ASSUME MatchInv, answer # <<>> PROVE MatchersExact
    BY DEF MatchersExact
  <2>1. CASE question.rule = "glob"
    <3>1. PICK p, t : p = question.pat /\ t = question.text
      OBVIOUS
    <3>2. p \in Seq(STRING) /\ t \in Seq(STRING)
      <4>1. p \in GlobPatterns /\ t \in GlobTexts
        BY <2>1, <3>1 DEF MatchInv, Questions
      <4>2. QED
        BY <4>1, MatchingAssumption
    <3>3. answer = <<glob_match(p, t), sp_perm_match(p, t)>>
      BY <2>1, <3>1 DEF MatchInv, Answered
    <3>4. answer[1] = glob_match(p, t) /\ answer[2] = sp_perm_match(p, t)
      BY <3>3, PairRead
    <3>5. glob_match(p, t) = Matches(p, t)
      <4>1. glob_match(p, t) <=> Matches(p, t)
        BY <3>2, GlobExact
      <4>2. QED
        BY <4>1, RulesDecide
    <3>6. PrefixPattern(p) => (sp_perm_match(p, t) = glob_match(p, t))
      <4>1. PrefixPattern(p) => (sp_perm_match(p, t) <=> Matches(p, t))
        BY <3>2, PrefixExact
      <4>2. QED
        BY <3>5, <4>1, RulesDecide
    <3>7. QED
      BY <2>1, <3>1, <3>4, <3>5, <3>6 DEF MatchersExact
  <2>2. CASE question.rule # "glob"
    <3>1. PICK u, v, w : u = question.have /\ v = question.mid /\ w = question.req
      OBVIOUS
    <3>2. u \in VersionTexts /\ v \in VersionTexts /\ w \in VersionTexts
      <4>1. u \in Versions /\ v \in Versions /\ w \in Versions
        BY <2>2, <3>1 DEF MatchInv, Questions
      <4>2. QED
        BY <4>1, MatchingAssumption DEF VersionTexts
    <3>3. answer = <<hw_proto_version_compat(u, w), hw_proto_version_cmp(u, w)>>
      BY <2>2, <3>1 DEF MatchInv, Answered
    <3>4. answer[1] = hw_proto_version_compat(u, w) /\ answer[2] = hw_proto_version_cmp(u, w)
      BY <3>3, PairRead
    <3>5. hw_proto_version_compat(u, w) =
            (Readable(u) /\ Readable(w) /\ u[1] = w[1] /\ NoOlder(u, w))
      BY <3>2, CompatExact DEF hw_proto_version_compat
    <3>6. hw_proto_version_compat(u, w) /\ Proper(u) /\ Proper(w)
            => hw_proto_version_cmp(u, w) >= 0
      BY <3>2, CmpNoOlder
    <3>7. CompatThrough(u, v, w)
      BY <3>2, CompatGoesThrough
    <3>8. QED
      BY <2>2, <3>1, <3>4, <3>5, <3>6, <3>7 DEF MatchersExact
  <2>3. QED
    BY <2>1, <2>2
<1>4. QED
  BY <1>1, <1>2, <1>3, PTL DEF MatchingSpec

-----------------------------------------------------------------------------
(* The loader: what a native image declares is what it believes.             *)

\* The smallest of three numbers.
LEMMA TheSmallest ==
  ASSUME NEW a \in Nat, NEW b \in Nat, NEW c \in Nat
  PROVE  /\ Min({a, b, c}) \in {a, b, c}
         /\ Min({a, b, c}) <= a /\ Min({a, b, c}) <= b /\ Min({a, b, c}) <= c
<1>1. \E x \in {a, b, c} : \A y \in {a, b, c} : x <= y
  OBVIOUS
<1>2. Min({a, b, c}) \in {a, b, c} /\ \A y \in {a, b, c} : Min({a, b, c}) <= y
  BY <1>1 DEF Min
<1>3. QED
  BY <1>2

\* The images a theorem is about.
Wellformed(img) ==
  /\ img.line \in Seq(STRING) /\ img.entries \in Seq(STRING) /\ img.sections \in Seq(Nat)
  /\ img.half[56] \in Nat /\ img.half[60] \in Nat /\ img.half[62] \in Nat
  /\ Native(img) =>
       /\ img.version = 1 /\ img.half[56] = img.phnum
       /\ DeclaresInterp(img) => \E k \in 1 .. PhMax : /\ k <= Len(img.entries) /\ k <= img.phnum
                                                      /\ img.entries[k] = "PT_INTERP"
LEMMA ImagesWellformed == \A img \in Images : Wellformed(img)
BY ImagesAssumption DEF Wellformed

\* The numbers of a native image are read as they are.
LEMMA NativeRead ==
  ASSUME NEW img, Wellformed(img), Native(img)
  PROVE  /\ InOrder(img) /\ \A v : rd16(img, v) = v
         /\ ProgramHeaders(img) = SubSeq(img.entries, 1, Min({img.phnum, PhMax, Len(img.entries)}))
         /\ img.phnum \in Nat
<1>1. InOrder(img)
  BY DEF InOrder, want_be, Wellformed, Native
<1>2. \A v : rd16(img, v) = v
  BY <1>1 DEF rd16
<1>3. img.half[56] = img.phnum /\ img.half[56] \in Nat
  BY DEF Wellformed
<1>4. ProgramHeaders(img) = SubSeq(img.entries, 1, Min({img.phnum, PhMax, Len(img.entries)}))
  BY <1>1, <1>2, <1>3 DEF ProgramHeaders
<1>5. QED
  BY <1>1, <1>2, <1>3, <1>4

\* A native image is taken for a library exactly if it declares that it is one.
LEMMA LibraryDeclared ==
  ASSUME NEW img, Wellformed(img), Native(img)
  PROVE  loader_is_library(img) <=> DeclaresLibrary(img)
<1>1. PICK l : l = Len(img.entries)
  OBVIOUS
<1>2. l \in Nat /\ img.entries \in Seq(STRING)
  BY <1>1 DEF Wellformed
<1>11. PICK p \in Nat : p = img.phnum
  BY NativeRead
<1>12. PhMax \in Nat
  BY LoaderAssumption
<1>3. PICK m : m = Min({p, PhMax, l})
  OBVIOUS
<1>4. /\ m \in Nat /\ m <= p /\ m <= l /\ m <= PhMax
      /\ m \in {p, PhMax, l}
  BY <1>2, <1>3, <1>11, <1>12, TheSmallest
<1>5. PICK hs : hs = ProgramHeaders(img)
  OBVIOUS
<1>6. hs = SubSeq(img.entries, 1, m)
  BY <1>1, <1>3, <1>5, <1>11, NativeRead
<1>7. Len(hs) = m /\ \A k \in 1 .. m : hs[k] = img.entries[k]
  BY <1>1, <1>2, <1>4, <1>6
<1>8. Contains(hs, "PT_INTERP") <=> DeclaresInterp(img)
  <2>1. Contains(hs, "PT_INTERP") <=> \E k \in 1 .. m : img.entries[k] = "PT_INTERP"
    BY <1>7 DEF Contains
  <2>2. ASSUME NEW k \in 1 .. m, img.entries[k] = "PT_INTERP" PROVE DeclaresInterp(img)
    <3>1. k \in 1 .. Len(img.entries) /\ k <= img.phnum
      BY <1>1, <1>2, <1>4, <1>11
    <3>2. QED
      BY <2>2, <3>1 DEF DeclaresInterp
  <2>3. ASSUME DeclaresInterp(img) PROVE \E k \in 1 .. m : img.entries[k] = "PT_INTERP"
    <3>1. PICK k \in 1 .. PhMax : k <= l /\ k <= img.phnum /\ img.entries[k] = "PT_INTERP"
      BY <1>1, <2>3 DEF Wellformed
    <3>2. k \in 1 .. m
      BY <1>4, <1>11, <3>1
    <3>3. QED
      BY <3>1, <3>2
  <2>4. QED
    BY <2>1, <2>2, <2>3
<1>9. rd16(img, img.type) = img.type
  BY NativeRead
<1>10. QED
  BY <1>5, <1>8, <1>9 DEF loader_is_library, DeclaresLibrary

\* What detection answers.
AllFormats == {"SCRIPT", "ELF", "PE", "MACHO", "WASM", "APK", "JAVA"}
LEMMA FormatKnown == ASSUME NEW img PROVE Format(img) \in AllFormats \cup {"UNKNOWN"}
<1>1. \A i \in 1 .. Len(MagicTable) : MagicTable[i] \in AllFormats
  <2>1. Len(MagicTable) = 6 /\ \A i \in 1 .. 6 : MagicTable[i] \in AllFormats
    BY DEF MagicTable, AllFormats
  <2>2. QED
    BY <2>1
<1>2. "SCRIPT" \in AllFormats /\ "MACHO" \in AllFormats
  BY DEF AllFormats
<1>3. QED
  BY <1>1, <1>2 DEF Format

\* The formats that detection answers are told.
LEMMA FormatsTold ==
  ASSUME NEW img, Detected(img)
  PROVE  Format(img) \in ToSet(loader_formats_impl(8))
<1>1. PICK all : all = <<"SCRIPT">> \o MagicTable \o <<"MACHO">>
  OBVIOUS
<1>2. PICK table : table = MagicTable
  OBVIOUS
<1>10. PICK n \in Nat : n = 6
  OBVIOUS
<1>9. table \in Seq(AllFormats) /\ Len(table) = n
  <2>1. Len(table) = 6 /\ table = [k \in 1 .. 6 |-> table[k]]
    BY <1>2 DEF MagicTable
  <2>2. \A k \in 1 .. 6 : table[k] \in AllFormats
    BY <1>2 DEF MagicTable, AllFormats
  <2>3. table = [k \in 1 .. n |-> table[k]] /\ \A k \in 1 .. n : table[k] \in AllFormats
    BY <1>10, <2>1, <2>2
  <2>4. table \in [1 .. n -> AllFormats]
    BY <2>3
  <2>5. table \in Seq(AllFormats) /\ Len(table) = n
    BY <2>4
  <2>6. QED
    BY <2>5
<1>3. all \in Seq(AllFormats) /\ Len(all) = n + 2 /\ all[1] = "SCRIPT"
      /\ \A k \in 1 .. n : all[k + 1] = table[k]
  <2>1. "SCRIPT" \in AllFormats /\ "MACHO" \in AllFormats
    BY DEF AllFormats
  <2>2. /\ <<"SCRIPT">> \o table \o <<"MACHO">> \in Seq(AllFormats)
        /\ Len(<<"SCRIPT">> \o table \o <<"MACHO">>) = Len(table) + 2
        /\ (<<"SCRIPT">> \o table \o <<"MACHO">>)[1] = "SCRIPT"
        /\ \A k \in 1 .. Len(table) : (<<"SCRIPT">> \o table \o <<"MACHO">>)[k + 1] = table[k]
    BY <1>9, <2>1, Between
  <2>3. <<"SCRIPT">> \o table \o <<"MACHO">> = all
    BY <1>1, <1>2
  <2>4. QED
    BY <1>9, <2>2, <2>3
<1>4. loader_formats_impl(8) = all
  <2>1. Min({8, 8}) = 8
    BY TheSmaller
  <2>2. Len(all) = 8
    BY <1>3, <1>10
  <2>3. SubSeq(all, 1, 8) = all
    BY <1>3, <2>2, WholeList
  <2>4. QED
    BY <1>1, <2>1, <2>2, <2>3 DEF loader_formats_impl
<1>5. Format(img) \in AllFormats
  BY FormatKnown DEF Detected
<1>6. \A x \in AllFormats : \E k \in 1 .. 8 : all[k] = x
  <2>1. /\ table[1] = "ELF" /\ table[2] = "PE" /\ table[3] = "MACHO"
        /\ table[4] = "WASM" /\ table[5] = "APK" /\ table[6] = "JAVA"
    BY <1>2 DEF MagicTable
  <2>2. /\ all[2] = table[1] /\ all[3] = table[2] /\ all[4] = table[3]
        /\ all[5] = table[4] /\ all[6] = table[5] /\ all[7] = table[6]
    BY <1>3, <1>10
  <2>3. \A k \in 1 .. 7 : k \in 1 .. 8
    OBVIOUS
  <2>4. QED
    BY <1>3, <2>1, <2>2, <2>3 DEF AllFormats
<1>7. ToSet(all) = {all[k] : k \in 1 .. 8}
  BY <1>3, <1>10 DEF ToSet
<1>8. QED
  BY <1>4, <1>5, <1>6, <1>7

\* A script that names an interpreter does so right after "#!".
LEMMA InterpreterNamed ==
  ASSUME NEW img, Wellformed(img), Interpreter(img) # <<>>
  PROVE  img.line[1] \notin {" ", "\t", "\n"}
<1>1. PICK n \in Nat : n = Len(img.line)
  BY DEF Wellformed
<1>2. PICK m : m = Min({n, HeadMax - 2})
  OBVIOUS
<1>3. m \in Nat /\ m <= n /\ (m = n \/ m = HeadMax - 2)
  BY <1>2, TheSmaller, LoaderAssumption
<1>4. PICK head : head = SubSeq(img.line, 1, m)
  OBVIOUS
<1>5. head \in Seq(STRING) /\ Len(head) = m /\ \A k \in 1 .. m : head[k] = img.line[k]
  BY <1>1, <1>3, <1>4, SMTT(60) DEF Wellformed
<1>6. PICK ends : ends = {k \in 1 .. m : head[k] \in {" ", "\t", "\n"}}
  OBVIOUS
<1>7. Interpreter(img) = IF ends = {} THEN head ELSE SubSeq(head, 1, Min(ends) - 1)
  BY <1>1, <1>2, <1>4, <1>5, <1>6 DEF Interpreter
<1>8. CASE ends = {}
  <2>1. head # <<>>
    BY <1>7, <1>8
  <2>2. 1 \in 1 .. m
    BY <1>3, <1>5, <2>1
  <2>3. QED
    BY <1>5, <1>6, <1>8, <2>2
<1>9. CASE ends # {}
  <2>1. ends \subseteq Nat
    <3>1. ends \subseteq 1 .. m
      BY <1>6
    <3>2. QED
      BY <1>3, <3>1
  <2>2. \E x \in ends : \A y \in ends : x <= y
    BY <1>9, <2>1, LeastNumber
  <2>3. PICK e : e = Min(ends)
    OBVIOUS
  <2>4. e \in ends /\ \A y \in ends : e <= y
    BY <2>2, <2>3 DEF Min
  <2>5. e # 1
    <3>1. SUFFICES ASSUME e = 1 PROVE FALSE
      OBVIOUS
    <3>2. SubSeq(head, 1, 0) = <<>>
      BY <1>5, WholeList
    <3>3. QED
      BY <1>7, <1>9, <2>3, <3>1, <3>2
  <2>6. 1 \in 1 .. m /\ 1 \notin ends
    <3>1. e \in 1 .. m
      BY <1>6, <2>4
    <3>2. 1 \in ends => e <= 1
      BY <2>4
    <3>3. QED
      BY <1>3, <2>5, <3>1, <3>2
  <2>7. QED
    BY <1>5, <1>6, <2>6
<1>10. QED
  BY <1>8, <1>9

\* The names that were taken up to one section: in order, within the buffer.
NamesType == [pos : Nat, names : Seq(Nat)]
NamesUpto(f, img) ==
  f = [k \in 0 .. Seen(img) |-> IF k = 0 THEN NamesNone ELSE AddName(img, f[k - 1], k)]
NamesOrdered(s, k) ==
  /\ s.pos < NamesCap
  /\ \A i \in 1 .. Len(s.names) : s.names[i] \in 1 .. k
  /\ \A i, j \in 1 .. Len(s.names) : i < j => s.names[i] < s.names[j]

\* section_names and NamesSize, by the functions of their definitions.
LEMMA NamesBy ==
  ASSUME NEW img
  PROVE  section_names(img) = (CHOOSE f : NamesUpto(f, img))[Seen(img)]
BY Zenon DEF section_names, NamesUpto
SizeUpto(f, img) ==
  f = [k \in 0 .. Len(img.sections) |-> IF k = 0 THEN 0 ELSE f[k - 1] + img.sections[k] + 1]
LEMMA SizeBy ==
  ASSUME NEW img
  PROVE  NamesSize(img) = (CHOOSE f : SizeUpto(f, img))[Len(img.sections)]
BY Zenon DEF NamesSize, SizeUpto

\* How many sections are read, and what is taken of their names.
LEMMA SeenTyped ==
  ASSUME NEW img, Wellformed(img), Native(img)
  PROVE  /\ Seen(img) \in 0 .. Len(img.sections)
         /\ \A k \in 1 .. Seen(img) : /\ img.sections[k] \in Nat
                                      /\ NameLen(img, k) \in Nat
                                      /\ NameLen(img, k) <= NameMax
                                      /\ NameLen(img, k) <= img.sections[k]
         /\ Named(img) => \A k \in 1 .. Seen(img) : img.sections[k] > 0 => NameLen(img, k) > 0
<1>1. PICK n \in Nat : n = Len(img.sections)
  <2>1. PICK ls : ls = img.sections
    OBVIOUS
  <2>2. ls \in Seq(Nat)
    BY <2>1 DEF Wellformed
  <2>3. QED
    BY <2>1, <2>2
<1>2. PICK h \in Nat : h = img.half[60]
  BY DEF Wellformed
<1>3. PICK m : m = Min({h, 40, n})
  OBVIOUS
<1>4. m \in {h, 40, n} /\ m <= n
  BY <1>3, TheSmallest
<1>5. Seen(img) = m
  BY <1>1, <1>2, <1>3, NativeRead DEF Seen
<1>6. m \in 0 .. n
  BY <1>4
<1>7. ASSUME NEW k \in 1 .. m
      PROVE  /\ img.sections[k] \in Nat /\ NameLen(img, k) \in Nat
             /\ NameLen(img, k) <= NameMax /\ NameLen(img, k) <= img.sections[k]
             /\ Named(img) /\ img.sections[k] > 0 => NameLen(img, k) > 0
  <2>1. k \in 1 .. n
    BY <1>4
  <2>2. PICK l \in Nat : l = img.sections[k]
    BY <1>1, <2>1, SMTT(60) DEF Wellformed
  <2>3. NameMax \in Nat \ {0}
    BY LoaderAssumption
  <2>4. Min({l, NameMax}) = IF l <= NameMax THEN l ELSE NameMax
    BY <2>3, TheSmaller
  <2>5. NameLen(img, k) = IF Named(img) THEN (IF l <= NameMax THEN l ELSE NameMax) ELSE 0
    BY <2>2, <2>4 DEF NameLen
  <2>6. QED
    BY <2>2, <2>3, <2>5
<1>8. QED
  BY <1>1, <1>5, <1>6, <1>7

\* One name more.
LEMMA NameAdded ==
  ASSUME NEW img, NEW k \in Nat \ {0}, NEW s \in NamesType, NameLen(img, k) \in Nat,
         NameLen(img, k) <= NameMax
  PROVE  /\ AddName(img, s, k) \in NamesType
         /\ NamesOrdered(s, k - 1) => NamesOrdered(AddName(img, s, k), k)
<1>1. PICK n \in Nat : n = NameLen(img, k)
  OBVIOUS
<1>2. PICK pos \in Nat, names \in Seq(Nat) : pos = s.pos /\ names = s.names
  BY DEF NamesType
<1>3. NamesCap \in Nat /\ n < NamesCap
  BY <1>1, LoaderAssumption
<1>4. PICK c : c = Len(names)
  OBVIOUS
<1>5. c \in Nat
  BY <1>4
<1>6. CASE n = 0 \/ (pos > 0 /\ ~(pos + n + 2 < NamesCap))
  <2>1. AddName(img, s, k) = s
    BY <1>1, <1>2, <1>6 DEF AddName
  <2>2. NamesOrdered(s, k - 1) => NamesOrdered(s, k)
    <3>1. ASSUME NEW i \in 1 .. Len(s.names), s.names[i] \in 1 .. k - 1 PROVE s.names[i] \in 1 .. k
      BY <3>1
    <3>2. QED
      BY <3>1 DEF NamesOrdered
  <2>3. QED
    BY <2>1, <2>2
<1>7. CASE n > 0 /\ pos = 0
  <2>1. AddName(img, s, k) = [pos |-> n, names |-> <<k>>]
    BY <1>1, <1>2, <1>7 DEF AddName
  <2>2. PICK t : t = <<k>>
    OBVIOUS
  <2>3. t \in Seq(Nat) /\ Len(t) = 1 /\ t[1] = k
    BY <2>2
  <2>4. \A i \in 1 .. Len(t) : t[i] \in 1 .. k
    BY <2>3
  <2>5. \A i, j \in 1 .. Len(t) : i < j => t[i] < t[j]
    BY <2>3
  <2>6. QED
    BY <1>3, <2>1, <2>2, <2>3, <2>4, <2>5 DEF NamesType, NamesOrdered
<1>8. CASE n > 0 /\ pos > 0 /\ pos + n + 2 < NamesCap
  <2>1. AddName(img, s, k) = [pos |-> pos + n + 1, names |-> Append(names, k)]
    BY <1>1, <1>2, <1>8 DEF AddName
  <2>2. PICK t : t = Append(names, k)
    OBVIOUS
  <2>3. t \in Seq(Nat) /\ Len(t) = c + 1 /\ t[c + 1] = k /\ \A i \in 1 .. c : t[i] = names[i]
    BY <1>4, <2>2
  <2>4. ASSUME NamesOrdered(s, k - 1)
        PROVE  /\ \A i \in 1 .. c + 1 : t[i] \in 1 .. k
               /\ \A i, j \in 1 .. c + 1 : i < j => t[i] < t[j]
    <3>1. /\ \A i \in 1 .. c : names[i] \in 1 .. k - 1
          /\ \A i, j \in 1 .. c : i < j => names[i] < names[j]
      BY <1>2, <1>4, <2>4 DEF NamesOrdered
    <3>2. ASSUME NEW i \in 1 .. c + 1 PROVE t[i] \in 1 .. k /\ (i # c + 1 => t[i] < k)
      <4>1. CASE i = c + 1
        BY <2>3, <4>1
      <4>2. CASE i # c + 1
        <5>1. i \in 1 .. c
          BY <1>5, <4>2
        <5>2. t[i] \in 1 .. k - 1
          BY <2>3, <3>1, <5>1
        <5>3. QED
          BY <5>2
      <4>3. QED
        BY <4>1, <4>2
    <3>3. ASSUME NEW i \in 1 .. c + 1, NEW j \in 1 .. c + 1, i < j PROVE t[i] < t[j]
      <4>1. i \in 1 .. c
        BY <1>5, <3>3
      <4>2. CASE j = c + 1
        BY <1>5, <2>3, <3>2, <4>1, <4>2
      <4>3. CASE j # c + 1
        <5>1. j \in 1 .. c
          BY <1>5, <4>3
        <5>2. QED
          BY <2>3, <3>1, <3>3, <4>1, <5>1
      <4>4. QED
        BY <4>2, <4>3
    <3>4. QED
      BY <3>2, <3>3
  <2>5. PICK np \in Nat : np = pos + n + 1
    OBVIOUS
  <2>6. np < NamesCap
    BY <1>3, <1>8, <2>5
  <2>7. PICK a : a = AddName(img, s, k)
    OBVIOUS
  <2>8. a = [pos |-> np, names |-> t]
    BY <2>1, <2>2, <2>5, <2>7
  <2>9. a.pos = np /\ a.names = t /\ Len(t) = c + 1
    BY <2>3, <2>8
  <2>10. a \in NamesType
    BY <2>3, <2>8 DEF NamesType
  <2>11. NamesOrdered(s, k - 1) => NamesOrdered(a, k)
    BY <2>4, <2>6, <2>9 DEF NamesOrdered
  <2>12. QED
    BY <2>7, <2>10, <2>11
<1>9. QED
  BY <1>3, <1>6, <1>7, <1>8

\* The function of section_names, step by step.
LEMMA NamesFollow ==
  ASSUME NEW img, Wellformed(img), Native(img)
  PROVE  \E f \in [0 .. Seen(img) -> NamesType] :
           /\ f[0] = NamesNone
           /\ \A k \in 1 .. Seen(img) : f[k] = AddName(img, f[k - 1], k)
           /\ section_names(img) = f[Seen(img)]
<1>1. PICK n \in Nat : n = Seen(img)
  BY SeenTyped DEF Wellformed
<1>2. ASSUME NEW k \in 1 .. n, NEW s \in NamesType PROVE AddName(img, s, k) \in NamesType
  <2>1. k \in Nat \ {0} /\ NameLen(img, k) \in Nat /\ NameLen(img, k) <= NameMax
    BY <1>1, SeenTyped
  <2>2. QED
    BY <2>1, NameAdded
<1>3. NamesNone \in NamesType
  BY DEF NamesNone, NamesType
<1>4. PICK g : g = [k \in 1 .. n |-> [s \in NamesType |-> AddName(img, s, k)]]
  OBVIOUS
<1>5. g \in [1 .. n -> [NamesType -> NamesType]]
  BY <1>2, <1>4
<1>6. PICK f \in [0 .. n -> NamesType] :
        f[0] = NamesNone /\ \A k \in 1 .. n : f[k] = g[k][f[k - 1]]
  BY <1>3, <1>5, Unrolled
<1>7. \A k \in 1 .. n : f[k] = AddName(img, f[k - 1], k)
  <2>1. ASSUME NEW k \in 1 .. n PROVE f[k] = AddName(img, f[k - 1], k)
    <3>1. f[k - 1] \in NamesType
      BY <1>6
    <3>2. QED
      BY <1>4, <1>6, <3>1
  <2>2. QED
    BY <2>1
<1>8. f = [k \in 0 .. n |-> IF k = 0 THEN NamesNone ELSE AddName(img, f[k - 1], k)]
  <2>1. \A k \in 0 .. n : f[k] = IF k = 0 THEN NamesNone ELSE AddName(img, f[k - 1], k)
    BY <1>6, <1>7
  <2>2. QED
    BY <1>6, <2>1
<1>9. NamesUpto(f, img)
  BY <1>1, <1>8 DEF NamesUpto
<1>10. PICK h : h = CHOOSE x : NamesUpto(x, img)
  OBVIOUS
<1>11. NamesUpto(h, img)
  BY <1>9, <1>10
<1>12. h = [k \in 0 .. n |-> IF k = 0 THEN NamesNone ELSE AddName(img, h[k - 1], k)]
  BY <1>1, <1>11 DEF NamesUpto
<1>13. h[0] = NamesNone /\ \A k \in 1 .. n : h[k] = AddName(img, h[k - 1], k)
  <2>1. 0 \in 0 .. n /\ \A k \in 1 .. n : k \in 0 .. n /\ k # 0
    BY <1>1
  <2>2. QED
    BY <1>12, <2>1
<1> DEFINE T == {k \in Nat : k <= n => h[k] \in NamesType}
<1>14. 0 \in T
  BY <1>3, <1>13
<1>15. ASSUME NEW k \in Nat, k \in T PROVE k + 1 \in T
  <2>1. SUFFICES ASSUME k + 1 <= n PROVE h[k + 1] \in NamesType
    OBVIOUS
  <2>2. k + 1 \in 1 .. n /\ h[k] \in NamesType /\ (k + 1) - 1 = k
    BY <1>15, <2>1
  <2>3. h[k + 1] = AddName(img, h[k], k + 1)
    BY <1>13, <2>2
  <2>4. QED
    BY <1>2, <2>2, <2>3
<1>16. \A k \in 0 .. n : h[k] \in NamesType
  <2>1. Nat \subseteq T
    <3> HIDE DEF T
    <3>1. QED
      BY <1>14, <1>15, ByInduction
  <2>2. QED
    BY <2>1
<1>17. h \in [0 .. n -> NamesType]
  BY <1>12, <1>16
<1>18. section_names(img) = h[n]
  BY <1>1, <1>10, NamesBy
<1>19. QED
  BY <1>1, <1>13, <1>17, <1>18

\* The function of NamesSize, which never falls.
LEMMA SizeFollow ==
  ASSUME NEW img, Wellformed(img)
  PROVE  \E f \in [0 .. Len(img.sections) -> Nat] :
           /\ f[0] = 0
           /\ \A k \in 1 .. Len(img.sections) :
                f[k] = f[k - 1] + img.sections[k] + 1 /\ f[k] <= NamesSize(img)
           /\ NamesSize(img) \in Nat
<1>1. PICK n \in Nat : n = Len(img.sections)
  BY DEF Wellformed
<1>2. PICK ls : ls = img.sections
  OBVIOUS
<1>3. \A k \in 1 .. n : ls[k] \in Nat
  BY <1>1, <1>2, SMTT(60) DEF Wellformed
<1>4. PICK g : g = [k \in 1 .. n |-> [s \in Nat |-> s + ls[k] + 1]]
  OBVIOUS
<1>5. g \in [1 .. n -> [Nat -> Nat]]
  <2>1. ASSUME NEW k \in 1 .. n PROVE [s \in Nat |-> s + ls[k] + 1] \in [Nat -> Nat]
    <3>1. PICK l \in Nat : l = ls[k]
      BY <1>3
    <3>2. \A s \in Nat : s + l + 1 \in Nat
      OBVIOUS
    <3>3. QED
      BY <3>1, <3>2
  <2>2. QED
    BY <1>4, <2>1
<1>6. PICK f \in [0 .. n -> Nat] : f[0] = 0 /\ \A k \in 1 .. n : f[k] = g[k][f[k - 1]]
  <2>1. PICK V, b : V = Nat /\ b = 0
    OBVIOUS
  <2>2. b \in V /\ g \in [1 .. n -> [V -> V]]
    BY <1>5, <2>1
  <2>3. \E f \in [0 .. n -> V] : f[0] = b /\ \A k \in 1 .. n : f[k] = g[k][f[k - 1]]
    BY <2>2, Unrolled
  <2>4. QED
    BY <2>1, <2>3
<1>7. \A k \in 1 .. n : f[k] = f[k - 1] + ls[k] + 1
  <2>1. ASSUME NEW k \in 1 .. n PROVE f[k] = f[k - 1] + ls[k] + 1
    <3>1. f[k - 1] \in Nat
      BY <1>6
    <3>2. QED
      BY <1>4, <1>6, <3>1
  <2>2. QED
    BY <2>1
<1>8. f = [k \in 0 .. n |-> IF k = 0 THEN 0 ELSE f[k - 1] + ls[k] + 1]
  <2>1. \A k \in 0 .. n : f[k] = IF k = 0 THEN 0 ELSE f[k - 1] + ls[k] + 1
    BY <1>6, <1>7
  <2>2. QED
    BY <1>6, <2>1
<1>9. SizeUpto(f, img)
  BY <1>1, <1>2, <1>8 DEF SizeUpto
<1>10. PICK h : h = CHOOSE x : SizeUpto(x, img)
  OBVIOUS
<1>11. SizeUpto(h, img)
  BY <1>9, <1>10
<1>12. h = [k \in 0 .. n |-> IF k = 0 THEN 0 ELSE h[k - 1] + ls[k] + 1]
  BY <1>1, <1>2, <1>11 DEF SizeUpto
<1>13. h[0] = 0 /\ \A k \in 1 .. n : h[k] = h[k - 1] + ls[k] + 1
  <2>1. 0 \in 0 .. n /\ \A k \in 1 .. n : k \in 0 .. n /\ k # 0
    BY <1>1
  <2>2. QED
    BY <1>12, <2>1
<1> DEFINE T == {k \in Nat : k <= n => h[k] \in Nat}
<1>14. 0 \in T
  BY <1>13
<1>15. ASSUME NEW k \in Nat, k \in T PROVE k + 1 \in T
  <2>1. SUFFICES ASSUME k + 1 <= n PROVE h[k + 1] \in Nat
    OBVIOUS
  <2>2. k + 1 \in 1 .. n /\ h[k] \in Nat /\ (k + 1) - 1 = k
    BY <1>15, <2>1
  <2>3. h[k + 1] = h[k] + ls[k + 1] + 1
    BY <1>13, <2>2
  <2>4. QED
    BY <1>3, <2>2, <2>3, SMTT(60)
<1>16. \A k \in 0 .. n : h[k] \in Nat
  <2>1. Nat \subseteq T
    <3> HIDE DEF T
    <3>1. QED
      BY <1>14, <1>15, ByInduction
  <2>2. QED
    BY <2>1
<1>17. h \in [0 .. n -> Nat]
  BY <1>12, <1>16
<1>18. NamesSize(img) = h[n]
  BY <1>1, <1>10, SizeBy
<1> DEFINE U == {d \in Nat : d <= n => h[n - d] <= h[n]}
<1>19. 0 \in U
  <2>1. n - 0 = n /\ h[n] \in Nat
    BY <1>16
  <2>2. QED
    BY <2>1
<1>20. ASSUME NEW d \in Nat, d \in U PROVE d + 1 \in U
  <2>1. SUFFICES ASSUME d + 1 <= n PROVE h[n - (d + 1)] <= h[n]
    OBVIOUS
  <2>2. n - d \in 1 .. n /\ (n - d) - 1 = n - (d + 1) /\ h[n - d] <= h[n]
    BY <1>20, <2>1
  <2>3. h[n - d] = h[n - (d + 1)] + ls[n - d] + 1
    BY <1>13, <2>2
  <2>4. h[n - (d + 1)] \in Nat /\ ls[n - d] \in Nat /\ h[n] \in Nat
    BY <1>3, <1>16, <2>1, <2>2
  <2>5. QED
    BY <2>2, <2>3, <2>4, SMTT(60)
<1>21. \A k \in 1 .. n : h[k] <= h[n]
  <2>1. Nat \subseteq U
    <3> HIDE DEF U
    <3>1. QED
      BY <1>19, <1>20, ByInduction
  <2>2. ASSUME NEW k \in 1 .. n PROVE h[k] <= h[n]
    <3>1. PICK d : d = n - k
      OBVIOUS
    <3>2. d \in Nat /\ d <= n /\ n - d = k
      BY <3>1
    <3>3. QED
      BY <2>1, <3>2
  <2>3. QED
    BY <2>2
<1>22. h[n] \in Nat
  BY <1>16
<1>23. QED
  BY <1>1, <1>2, <1>13, <1>17, <1>18, <1>21, <1>22

\* With room for all names, none is left out.
TakenUpto(s, img, k, size) ==
  /\ (s.pos = 0 /\ Len(s.names) = 0) \/ (s.pos > 0 /\ s.pos + 1 <= size)
  /\ \A q \in 1 .. k : img.sections[q] > 0 => \E i \in 1 .. Len(s.names) : s.names[i] = q
LEMMA NameTaken ==
  ASSUME NEW img, NEW k \in Nat \ {0}, NEW s \in NamesType, NEW size \in Nat, NEW l \in Nat,
         l = img.sections[k], NameLen(img, k) \in Nat, NameLen(img, k) <= l,
         l > 0 => NameLen(img, k) > 0,
         size + l + 1 < NamesCap,
         TakenUpto(s, img, k - 1, size)
  PROVE  TakenUpto(AddName(img, s, k), img, k, size + l + 1)
<1>1. PICK n \in Nat : n = NameLen(img, k)
  OBVIOUS
<1>2. PICK pos \in Nat, names \in Seq(Nat) : pos = s.pos /\ names = s.names
  BY DEF NamesType
<1>3. NamesCap \in Nat
  BY LoaderAssumption
<1>4. PICK c \in Nat : c = Len(names)
  BY <1>2
<1>5. (pos = 0 /\ c = 0) \/ (pos > 0 /\ pos + 1 <= size)
  BY <1>2, <1>4 DEF TakenUpto
<1>6. \A q \in 1 .. k - 1 : img.sections[q] > 0 => \E i \in 1 .. c : names[i] = q
  BY <1>2, <1>4 DEF TakenUpto
<1>7. \A q \in 1 .. k : q \in 1 .. k - 1 \/ q = k
  OBVIOUS
<1>13. n <= l /\ (l > 0 => n > 0) /\ size + l + 1 < NamesCap
  BY <1>1
<1>8. pos > 0 => pos + n + 2 < NamesCap
  BY <1>3, <1>5, <1>13, SMTT(60)
<1>9. CASE n = 0
  <2>1. AddName(img, s, k) = s
    BY <1>1, <1>9 DEF AddName
  <2>2. l = 0 /\ img.sections[k] = 0
    BY <1>9, <1>13
  <2>3. ASSUME NEW q \in 1 .. k, img.sections[q] > 0 PROVE \E i \in 1 .. c : names[i] = q
    <3>1. q \in 1 .. k - 1
      BY <1>7, <2>2, <2>3
    <3>2. QED
      BY <1>6, <2>3, <3>1
  <2>4. (pos = 0 /\ c = 0) \/ (pos > 0 /\ pos + 1 <= size + l + 1)
    BY <1>5, SMTT(60)
  <2>5. QED
    BY <1>2, <1>4, <2>1, <2>3, <2>4 DEF TakenUpto
<1>10. CASE n > 0 /\ pos = 0 /\ c = 0
  <2>1. PICK t : t = <<k>>
    OBVIOUS
  <2>2. AddName(img, s, k) = [pos |-> n, names |-> t]
    BY <1>1, <1>2, <1>10, <2>1 DEF AddName
  <2>3. PICK a : a = AddName(img, s, k)
    OBVIOUS
  <2>4. a.pos = n /\ a.names = t /\ Len(t) = 1 /\ t[1] = k
    BY <2>1, <2>2, <2>3
  <2>5. n + 1 <= size + l + 1
    BY <1>13, SMTT(60)
  <2>6. QED
    <3>1. ASSUME NEW q \in 1 .. k, img.sections[q] > 0 PROVE \E i \in 1 .. Len(t) : t[i] = q
      <4>1. q = k
        BY <1>6, <1>7, <1>10, <3>1
      <4>2. 1 \in 1 .. Len(t)
        BY <2>4
      <4>3. QED
        BY <2>4, <4>1, <4>2
    <3>2. QED
      BY <1>10, <2>3, <2>4, <2>5, <3>1 DEF TakenUpto
<1>11. CASE n > 0 /\ ~(pos = 0 /\ c = 0)
  <2>1. PICK t : t = Append(names, k)
    OBVIOUS
  <2>2. AddName(img, s, k) = [pos |-> pos + n + 1, names |-> t]
    <3>1. pos > 0
      BY <1>5, <1>11
    <3>2. QED
      BY <1>1, <1>2, <1>8, <1>11, <2>1, <3>1 DEF AddName
  <2>3. PICK a : a = AddName(img, s, k)
    OBVIOUS
  <2>4. a.pos = pos + n + 1 /\ a.names = t
    BY <2>2, <2>3
  <2>5. Len(t) = c + 1 /\ t[c + 1] = k /\ \A i \in 1 .. c : t[i] = names[i]
    BY <1>4, <2>1
  <2>6. pos + n + 1 + 1 <= size + l + 1
    BY <1>5, <1>11, <1>13, SMTT(60)
  <2>7. ASSUME NEW q \in 1 .. k, img.sections[q] > 0 PROVE \E i \in 1 .. c + 1 : t[i] = q
    <3>1. CASE q = k
      <4>1. c + 1 \in 1 .. c + 1
        OBVIOUS
      <4>2. QED
        BY <2>5, <3>1, <4>1
    <3>2. CASE q # k
      <4>1. PICK i \in 1 .. c : names[i] = q
        BY <1>6, <1>7, <2>7, <3>2
      <4>2. i \in 1 .. c + 1
        OBVIOUS
      <4>3. QED
        BY <2>5, <4>1, <4>2
    <3>3. QED
      BY <3>1, <3>2
  <2>8. QED
    BY <2>3, <2>4, <2>5, <2>6, <2>7 DEF TakenUpto
<1>12. QED
  BY <1>9, <1>10, <1>11

\* The names of a native image: in order, and all of them where there is room.
LEMMA NamesGiven ==
  ASSUME NEW img, Wellformed(img), Native(img)
  PROVE  LET told == section_names(img) IN
         /\ told.pos < NamesCap
         /\ \A i, j \in 1 .. Len(told.names) : i < j => told.names[i] < told.names[j]
         /\ img.half[62] \in 1 .. img.half[60] - 1 /\ NamesSize(img) < NamesCap
              /\ Len(img.sections) = img.half[60] /\ img.half[60] <= 40
            => \A k \in 1 .. Len(img.sections) :
                 img.sections[k] > 0 => Contains(told.names, k)
<1>1. PICK n \in Nat : n = Seen(img)
  BY SeenTyped DEF Wellformed
<1>2. PICK f \in [0 .. n -> NamesType] :
        /\ f[0] = NamesNone
        /\ \A k \in 1 .. n : f[k] = AddName(img, f[k - 1], k)
        /\ section_names(img) = f[n]
  BY <1>1, NamesFollow
<1>3. \A k \in 1 .. n : /\ k \in Nat \ {0} /\ NameLen(img, k) \in Nat /\ NameLen(img, k) <= NameMax
                        /\ f[k - 1] \in NamesType
  <2>1. ASSUME NEW k \in 1 .. n
        PROVE  k \in Nat \ {0} /\ NameLen(img, k) \in Nat /\ NameLen(img, k) <= NameMax
    <3>1. k \in Nat \ {0} /\ k \in 1 .. Seen(img)
      BY <1>1
    <3>2. QED
      BY <3>1, SeenTyped
  <2>2. ASSUME NEW k \in 1 .. n PROVE f[k - 1] \in NamesType
    <3>1. k - 1 \in 0 .. n
      OBVIOUS
    <3>2. QED
      BY <1>2, <3>1
  <2>3. QED
    BY <2>1, <2>2
<1> DEFINE T == {k \in Nat : k <= n => NamesOrdered(f[k], k)}
<1>4. 0 \in T
  <2>1. NamesOrdered(NamesNone, 0)
    <3>1. NamesNone.pos = 0 /\ Len(NamesNone.names) = 0 /\ NamesCap > 0 /\ NamesCap \in Nat
      BY LoaderAssumption DEF NamesNone
    <3>2. QED
      BY <3>1 DEF NamesOrdered
  <2>2. QED
    BY <1>2, <2>1
<1>5. ASSUME NEW k \in Nat, k \in T PROVE k + 1 \in T
  <2>1. SUFFICES ASSUME k + 1 <= n PROVE NamesOrdered(f[k + 1], k + 1)
    OBVIOUS
  <2>2. PICK e \in Nat \ {0} : e = k + 1
    OBVIOUS
  <2>3. e \in 1 .. n /\ e - 1 = k /\ NamesOrdered(f[e - 1], e - 1)
    BY <1>5, <2>1, <2>2
  <2>4. NamesOrdered(AddName(img, f[e - 1], e), e)
    BY <1>3, <2>3, NameAdded
  <2>5. QED
    BY <1>2, <2>2, <2>3, <2>4
<1>6. NamesOrdered(f[n], n)
  <2>1. n \in T
    <3> HIDE DEF T
    <3>1. QED
      BY <1>4, <1>5, ByInduction
  <2>2. QED
    BY <2>1
<1>7. ASSUME img.half[62] \in 1 .. img.half[60] - 1, NamesSize(img) < NamesCap,
             Len(img.sections) = img.half[60], img.half[60] <= 40
      PROVE  \A k \in 1 .. Len(img.sections) : img.sections[k] > 0 => Contains(f[n].names, k)
  <2>1. PICK m \in Nat, strings \in Nat : m = img.half[60] /\ strings = img.half[62]
    BY DEF Wellformed
  <2>2. m = Len(img.sections) /\ m <= 40 /\ strings \in 1 .. m - 1
    BY <1>7, <2>1
  <2>3. Named(img)
    <3>1. rd16(img, img.half[62]) = strings /\ rd16(img, img.half[60]) = m
      BY <2>1, NativeRead
    <3>2. QED
      BY <2>2, <3>1 DEF Named
  <2>4. n = m
    <3>1. rd16(img, img.half[60]) = m /\ InOrder(img)
      BY <2>1, NativeRead
    <3>2. Min({m, 40, m}) \in {m, 40, m} /\ Min({m, 40, m}) <= m /\ Min({m, 40, m}) <= 40
      BY TheSmallest
    <3>3. PICK least : least = Min({m, 40, m})
      OBVIOUS
    <3>4. least = m
      BY <2>2, <3>2, <3>3
    <3>5. QED
      BY <1>1, <2>2, <3>1, <3>3, <3>4 DEF Seen
  <2>5. PICK size \in [0 .. n -> Nat] :
          /\ size[0] = 0
          /\ \A k \in 1 .. n : size[k] = size[k - 1] + img.sections[k] + 1
                               /\ size[k] <= NamesSize(img)
    BY <2>2, <2>4, SizeFollow
  <2> DEFINE U == {k \in Nat : k <= n => TakenUpto(f[k], img, k, size[k])}
  <2>6. 0 \in U
    <3>1. f[0].pos = 0 /\ Len(f[0].names) = 0
      BY <1>2 DEF NamesNone
    <3>2. TakenUpto(f[0], img, 0, size[0])
      BY <3>1 DEF TakenUpto
    <3>3. QED
      BY <3>2
  <2>7. ASSUME NEW k \in Nat, k \in U PROVE k + 1 \in U
    <3>1. SUFFICES ASSUME k + 1 <= n PROVE TakenUpto(f[k + 1], img, k + 1, size[k + 1])
      OBVIOUS
    <3>2. PICK e \in Nat \ {0} : e = k + 1
      OBVIOUS
    <3>3. e \in 1 .. n /\ e - 1 = k /\ k \in 0 .. n
      BY <3>1, <3>2
    <3>4. TakenUpto(f[e - 1], img, e - 1, size[e - 1])
      BY <2>7, <3>3
    <3>5. PICK l \in Nat : l = img.sections[e]
      BY <1>1, <3>3, SeenTyped
    <3>6. NameLen(img, e) \in Nat /\ NameLen(img, e) <= l /\ (l > 0 => NameLen(img, e) > 0)
      BY <1>1, <2>3, <3>3, <3>5, SeenTyped
    <3>7. PICK before : before = size[e - 1]
      OBVIOUS
    <3>8. before \in Nat /\ size[e] = before + l + 1 /\ size[e] <= NamesSize(img)
      BY <2>5, <3>3, <3>5, <3>7
    <3>9. before + l + 1 < NamesCap
      <4>1. NamesSize(img) \in Nat
        BY SizeFollow
      <4>2. QED
        BY <1>7, <3>8, <4>1, LoaderAssumption
    <3>10. TakenUpto(AddName(img, f[e - 1], e), img, e, before + l + 1)
      BY <1>3, <3>3, <3>4, <3>5, <3>6, <3>7, <3>8, <3>9, NameTaken
    <3>11. QED
      BY <1>2, <3>2, <3>3, <3>8, <3>10
  <2>8. TakenUpto(f[n], img, n, size[n])
    <3>1. n \in U
      <4> HIDE DEF U
      <4>1. QED
        BY <2>6, <2>7, ByInduction
    <3>2. QED
      BY <3>1
  <2>9. ASSUME NEW k \in 1 .. Len(img.sections), img.sections[k] > 0
        PROVE  Contains(f[n].names, k)
    <3>1. k \in 1 .. n
      BY <2>2, <2>4
    <3>2. \E i \in 1 .. Len(f[n].names) : f[n].names[i] = k
      BY <2>8, <2>9, <3>1 DEF TakenUpto
    <3>3. QED
      BY <3>2 DEF Contains
  <2>10. QED
    BY <2>9
<1>8. QED
  <2>1. PICK told : told = section_names(img)
    OBVIOUS
  <2>2. told = f[n]
    BY <1>2, <2>1
  <2>3. /\ told.pos < NamesCap
        /\ \A i, j \in 1 .. Len(told.names) : i < j => told.names[i] < told.names[j]
    BY <1>6, <2>2 DEF NamesOrdered
  <2>4. QED
    BY <1>7, <2>1, <2>2, <2>3

\* The inductive invariant: what is resident is a library, what was started is none,
\* and the numbers given to handles are below the next one.
LoadedRight ==
  /\ image \in Images
  /\ (\E h \in Handles : handles[h].dl) => Format(image) = "ELF" /\ loader_is_library(image)
  /\ outcome = "started" => ~ loader_is_library(image)
  /\ outcome = "ENOTSUP" =>
       \/ Format(image) # "ELF"
       \/ loader_is_library(image)
  /\ outcome = "replaced" => image.lead = "#!" /\ Interpreter(image) # <<>>
HandleType == [id : Nat, format : AllFormats \cup {"UNKNOWN"}, mode : {"NONE", "INFO", "DLOPEN"},
               dl : BOOLEAN]
HandlesInv ==
  /\ handles \in [Handles -> HandleType] /\ next_id \in Nat \ {0}
  /\ \A h \in Handles : handles[h].id < next_id
  /\ HandlesSound
LoaderInv == LoadedRight /\ HandlesInv

\* The formats are told apart.
LEMMA ScriptLead ==
  ASSUME NEW img, Format(img) = "SCRIPT"
  PROVE  img.lead = "#!"
<1> SUFFICES ASSUME img.lead # "#!" PROVE FALSE
  OBVIOUS
<1>1. \A i \in 1 .. Len(MagicTable) : MagicTable[i] # "SCRIPT"
  <2>1. Len(MagicTable) = 6 /\ \A i \in 1 .. 6 : MagicTable[i] # "SCRIPT"
    BY DEF MagicTable
  <2>2. QED
    BY <2>1
<1>2. QED
  BY <1>1 DEF Format

\* What loading and unloading write into a handle.
LEMMA HandleFilled ==
  ASSUME NEW h \in Handles, NEW mode \in {"NONE", "INFO", "DLOPEN"}, NEW rc, HandlesInv,
         Fills(h, mode, rc)
  PROVE  /\ handles' \in [Handles -> HandleType]
         /\ handles'[h].id = next_id /\ handles'[h].mode = mode
         /\ handles'[h].dl <=> mode = "DLOPEN"
         /\ \A k \in Handles : k # h => handles'[k] = handles[k]
<1>1. PICK r : r = [id |-> next_id, format |-> Format(image), mode |-> mode, dl |-> mode = "DLOPEN"]
  OBVIOUS
<1>2. handles' = [handles EXCEPT ![h] = r]
  BY <1>1 DEF Fills
<1>3. r \in HandleType
  <2>1. Format(image) \in AllFormats \cup {"UNKNOWN"}
    BY FormatKnown
  <2>2. next_id \in Nat
    BY DEF HandlesInv
  <2>3. QED
    BY <1>1, <2>1, <2>2 DEF HandleType
<1>4. r.id = next_id /\ r.mode = mode /\ (r.dl <=> mode = "DLOPEN")
  BY <1>1
<1>5. handles'[h] = r /\ \A k \in Handles : k # h => handles'[k] = handles[k]
  BY <1>2 DEF HandlesInv
<1>6. handles' \in [Handles -> HandleType]
  BY <1>2, <1>3 DEF HandlesInv
<1>7. QED
  BY <1>4, <1>5, <1>6
LEMMA HandleCleared ==
  ASSUME NEW h \in Handles, HandlesInv, loader_unload_impl(h)
  PROVE  /\ handles' \in [Handles -> HandleType]
         /\ handles'[h].id = handles[h].id /\ handles'[h].mode = "NONE" /\ ~ handles'[h].dl
         /\ \A k \in Handles : k # h => handles'[k] = handles[k]
         /\ resident' = IF handles[h].dl THEN resident - 1 ELSE resident
<1>1. PICK r \in HandleType : r = handles[h]
  BY DEF HandlesInv
<1>2. r.dl <=> r.mode = "DLOPEN"
  BY <1>1 DEF HandlesInv, HandlesSound
<1>3. PICK c : c = [r EXCEPT !.mode = "NONE", !.dl = FALSE]
  OBVIOUS
<1>4. [r EXCEPT !.mode = "NONE", !.dl = ~(r.mode = "DLOPEN" /\ r.dl) /\ r.dl] = c
  <2>1. (~(r.mode = "DLOPEN" /\ r.dl) /\ r.dl) = FALSE
    BY <1>2
  <2>2. QED
    BY <1>3, <2>1
<1>5. handles' = [handles EXCEPT ![h] = c]
  BY <1>1, <1>4 DEF loader_unload_impl, HandlesInv
<1>6. c \in HandleType /\ c.id = r.id /\ c.mode = "NONE" /\ ~ c.dl
  BY <1>3 DEF HandleType
<1>7. handles'[h] = c /\ \A k \in Handles : k # h => handles'[k] = handles[k]
  BY <1>5 DEF HandlesInv
<1>8. handles' \in [Handles -> HandleType]
  BY <1>5, <1>6 DEF HandlesInv
<1>9. resident' = IF handles[h].dl THEN resident - 1 ELSE resident
  BY <1>1, <1>2 DEF loader_unload_impl
<1>10. QED
  BY <1>1, <1>6, <1>7, <1>8, <1>9

LEMMA LoadedStep == LoaderInv /\ [LoaderNext]_imageVars => LoadedRight'
<1> SUFFICES ASSUME LoaderInv, [LoaderNext]_imageVars PROVE LoadedRight'
  OBVIOUS
<1> USE DEF LoaderInv, LoadedRight
<1>1. ASSUME NEW h \in Handles, loader_load_impl(h) PROVE LoadedRight'
  <2>1. image' = image /\ outcome' \in {"ENOEXEC", "OK", "ENOENT"}
    BY <1>1 DEF loader_load_impl, Fills
  <2>2. ASSUME NEW k \in Handles, handles'[k].dl, ~handles[k].dl
        PROVE  Format(image) = "ELF" /\ loader_is_library(image)
    <3>1. CASE handles' = [handles EXCEPT ![h] = NoHandle]
      BY <2>2, <3>1 DEF NoHandle, HandlesInv
    <3>2. ASSUME NEW mode \in {"NONE", "INFO"}, NEW rc, Fills(h, mode, rc) PROVE FALSE
      BY <2>2, <3>2, HandleFilled
    <3>3. CASE Format(image) = "ELF" /\ loader_is_library(image)
      BY <3>3
    <3>4. QED
      BY <1>1, <3>1, <3>2, <3>3 DEF loader_load_impl
  <2>3. (\E k \in Handles : handles'[k].dl) => Format(image) = "ELF" /\ loader_is_library(image)
    BY <2>2
  <2>4. QED
    BY <2>1, <2>3
<1>2. ASSUME NEW h \in Handles, loader_unload_impl(h) PROVE LoadedRight'
  <2>1. image' = image /\ outcome' = "OK"
    BY <1>2 DEF loader_unload_impl
  <2>2. \A k \in Handles : handles'[k].dl => handles[k].dl
    BY <1>2, HandleCleared
  <2>3. QED
    BY <2>1, <2>2
<1>3. ASSUME loader_run_impl PROVE LoadedRight'
  <2>1. image' = image /\ handles' = handles
    BY <1>3 DEF loader_run_impl
  <2>2. CASE Format(image) = "SCRIPT" /\ run_script
    <3>1. outcome' \in {"ENOEXEC", "replaced", "ENOENT"}
          /\ (outcome' = "replaced" => Interpreter(image) # <<>>)
      BY <2>2 DEF run_script
    <3>2. QED
      BY <2>1, <2>2, <3>1, ScriptLead
  <2>3. CASE ~ Detected(image) /\ outcome' = "ENOEXEC"
    BY <2>1, <2>3
  <2>4. CASE /\ Format(image) = "ELF"
             /\ outcome' = IF ~ loader_elf_impl(image) THEN "ENOEXEC"
                           ELSE IF loader_is_library(image) THEN "ENOTSUP" ELSE "started"
    BY <2>1, <2>4
  <2>5. CASE Detected(image) /\ Format(image) \notin {"ELF", "SCRIPT"} /\ outcome' = "ENOTSUP"
    BY <2>1, <2>5
  <2>6. QED
    BY <1>3, <2>2, <2>3, <2>4, <2>5 DEF loader_run_impl
<1>4. CASE UNCHANGED imageVars
  BY <1>4 DEF imageVars
<1>5. QED
  BY <1>1, <1>2, <1>3, <1>4 DEF LoaderNext

LEMMA HandlesStep == LoaderInv /\ [LoaderNext]_imageVars => HandlesInv'
<1> SUFFICES ASSUME LoaderInv, [LoaderNext]_imageVars PROVE HandlesInv'
  OBVIOUS
<1> USE DEF LoaderInv, HandlesInv, HandlesSound
<1>0. PICK lib : lib = {h \in Handles : handles[h].dl}
  OBVIOUS
<1>a. IsFiniteSet(lib) /\ resident = Cardinality(lib)
  BY <1>0, FS_Subset, LoaderAssumption
<1>b. resident \in Nat
  BY <1>a, FS_CardinalityType
<1>1. ASSUME NEW h \in Handles, NEW mode \in {"NONE", "INFO", "DLOPEN"}, NEW rc,
             ~ handles[h].dl, Fills(h, mode, rc)
      PROVE  HandlesInv'
  <2>1. /\ handles' \in [Handles -> HandleType] /\ next_id' = next_id + 1
        /\ handles'[h].id = next_id /\ handles'[h].mode = mode
        /\ handles'[h].dl <=> mode = "DLOPEN"
        /\ \A k \in Handles : k # h => handles'[k] = handles[k]
    <3>1. next_id' = next_id + 1
      BY <1>1 DEF Fills
    <3>2. QED
      BY <1>1, <3>1, HandleFilled
  <2>2. next_id' \in Nat \ {0}
        /\ \A k \in Handles : /\ handles'[k].id < next_id'
                              /\ handles'[k].dl <=> handles'[k].mode = "DLOPEN"
    <3>1. ASSUME NEW k \in Handles PROVE /\ handles'[k].id < next_id'
                                         /\ handles'[k].dl <=> handles'[k].mode = "DLOPEN"
      <4>1. CASE k = h
        BY <2>1, <4>1
      <4>2. CASE k # h
        <5>1. handles[k].id \in Nat
          BY DEF HandleType
        <5>2. QED
          BY <2>1, <4>2, <5>1
      <4>3. QED
        BY <4>1, <4>2
    <3>2. QED
      BY <2>1, <3>1
  <2>3. \A k, l \in Handles : k # l /\ handles'[k].id # 0 => handles'[k].id # handles'[l].id
    <3>1. ASSUME NEW k \in Handles, NEW l \in Handles, k # l, handles'[k].id # 0,
                 handles'[k].id = handles'[l].id PROVE FALSE
      <4>1. CASE k # h /\ l # h
        BY <2>1, <3>1, <4>1
      <4>2. CASE k = h
        BY <2>1, <3>1, <4>2
      <4>3. CASE l = h
        BY <2>1, <3>1, <4>3
      <4>4. QED
        BY <4>1, <4>2, <4>3
    <3>2. QED
      BY <3>1
  <2>4. resident' = Cardinality({k \in Handles : handles'[k].dl})
    <3>1. h \notin lib
      BY <1>0, <1>1
    <3>2. CASE mode = "DLOPEN"
      <4>1. {k \in Handles : handles'[k].dl} = lib \cup {h}
        BY <1>0, <2>1, <3>2
      <4>2. resident' = resident + 1
        BY <1>1, <3>2 DEF Fills
      <4>3. Cardinality(lib \cup {h}) = Cardinality(lib) + 1
        BY <1>a, <3>1, FS_AddElement
      <4>4. QED
        BY <1>a, <4>1, <4>2, <4>3
    <3>3. CASE mode # "DLOPEN"
      <4>1. {k \in Handles : handles'[k].dl} = lib
        BY <1>0, <2>1, <3>1, <3>3
      <4>2. resident' = resident
        BY <1>1, <3>3 DEF Fills
      <4>3. QED
        BY <1>a, <4>1, <4>2
    <3>4. QED
      BY <3>2, <3>3
  <2>5. QED
    BY <2>1, <2>2, <2>3, <2>4
<1>2. ASSUME NEW h \in Handles, ~ handles[h].dl, handles' = [handles EXCEPT ![h] = NoHandle],
             UNCHANGED <<next_id, resident>>
      PROVE  HandlesInv'
  <2>1. /\ handles' \in [Handles -> HandleType]
        /\ handles'[h].id = 0 /\ handles'[h].mode = "NONE" /\ ~ handles'[h].dl
        /\ \A k \in Handles : k # h => handles'[k] = handles[k]
    <3>1. NoHandle \in HandleType
      BY DEF NoHandle, HandleType
    <3>2. NoHandle.id = 0 /\ NoHandle.mode = "NONE" /\ ~ NoHandle.dl
      BY DEF NoHandle
    <3>3. QED
      BY <1>2, <3>1, <3>2
  <2>2. {k \in Handles : handles'[k].dl} = lib
    BY <1>0, <1>2, <2>1
  <2>3. \A k \in Handles : /\ handles'[k].id < next_id
                           /\ handles'[k].dl <=> handles'[k].mode = "DLOPEN"
    <3>1. ASSUME NEW k \in Handles PROVE /\ handles'[k].id < next_id
                                         /\ handles'[k].dl <=> handles'[k].mode = "DLOPEN"
      <4>1. CASE k = h
        BY <2>1, <4>1
      <4>2. CASE k # h
        BY <2>1, <4>2
      <4>3. QED
        BY <4>1, <4>2
    <3>2. QED
      BY <3>1
  <2>4. \A k, l \in Handles : k # l /\ handles'[k].id # 0 => handles'[k].id # handles'[l].id
    <3>1. ASSUME NEW k \in Handles, NEW l \in Handles, k # l, handles'[k].id # 0,
                 handles'[k].id = handles'[l].id PROVE FALSE
      <4>1. k # h /\ l # h
        BY <2>1, <3>1
      <4>2. QED
        BY <2>1, <3>1, <4>1
    <3>2. QED
      BY <3>1
  <2>5. QED
    BY <1>2, <1>a, <2>1, <2>2, <2>3, <2>4
<1>3. ASSUME NEW h \in Handles, loader_load_impl(h) PROVE HandlesInv'
  <2>1. ~ handles[h].dl
    BY <1>3 DEF loader_load_impl
  <2>2. \/ handles' = [handles EXCEPT ![h] = NoHandle] /\ UNCHANGED <<next_id, resident>>
        \/ \E mode \in {"NONE", "INFO", "DLOPEN"}, rc \in {"OK", "ENOENT", "ENOEXEC"} : Fills(h, mode, rc)
    BY <1>3 DEF loader_load_impl
  <2>3. QED
    BY <1>1, <1>2, <2>1, <2>2
<1>4. ASSUME NEW h \in Handles, loader_unload_impl(h) PROVE HandlesInv'
  <2>1. /\ handles' \in [Handles -> HandleType] /\ next_id' = next_id
        /\ handles'[h].id = handles[h].id /\ handles'[h].mode = "NONE" /\ ~ handles'[h].dl
        /\ \A k \in Handles : k # h => handles'[k] = handles[k]
    <3>1. next_id' = next_id
      BY <1>4 DEF loader_unload_impl
    <3>2. QED
      BY <1>4, <3>1, HandleCleared
  <2>2. {k \in Handles : handles'[k].dl} = lib \ {h}
    BY <1>0, <2>1
  <2>3. resident' = Cardinality(lib \ {h})
    <3>1. resident' = IF h \in lib THEN resident - 1 ELSE resident
      BY <1>0, <1>4, HandleCleared
    <3>2. Cardinality(lib \ {h}) = IF h \in lib THEN Cardinality(lib) - 1 ELSE Cardinality(lib)
      BY <1>a, FS_RemoveElement
    <3>3. QED
      BY <1>a, <3>1, <3>2
  <2>4. \A k \in Handles : handles'[k].id = handles[k].id
    BY <2>1
  <2>5. \A k \in Handles : handles'[k].dl <=> handles'[k].mode = "DLOPEN"
    BY <2>1
  <2>6. QED
    BY <2>1, <2>2, <2>3, <2>4, <2>5, ZenonT(60)
<1>5. CASE UNCHANGED <<handles, next_id, resident>>
  BY <1>5
<1>6. loader_run_impl => UNCHANGED <<handles, next_id, resident>>
  BY DEF loader_run_impl
<1>7. UNCHANGED imageVars => UNCHANGED <<handles, next_id, resident>>
  BY DEF imageVars
<1>8. QED
  BY <1>3, <1>4, <1>5, <1>6, <1>7 DEF LoaderNext

\* What the loader believes of a native image is what the image declares, only a script
\* replaces its caller, formats and names are told, and handles agree with the linker.
THEOREM LoaderIsSound == LoaderSpec => []LoaderSound
<1>1. LoaderInit => LoaderInv
  <2> SUFFICES ASSUME LoaderInit PROVE LoaderInv
    OBVIOUS
  <2>1. \A h \in Handles : handles[h].id = 0 /\ handles[h].dl = FALSE /\ handles[h].mode = "NONE"
    BY DEF LoaderInit, NoHandle
  <2>2. {h \in Handles : handles[h].dl} = {}
    BY <2>1
  <2>3. HandlesSound
    BY <2>1, <2>2, FS_EmptySet DEF LoaderInit, HandlesSound
  <2>4. QED
    <3>1. NoHandle \in HandleType
      BY DEF NoHandle, HandleType
    <3>2. QED
      BY <2>1, <2>3, <3>1 DEF LoaderInit, LoaderInv, LoadedRight, HandlesInv
<1>2. LoaderInv /\ [LoaderNext]_imageVars => LoaderInv'
  BY LoadedStep, HandlesStep DEF LoaderInv
<1>3. LoaderInv => LoaderSound
  <2> SUFFICES ASSUME LoaderInv PROVE ImageUnderstood
    BY DEF LoaderInv, HandlesInv, LoaderSound
  <2>1. Wellformed(image)
    BY ImagesWellformed DEF LoaderInv, LoadedRight
  <2>2. resident > 0 => \E h \in Handles : handles[h].dl
    <3>1. SUFFICES ASSUME ~ \E h \in Handles : handles[h].dl PROVE resident = 0
      OBVIOUS
    <3>2. {h \in Handles : handles[h].dl} = {}
      BY <3>1
    <3>3. QED
      BY <3>2, FS_EmptySet DEF LoaderInv, HandlesInv, HandlesSound
  <2>3. ASSUME Native(image)
        PROVE  /\ outcome = "started" => ~ DeclaresLibrary(image)
               /\ outcome = "ENOTSUP" \/ resident > 0 => DeclaresLibrary(image)
    <3>1. Format(image) = "ELF" /\ (loader_is_library(image) <=> DeclaresLibrary(image))
      BY <2>1, <2>3, LibraryDeclared DEF Native
    <3>2. QED
      BY <2>2, <3>1 DEF LoaderInv, LoadedRight
  <2>4. outcome = "replaced" => image.lead = "#!" /\ image.line[1] \notin {" ", "\t", "\n"}
    BY <2>1, InterpreterNamed DEF LoaderInv, LoadedRight
  <2>5. QED
    BY <2>1, <2>3, <2>4, FormatsTold, NamesGiven DEF ImageUnderstood
<1>4. QED
  BY <1>1, <1>2, <1>3, PTL DEF LoaderSpec
=============================================================================

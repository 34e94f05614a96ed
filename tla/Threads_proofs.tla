--------------------------- MODULE Threads_proofs ---------------------------
(* Theorems about what threads, or processes, use at the same time: the routes *)
(* of the kernel, the repository of GIT, the keys and the users of SP, the     *)
(* sockets of NP, the file of the params command, the child processes of the   *)
(* bus.  Each part has its own inductive invariant; they share no state.       *)
EXTENDS SpUsers, SpKeys, Repository, KernelRoutes, Network, ParamStore, Processes, ListFacts

-----------------------------------------------------------------------------
(* The routes of the kernel: KernelRoutes, for any number of threads and    *)
(* names.                                                                   *)

\* Once the kernel has answered, a thread has the entry of the name it asked for.
AnswersFit ==
  \A t \in Threads : at[t] \in {"clear", "version", "provider", "holds"} =>
    d[t] \in KernelEntry /\ d[t].protocol = CutName[want[t]]

\* Two threads that use the route at the same time are known to share it.
SharersMixed ==
  \A t, u \in Threads : t # u /\ UsesRoute(t) /\ UsesRoute(u) => t \in mixed

\* The fields a thread has filled are its own, if it is alone.
FieldsOwn ==
  \A t \in Threads : t \notin mixed =>
    /\ at[t] \in {"provider", "holds"} => g_kernel_route.version = d[t].version
    /\ at[t] = "holds" => g_kernel_route.plugin_id = d[t].provider

KInv == KernelTypeOK /\ EntriesUnique /\ AnswersFit /\ SharersMixed /\ FieldsOwn

\* Nobody has a route before the first call.
LEMMA KernelInitInv == KernelInit => KInv
  BY KernelAssumption DEF KernelInit, KInv, KernelTypeOK, ResolveSteps, EntriesUnique, AnswersFit, SharersMixed,
     FieldsOwn, UsesRoute, NoEntry

\* Each operation of the kernel and each step of hw_bus_resolve_ex keeps it.
LEMMA KernelStepInv == KInv /\ [KernelNext]_kernelVars => KInv'
<1> SUFFICES ASSUME KInv, [KernelNext]_kernelVars PROVE KInv'
  OBVIOUS
<1> USE KernelAssumption DEF KInv, KernelTypeOK, ResolveSteps
<1>1. ASSUME NEW p \in Protocols, NEW v \in ProtoVersions, NEW q \in Providers,
             hwrun_protocol_register(CutName[p], v, q)
      PROVE KInv'
  <2>1. CutName[p] \in Protocols /\ CutName[CutName[p]] = CutName[p]
    OBVIOUS
  <2>2. KernelTypeOK'
    BY <1>1, <2>1 DEF hwrun_protocol_register, KernelEntry
  <2>3. EntriesUnique'
    BY <1>1, <2>1 DEF hwrun_protocol_register, EntriesUnique
  <2>4. AnswersFit' /\ SharersMixed' /\ FieldsOwn'
    BY <1>1 DEF hwrun_protocol_register, AnswersFit, SharersMixed, FieldsOwn, UsesRoute
  <2> QED BY <2>2, <2>3, <2>4
<1>2. ASSUME NEW p \in Protocols, NEW q \in Providers, hwrun_protocol_unregister(CutName[p], q)
      PROVE KInv'
  BY <1>2 DEF hwrun_protocol_unregister, EntriesUnique, AnswersFit, SharersMixed, FieldsOwn,
     UsesRoute
<1>3. CASE ModuleLoads
  BY <1>3 DEF ModuleLoads, EntriesUnique, AnswersFit, SharersMixed, FieldsOwn, UsesRoute
<1>4. CASE ModuleExits
  BY <1>4 DEF ModuleExits, EntriesUnique, AnswersFit, SharersMixed, FieldsOwn, UsesRoute
<1>5. ASSUME NEW p \in Protocols, LocalChange(p) PROVE KInv'
  BY <1>5 DEF LocalChange, EntriesUnique, AnswersFit, SharersMixed, FieldsOwn, UsesRoute
<1>6. ASSUME NEW t \in Threads, NEW p \in Protocols, ResolveMisses(t, p) PROVE KInv'
  BY <1>6 DEF ResolveMisses, Resolving, EntriesUnique, AnswersFit, SharersMixed, FieldsOwn, UsesRoute
<1>7. ASSUME NEW t \in Threads, ResolveInKernel(t) PROVE KInv'
  <2>1. KernelTypeOK' /\ EntriesUnique'
    BY <1>7 DEF ResolveInKernel, Resolving, EntriesUnique
  <2>2. AnswersFit'
    BY <1>7 DEF ResolveInKernel, Resolving, AnswersFit
  <2>3. SharersMixed' /\ FieldsOwn'
    BY <1>7 DEF ResolveInKernel, Resolving, SharersMixed, FieldsOwn, UsesRoute
  <2> QED BY <2>1, <2>2, <2>3
<1>8. ASSUME NEW t \in Threads, ClearRoute(t) PROVE KInv'
  <2>1. KernelTypeOK' /\ EntriesUnique' /\ AnswersFit'
    BY <1>8 DEF ClearRoute, Resolving, EntriesUnique, AnswersFit
  <2>2. SharersMixed'
    BY <1>8 DEF ClearRoute, Resolving, SharersMixed, UsesRoute
  <2>3. FieldsOwn'
    BY <1>8 DEF ClearRoute, Resolving, FieldsOwn, UsesRoute
  <2> QED BY <2>1, <2>2, <2>3
<1>9. ASSUME NEW t \in Threads, FillVersion(t) PROVE KInv'
  <2>1. d[t] \in KernelEntry
    BY <1>9 DEF FillVersion, AnswersFit
  <2>2. KernelTypeOK' /\ EntriesUnique' /\ AnswersFit' /\ SharersMixed'
    BY <1>9, <2>1 DEF FillVersion, Resolving, EntriesUnique, AnswersFit, SharersMixed, UsesRoute, KernelEntry
  <2>3. FieldsOwn'
    BY <1>9 DEF FillVersion, Resolving, FieldsOwn, SharersMixed, UsesRoute
  <2> QED BY <2>2, <2>3
<1>10. ASSUME NEW t \in Threads, FillProvider(t) PROVE KInv'
  <2>1. d[t] \in KernelEntry
    BY <1>10 DEF FillProvider, AnswersFit
  <2>2. KernelTypeOK' /\ EntriesUnique' /\ AnswersFit' /\ SharersMixed'
    BY <1>10, <2>1 DEF FillProvider, Resolving, EntriesUnique, AnswersFit, SharersMixed, UsesRoute, KernelEntry
  <2>3. FieldsOwn'
    BY <1>10 DEF FillProvider, Resolving, FieldsOwn, SharersMixed, UsesRoute
  <2> QED BY <2>2, <2>3
<1>11. ASSUME NEW t \in Threads, LetGo(t) PROVE KInv'
  BY <1>11 DEF LetGo, Resolving, EntriesUnique, AnswersFit, SharersMixed, FieldsOwn, UsesRoute
<1>12. CASE UNCHANGED kernelVars
  BY <1>12 DEF kernelVars, EntriesUnique, AnswersFit, SharersMixed, FieldsOwn, UsesRoute
<1> QED
  BY <1>1, <1>2, <1>3, <1>4, <1>5, <1>6, <1>7, <1>8, <1>9, <1>10, <1>11, <1>12 DEF KernelNext

\* The table has one provider for a name, and a route that is not shared says
\* what the kernel answered: hwrun_core.c and hw_bus_resolve_ex, whoever
\* registers, resolves or removes the module meanwhile.
THEOREM KernelSound == KernelSpec => []KernelRoutesSound
<1>1. KInv => KernelRoutesSound
  BY DEF KInv, KernelRoutesSound, RouteDescribes, AnswersFit, FieldsOwn, KernelTypeOK, KernelEntry
<1> QED BY <1>1, KernelInitInv, KernelStepInv, PTL DEF KernelSpec

-----------------------------------------------------------------------------
(* The git plugin: Repository.                                             *)

Commits == Seq(SUBSET Files)
Repo == [exists : BOOLEAN, log : Commits, other : Commits, staged : SUBSET Files,
         tags : Seq(Tags \X SUBSET Files), remote : Commits]
OpStates == [pc : {"idle", "command", "after", "rev-parse"}, op : Operations \cup {"none"},
             arg : Files \cup Tags \cup {"none"}, ok : BOOLEAN]

\* The operations that have written their first line and not their second, and
\* of those the ones whose command has not run.
Announced == {t \in Threads : ops[t].pc \in {"command", "after"}}
Pending(op) == {t \in Threads : ops[t].pc = "command" /\ ops[t].op = op}

RepositoryShape ==
  /\ repo \in Repo /\ ops \in [Threads -> OpStates]
  /\ audit \in [Operations \cup {"compact"} -> Nat] /\ applied \in [Operations -> Nat]
  /\ unlogged \in Nat /\ started \in 0 .. MaxCalls
  /\ \A t \in Threads : ops[t].pc # "idle" =>
       ops[t].op \in Operations /\ ops[t].arg \in Arguments(ops[t].op)
  /\ IsFiniteSet(Announced)

\* A call that was started accounts for two lines, written or not, and the second
\* is still to come while its operation is announced.
LinesCounted ==
  /\ \A op \in Operations \cup {"compact"} : audit[op] + Cardinality(Announced) <= 2 * started
  /\ unlogged + Cardinality(Announced) <= 2 * started

\* A command that may still change the repository has its line, besides those
\* that have changed it.
ChangesCounted ==
  \A op \in Operations : /\ applied[op] + Cardinality(Pending(op)) <= audit[op] + unlogged
                         /\ applied[op] + Cardinality(Pending(op)) <= started

RepositoryInv == RepositoryShape /\ LinesCounted /\ ChangesCounted

\* What a command makes of a repository is a repository.
LEMMA CommandTyped ==
  ASSUME repo \in Repo, NEW op \in Operations, NEW arg \in Arguments(op), NEW new \in Command(op, arg)
  PROVE  new \in Repo
<1>1. /\ repo.log \in Commits /\ repo.other \in Commits /\ repo.remote \in Commits
      /\ repo.staged \in SUBSET Files /\ repo.tags \in Seq(Tags \X SUBSET Files)
  BY DEF Repo
<1>2. ASSUME NEW s \in Commits, s # <<>>
      PROVE  Last(s) \in SUBSET Files /\ Front(s) \in Commits
  BY <1>2 DEF Commits, Last, Front
<1>3. ASSUME NEW s \in Commits, NEW c \in SUBSET Files PROVE Append(s, c) \in Commits
  BY DEF Commits
<1>4. CASE ~repo.exists
  <2>1. op = "init" /\ new = [repo EXCEPT !.exists = TRUE]
    BY <1>4 DEF Command
  <2>2. QED
    BY <2>1 DEF Repo
<1>5. CASE repo.exists /\ op \in {"init", "clone"}
  BY <1>5 DEF Command
<1>6. CASE repo.exists /\ op = "add"
  <2>1. new = [repo EXCEPT !.staged = @ \cup {arg}] /\ arg \in Files
    BY <1>6 DEF Command, Arguments
  <2>2. QED
    BY <2>1 DEF Repo
<1>7. CASE repo.exists /\ op = "commit"
  <2>1. new = [repo EXCEPT !.log = Append(@, repo.staged), !.staged = {}]
    BY <1>7 DEF Command
  <2>2. QED
    BY <1>1, <1>3, <2>1 DEF Repo
<1>8. CASE repo.exists /\ op = "tag"
  <2>1. new = [repo EXCEPT !.tags = Append(@, <<arg, Last(repo.log)>>)] /\ repo.log # <<>>
        /\ arg \in Tags
    BY <1>8 DEF Command, Arguments
  <2>2. Append(repo.tags, <<arg, Last(repo.log)>>) \in Seq(Tags \X SUBSET Files)
    BY <1>1, <1>2, <2>1
  <2>3. QED
    BY <2>1, <2>2 DEF Repo
<1>9. CASE repo.exists /\ op \in {"reset --hard", "reset --soft"}
  <2>1. /\ Len(repo.log) > 1
        /\ \/ new = [repo EXCEPT !.log = Front(@), !.staged = {}]
           \/ new = [repo EXCEPT !.log = Front(@), !.staged = @ \cup Last(repo.log)]
    BY <1>9 DEF Command
  <2>2. repo.log # <<>>
    BY <2>1
  <2>3. QED
    BY <1>1, <1>2, <2>1, <2>2 DEF Repo
<1>10. CASE repo.exists /\ op = "revert"
  <2>1. repo.log # <<>> /\ new = [repo EXCEPT !.log = Append(@, Last(repo.log))]
    BY <1>10 DEF Command
  <2>2. QED
    BY <1>1, <1>2, <1>3, <2>1 DEF Repo
<1>11. CASE repo.exists /\ op \in {"push", "pull", "branch", "checkout"}
  <2>1. \/ new = [repo EXCEPT !.remote = repo.log] \/ new = [repo EXCEPT !.log = repo.remote]
        \/ new = [repo EXCEPT !.other = repo.log]
        \/ new = [repo EXCEPT !.log = repo.other, !.other = repo.log]
    BY <1>11 DEF Command
  <2>2. QED
    BY <1>1, <2>1 DEF Repo
<1>12. CASE repo.exists /\ op = "merge"
  <2>1. repo.other # <<>> /\ new = [repo EXCEPT !.log = Merged(@, repo.other)]
    BY <1>12 DEF Command
  <2>2. Merged(repo.log, repo.other) \in Commits
    BY <1>1, <1>2, <1>3, <2>1 DEF Merged
  <2>3. QED
    BY <1>1, <2>1, <2>2 DEF Repo
<1>13. QED
  BY <1>4, <1>5, <1>6, <1>7, <1>8, <1>9, <1>10, <1>11, <1>12 DEF Operations

\* The line that AuditWrite writes, or could not write, is one of the counts.
LEMMA AuditCounts ==
  ASSUME RepositoryShape, NEW op \in Operations \cup {"compact"}, AuditWrite(op)
  PROVE  /\ audit' \in [Operations \cup {"compact"} -> Nat] /\ unlogged' \in Nat
         /\ \A o \in Operations \cup {"compact"} :
              audit'[o] + unlogged' = audit[o] + unlogged + (IF o = op \/ audit' = audit THEN 1 ELSE 0)
         /\ \A o \in Operations \cup {"compact"} : audit[o] <= audit'[o] /\ audit'[o] <= audit[o] + 1
         /\ unlogged <= unlogged' /\ unlogged' <= unlogged + 1
<1>1. audit \in [Operations \cup {"compact"} -> Nat] /\ unlogged \in Nat
  BY DEF RepositoryShape
<1>2. CASE audit' = [audit EXCEPT ![op] = @ + 1] /\ unlogged' = unlogged
  BY <1>1, <1>2
<1>3. CASE unlogged' = unlogged + 1 /\ audit' = audit
  BY <1>1, <1>3
<1>4. QED
  BY <1>2, <1>3 DEF AuditWrite

\* The sets the counts are made of are finite, and one operation counts once.
LEMMA PendingFinite ==
  ASSUME RepositoryShape
  PROVE  /\ Cardinality(Announced) \in Nat
         /\ \A op : IsFiniteSet(Pending(op)) /\ Cardinality(Pending(op)) \in Nat
<1>1. IsFiniteSet(Announced)
  BY DEF RepositoryShape
<1>2. ASSUME NEW op PROVE IsFiniteSet(Pending(op))
  <2>1. Pending(op) \in SUBSET Announced
    BY DEF Pending, Announced
  <2>2. QED
    BY <1>1, <2>1, FS_Subset
<1>3. QED
  BY <1>1, <1>2, FS_CardinalityType

\* StartOp: one more operation is announced, and may change the repository.
LEMMA StartOpKeeps ==
  ASSUME RepositoryInv, NEW t \in Threads, NEW op \in Operations, NEW arg \in Arguments(op),
         StartOp(t, op, arg)
  PROVE  RepositoryInv'
<1>1. RepositoryShape /\ op \in Operations \cup {"compact"} /\ MaxCalls \in Nat
  BY RepositoryAssumption DEF RepositoryInv
<1>2. /\ ops \in [Threads -> OpStates] /\ started \in 0 .. MaxCalls /\ started < MaxCalls
      /\ started' = started + 1 /\ started' \in 0 .. MaxCalls /\ started \in Nat
      /\ ops[t].pc = "idle" /\ applied' = applied /\ repo' = repo /\ applied \in [Operations -> Nat]
      /\ ops' = [ops EXCEPT ![t] = [pc |-> "command", op |-> op, arg |-> arg, ok |-> FALSE]]
      /\ AuditWrite(op)
  BY <1>1 DEF StartOp, RepositoryShape
<1>3. arg \in Files \cup Tags \cup {"none"}
  BY DEF Arguments
<1>4. ops' \in [Threads -> OpStates]
  BY <1>2, <1>3 DEF OpStates
<1>5. /\ Announced' = Announced \cup {t} /\ t \notin Announced
      /\ Pending(op)' = Pending(op) \cup {t} /\ t \notin Pending(op)
      /\ \A o \in Operations \ {op} : Pending(o)' = Pending(o)
  BY <1>2 DEF Announced, Pending
<1>6. /\ IsFiniteSet(Announced') /\ Cardinality(Announced') = Cardinality(Announced) + 1
      /\ Cardinality(Pending(op)') = Cardinality(Pending(op)) + 1
  <2>1. IsFiniteSet(Announced) /\ IsFiniteSet(Pending(op))
    BY <1>1, PendingFinite DEF RepositoryShape
  <2>2. QED
    BY <1>5, <2>1, FS_AddElement, ZenonT(60)
<1>7. /\ audit' \in [Operations \cup {"compact"} -> Nat] /\ unlogged' \in Nat
      /\ audit'[op] + unlogged' = audit[op] + unlogged + 1
      /\ \A o \in Operations \cup {"compact"} : /\ audit[o] + unlogged <= audit'[o] + unlogged'
                                              /\ audit'[o] <= audit[o] + 1
      /\ unlogged' <= unlogged + 1
  <2>1. audit \in [Operations \cup {"compact"} -> Nat] /\ unlogged \in Nat
    BY <1>1 DEF RepositoryShape
  <2>2. QED
    BY <1>1, <1>2, <2>1, AuditCounts
<1>8. RepositoryShape'
  <2>1. \A u \in Threads : ops'[u].pc # "idle" =>
          ops'[u].op \in Operations /\ ops'[u].arg \in Arguments(ops'[u].op)
    BY <1>1, <1>2 DEF RepositoryShape
  <2>2. QED
    BY <1>1, <1>2, <1>4, <1>6, <1>7, <2>1 DEF RepositoryShape
<1>9. /\ Cardinality(Announced) \in Nat /\ \A o \in Operations : Cardinality(Pending(o)) \in Nat
      /\ audit \in [Operations \cup {"compact"} -> Nat] /\ unlogged \in Nat
  BY <1>1, PendingFinite DEF RepositoryShape
<1>10. LinesCounted'
  <2>1. LinesCounted
    BY DEF RepositoryInv
  <2>2. QED
    BY <1>2, <1>6, <1>7, <1>9, <2>1 DEF LinesCounted
<1>11. ASSUME NEW o \in Operations
       PROVE  /\ applied'[o] + Cardinality(Pending(o)') <= audit'[o] + unlogged'
              /\ applied'[o] + Cardinality(Pending(o)') <= started'
  <2>1. /\ applied[o] + Cardinality(Pending(o)) <= audit[o] + unlogged
        /\ applied[o] + Cardinality(Pending(o)) <= started
    BY DEF RepositoryInv, ChangesCounted
  <2>2. applied[o] \in Nat /\ audit[o] \in Nat /\ audit'[o] \in Nat
    BY <1>2, <1>7, <1>9
  <2>3. CASE o = op
    BY <1>2, <1>6, <1>7, <1>9, <2>1, <2>2, <2>3
  <2>4. CASE o # op
    BY <1>2, <1>5, <1>7, <1>9, <2>1, <2>2, <2>4
  <2>5. QED
    BY <2>3, <2>4
<1>12. QED
  BY <1>8, <1>10, <1>11 DEF RepositoryInv, ChangesCounted

\* Execute: the change, if there is one, is the pending one of this operation.
LEMMA ExecuteKeeps ==
  ASSUME RepositoryInv, NEW t \in Threads, Execute(t) PROVE RepositoryInv'
<1>1. RepositoryShape /\ LinesCounted /\ ChangesCounted
  BY DEF RepositoryInv
<1>0. PICK op \in Operations : op = ops[t].op
  BY <1>1 DEF Execute, RepositoryShape
<1>2. /\ ops \in [Threads -> OpStates] /\ ops[t].pc = "command" /\ ops[t].op = op
      /\ ops[t].arg \in Arguments(op)
      /\ audit' = audit /\ unlogged' = unlogged /\ started' = started /\ started \in Nat
      /\ applied \in [Operations -> Nat] /\ repo \in Repo
      /\ audit \in [Operations \cup {"compact"} -> Nat] /\ unlogged \in Nat
  BY <1>1, <1>0, RepositoryAssumption DEF Execute, RepositoryShape
<1>3. /\ \/ ops' = [ops EXCEPT ![t] = [ops[t] EXCEPT !.pc = "after", !.ok = TRUE]]
         \/ ops' = [ops EXCEPT ![t] = [ops[t] EXCEPT !.pc = "after"]]
      /\ applied' = applied \/ applied' = [applied EXCEPT ![op] = @ + 1]
      /\ repo' \in Repo
  <2>1. ASSUME NEW new \in Command(ops[t].op, ops[t].arg) PROVE new \in Repo
    BY <1>2, CommandTyped
  <2>2. QED
    BY <1>2, <2>1 DEF Execute
<1>4. /\ ops' \in [Threads -> OpStates]
      /\ ops'[t].pc = "after" /\ ops'[t].op = op /\ ops'[t].arg = ops[t].arg
      /\ \A u \in Threads \ {t} : ops'[u] = ops[u]
  <2>1. ops[t] \in OpStates
    BY <1>2
  <2>2. ASSUME NEW e \in OpStates
        PROVE  LET x == [e EXCEPT !.pc = "after", !.ok = TRUE]
                   y == [e EXCEPT !.pc = "after"]
               IN /\ x \in OpStates /\ x.pc = "after" /\ x.op = e.op /\ x.arg = e.arg
                  /\ y \in OpStates /\ y.pc = "after" /\ y.op = e.op /\ y.arg = e.arg
    BY DEF OpStates
  <2>3. PICK v \in OpStates : /\ v.pc = "after" /\ v.op = ops[t].op /\ v.arg = ops[t].arg
                             /\ ops' = [ops EXCEPT ![t] = v]
    BY <1>3, <2>1, <2>2
  <2>4. QED
    BY <1>2, <2>3
<1>5. /\ Announced' = Announced
      /\ Pending(op)' = Pending(op) \ {t} /\ t \in Pending(op)
      /\ \A o \in Operations \ {op} : Pending(o)' = Pending(o)
  BY <1>2, <1>4 DEF Announced, Pending
<1>6. /\ Cardinality(Pending(op)') = Cardinality(Pending(op)) - 1
      /\ \A o \in Operations : Cardinality(Pending(o)) \in Nat
  <2>1. IsFiniteSet(Pending(op))
    BY <1>1, PendingFinite
  <2>2. QED
    BY <1>1, <1>5, <2>1, FS_RemoveElement, PendingFinite, ZenonT(60)
<1>7. RepositoryShape'
  BY <1>1, <1>2, <1>3, <1>4, <1>5 DEF RepositoryShape
<1>8. LinesCounted'
  BY <1>1, <1>2, <1>5 DEF LinesCounted
<1>9. ASSUME NEW o \in Operations
      PROVE  /\ applied'[o] + Cardinality(Pending(o)') <= audit'[o] + unlogged'
             /\ applied'[o] + Cardinality(Pending(o)') <= started'
  <2>1. /\ applied[o] + Cardinality(Pending(o)) <= audit[o] + unlogged
        /\ applied[o] + Cardinality(Pending(o)) <= started
    BY <1>1 DEF ChangesCounted
  <2>2. applied[o] \in Nat /\ audit[o] \in Nat
    BY <1>2
  <2>3. applied'[o] = applied[o] \/ (o = op /\ applied'[o] = applied[o] + 1)
    BY <1>2, <1>3
  <2>4. CASE o = op
    BY <1>2, <1>6, <2>1, <2>2, <2>3, <2>4
  <2>5. CASE o # op
    BY <1>2, <1>5, <1>6, <2>1, <2>2, <2>3, <2>5
  <2>6. QED
    BY <2>4, <2>5
<1>10. QED
  BY <1>7, <1>8, <1>9 DEF RepositoryInv, ChangesCounted

\* AuditAfter: the second line, and the operation is no longer announced.
LEMMA AuditAfterKeeps ==
  ASSUME RepositoryInv, NEW t \in Threads, AuditAfter(t) PROVE RepositoryInv'
<1>1. RepositoryShape /\ LinesCounted /\ ChangesCounted
  BY DEF RepositoryInv
<1>0. PICK op \in Operations : op = ops[t].op
  BY <1>1 DEF AuditAfter, RepositoryShape
<1>2. /\ ops \in [Threads -> OpStates] /\ ops[t].pc = "after" /\ ops[t].op = op
      /\ ops[t].arg \in Arguments(op)
      /\ started' = started /\ started \in Nat /\ applied' = applied /\ repo' = repo
      /\ applied \in [Operations -> Nat] /\ AuditWrite(op)
      /\ audit \in [Operations \cup {"compact"} -> Nat] /\ unlogged \in Nat
  BY <1>1, <1>0, RepositoryAssumption DEF AuditAfter, RepositoryShape
<1>3. \/ ops' = [ops EXCEPT ![t] = [ops[t] EXCEPT !.pc = "rev-parse"]]
      \/ ops' = [ops EXCEPT ![t] = NoOp]
  BY DEF AuditAfter
<1>4. /\ ops' \in [Threads -> OpStates] /\ \A u \in Threads \ {t} : ops'[u] = ops[u]
      /\ ops'[t].pc \in {"rev-parse", "idle"}
      /\ ops'[t].pc # "idle" => ops'[t].op = op /\ ops'[t].arg = ops[t].arg
  <2>1. ops[t] \in OpStates /\ NoOp \in OpStates /\ NoOp.pc = "idle"
    BY <1>2 DEF NoOp, OpStates
  <2>2. ASSUME NEW e \in OpStates
        PROVE  LET x == [e EXCEPT !.pc = "rev-parse"]
               IN x \in OpStates /\ x.pc = "rev-parse" /\ x.op = e.op /\ x.arg = e.arg
    BY DEF OpStates
  <2>3. QED
    BY <1>2, <1>3, <2>1, <2>2, ZenonT(60)
<1>5. /\ Announced' = Announced \ {t} /\ t \in Announced
      /\ \A o \in Operations : Pending(o)' = Pending(o)
  BY <1>2, <1>4 DEF Announced, Pending
<1>6. /\ IsFiniteSet(Announced') /\ Cardinality(Announced') = Cardinality(Announced) - 1
      /\ Cardinality(Announced) \in Nat
      /\ \A o \in Operations : Cardinality(Pending(o)) \in Nat
  <2>1. IsFiniteSet(Announced)
    BY <1>1 DEF RepositoryShape
  <2>2. QED
    BY <1>1, <1>5, <2>1, FS_RemoveElement, PendingFinite
<1>7. /\ audit' \in [Operations \cup {"compact"} -> Nat] /\ unlogged' \in Nat
      /\ \A o \in Operations \cup {"compact"} : /\ audit[o] <= audit'[o]
                                              /\ audit'[o] <= audit[o] + 1
      /\ unlogged <= unlogged' /\ unlogged' <= unlogged + 1
  BY <1>1, <1>2, AuditCounts
<1>8. RepositoryShape'
  BY <1>1, <1>2, <1>4, <1>6, <1>7 DEF RepositoryShape
<1>9. LinesCounted'
  BY <1>1, <1>2, <1>6, <1>7 DEF LinesCounted
<1>10. ChangesCounted'
  BY <1>1, <1>2, <1>5, <1>6, <1>7 DEF ChangesCounted
<1>11. QED
  BY <1>8, <1>9, <1>10 DEF RepositoryInv

\* Each step of an operation, of compaction and of the end of the process.
LEMMA RepositoryStep == RepositoryInv /\ [RepositoryNext]_repoVars => RepositoryInv'
<1> SUFFICES ASSUME RepositoryInv, [RepositoryNext]_repoVars PROVE RepositoryInv'
  OBVIOUS
<1>1. RepositoryShape /\ LinesCounted /\ ChangesCounted
  BY DEF RepositoryInv
<1>2. ASSUME NEW t \in Threads, RevParse(t) PROVE RepositoryInv'
  <2>1. /\ ops \in [Threads -> OpStates] /\ ops[t].pc = "rev-parse"
        /\ ops' = [ops EXCEPT ![t] = NoOp]
    BY <1>1, <1>2 DEF RevParse, RepositoryShape
  <2>2. Announced' = Announced /\ \A o \in Operations : Pending(o)' = Pending(o)
    BY <2>1 DEF Announced, Pending, NoOp, OpStates
  <2>3. ops' \in [Threads -> OpStates] /\ \A u \in Threads : ops'[u].pc # "idle" => ops'[u] = ops[u]
    BY <2>1 DEF NoOp, OpStates
  <2>4. QED
    BY <1>1, <1>2, <2>2, <2>3
    DEF RevParse, RepositoryInv, RepositoryShape, LinesCounted, ChangesCounted
<1>3. CASE Compact
  <2>1. /\ started' = started + 1 /\ started' \in 0 .. MaxCalls /\ started \in Nat
        /\ applied \in [Operations -> Nat] /\ AuditWrite("compact")
        /\ audit \in [Operations \cup {"compact"} -> Nat] /\ unlogged \in Nat
    BY <1>1, <1>3, RepositoryAssumption DEF Compact, RepositoryShape
  <2>2. /\ audit' \in [Operations \cup {"compact"} -> Nat] /\ unlogged' \in Nat
        /\ \A o \in Operations \cup {"compact"} : /\ audit[o] <= audit'[o]
                                                /\ audit'[o] <= audit[o] + 1
        /\ unlogged <= unlogged' /\ unlogged' <= unlogged + 1
    BY <1>1, <2>1, AuditCounts
  <2>3. Announced' = Announced /\ \A o \in Operations : Pending(o)' = Pending(o)
    BY <1>3 DEF Compact, Announced, Pending
  <2>4. Cardinality(Announced) \in Nat /\ \A o \in Operations : Cardinality(Pending(o)) \in Nat
    BY <1>1, PendingFinite
  <2>5. RepositoryShape'
    BY <1>1, <1>3, <2>1, <2>2, <2>3 DEF Compact, RepositoryShape
  <2>6. LinesCounted'
    BY <1>1, <2>1, <2>2, <2>3, <2>4 DEF LinesCounted
  <2>7. ChangesCounted'
    BY <1>1, <1>3, <2>1, <2>2, <2>3, <2>4 DEF ChangesCounted, Compact
  <2>8. QED
    BY <2>5, <2>6, <2>7 DEF RepositoryInv
<1>4. CASE EndProcess
  <2>1. Announced' = {} /\ \A o \in Operations : Pending(o)' = {}
    BY <1>4 DEF EndProcess, Announced, Pending, NoOp
  <2>2. IsFiniteSet({}) /\ Cardinality({}) = 0
    BY FS_EmptySet
  <2>3. Cardinality(Announced) \in Nat /\ \A o \in Operations : Cardinality(Pending(o)) \in Nat
    BY <1>1, PendingFinite
  <2>4. ops' \in [Threads -> OpStates] /\ \A u \in Threads : ops'[u].pc = "idle"
    BY <1>4 DEF EndProcess, NoOp, OpStates
  <2>5. RepositoryShape'
    BY <1>1, <1>4, <2>1, <2>2, <2>4 DEF EndProcess, RepositoryShape
  <2>6. /\ started \in Nat /\ applied \in [Operations -> Nat] /\ unlogged \in Nat
        /\ audit \in [Operations \cup {"compact"} -> Nat]
        /\ UNCHANGED <<audit, applied, unlogged, started>>
    BY <1>1, <1>4, RepositoryAssumption DEF RepositoryShape, EndProcess
  <2>7. LinesCounted'
    BY <1>1, <2>1, <2>2, <2>3, <2>6 DEF LinesCounted
  <2>8. ChangesCounted'
    <3>1. ASSUME NEW o \in Operations
          PROVE  applied[o] + 0 <= audit[o] + unlogged /\ applied[o] + 0 <= started
      BY <1>1, <2>3, <2>6 DEF ChangesCounted
    <3>2. QED
      BY <2>1, <2>2, <2>6, <3>1 DEF ChangesCounted
  <2>9. QED
    BY <2>5, <2>7, <2>8 DEF RepositoryInv
<1>5. CASE UNCHANGED repoVars
  <2>1. Announced' = Announced /\ \A o \in Operations : Pending(o)' = Pending(o)
    BY <1>5 DEF repoVars, Announced, Pending
  <2>2. QED
    BY <1>1, <1>5, <2>1
    DEF repoVars, RepositoryInv, RepositoryShape, LinesCounted, ChangesCounted
<1>6. QED
  BY <1>2, <1>3, <1>4, <1>5, StartOpKeeps, ExecuteKeeps, AuditAfterKeeps DEF RepositoryNext

\* Every change of the repository has its line in the audit log, for any number of
\* threads and calls: a change takes with it the one pending command the line before
\* it was written for (git_exec_audit).
THEOREM ChangesAreAnnounced == RepositorySpec => []ChangesAnnounced
<1>1. RepositoryInit => RepositoryInv
  <2> SUFFICES ASSUME RepositoryInit PROVE RepositoryInv
    OBVIOUS
  <2>1. Announced = {} /\ \A o \in Operations : Pending(o) = {}
    BY DEF RepositoryInit, Announced, Pending, NoOp
  <2>2. IsFiniteSet({}) /\ Cardinality({}) = 0
    BY FS_EmptySet
  <2>3. repo \in Repo
    <3>1. NoRepo \in Repo
      BY DEF NoRepo, Repo, Commits
    <3>2. ASSUME NEW r \in OldRepos PROVE r \in Repo
      <4>1. PICK n \in {1, 3} :
              LET l == [i \in 1 .. 3 |-> Files] IN
              r = [exists |-> TRUE, log |-> SubSeq(l, 1, 2), other |-> <<>>, staged |-> {},
                   tags |-> <<>>, remote |-> SubSeq(l, 1, n)]
        BY <3>2 DEF OldRepos
      <4>2. [i \in 1 .. 3 |-> Files] \in Commits
        BY DEF Commits
      <4>3. \A s \in Commits : \A m \in 0 .. Len(s) : SubSeq(s, 1, m) \in Commits
        BY DEF Commits
      <4>4. QED
        BY <4>1, <4>2, <4>3 DEF Repo, Commits
    <3>3. QED
      BY <3>1, <3>2 DEF RepositoryInit
  <2>4. RepositoryShape
    BY <2>1, <2>2, <2>3, RepositoryAssumption DEF RepositoryInit, RepositoryShape, NoOp, OpStates
  <2>5. QED
    BY <2>1, <2>2, <2>4 DEF RepositoryInit, RepositoryInv, LinesCounted, ChangesCounted
<1>2. RepositoryInv => ChangesAnnounced
  <2> SUFFICES ASSUME RepositoryInv PROVE ChangesAnnounced
    OBVIOUS
  <2>1. RepositoryShape /\ LinesCounted /\ ChangesCounted
    BY DEF RepositoryInv
  <2>2. Cardinality(Announced) \in Nat /\ \A o \in Operations : Cardinality(Pending(o)) \in Nat
    BY <2>1, PendingFinite
  <2>3. /\ started \in 0 .. MaxCalls /\ unlogged \in Nat /\ MaxCalls \in Nat
        /\ audit \in [Operations \cup {"compact"} -> Nat] /\ applied \in [Operations -> Nat]
    BY <2>1, RepositoryAssumption DEF RepositoryShape
  <2>4. /\ audit \in [Operations \cup {"compact"} -> 0 .. 2 * MaxCalls]
        /\ unlogged \in 0 .. 2 * MaxCalls
    BY <2>1, <2>2, <2>3 DEF LinesCounted
  <2>5. /\ applied \in [Operations -> 0 .. MaxCalls]
        /\ \A op \in Operations : applied[op] <= audit[op] + unlogged
    BY <2>1, <2>2, <2>3 DEF ChangesCounted
  <2>6. repo.exists \in BOOLEAN /\ repo.staged \subseteq Files
    BY <2>1 DEF RepositoryShape, Repo
  <2>7. QED
    BY <2>3, <2>4, <2>5, <2>6 DEF ChangesAnnounced, RepositoryTypeOK
<1>3. QED
  BY <1>1, <1>2, RepositoryStep, PTL DEF RepositorySpec

-----------------------------------------------------------------------------
(* The keys of SP: SpKeys.                                                 *)

KeyEntries == [id : Ids, algo : KeyAlgos, pair : 1 .. Foreign, revoked : BOOLEAN]
Signatures == [id : Ids, pair : 0 .. Foreign, data : Data]
KeyCalls ==
  [pc : {"idle", "read", "enter", "answer", "sign", "run", "encode", "verify", "judge"},
   id : Ids \cup {NOTHING}, pair : 0 .. Foreign, algo : KeyAlgos \cup {NOTHING},
   data : Data \cup {NOTHING}, sig : Signatures \cup {<<>>}]
KeyFiles == {"priv", "pub", "in", "key", "pubkey", "sig", "out", "err", "b64"}

KeysShape ==
  /\ keys \in Seq(KeyEntries)
  /\ nextKeyId \in 1 .. MaxKeys + 1
  /\ owner \in Seq(0 .. Foreign) /\ Len(owner) = nextKeyId - 1
  /\ files \in [Threads -> SUBSET KeyFiles] /\ work \in [Threads -> KeyCalls]
  /\ \A t \in Threads : Ready(t) => files[t] = {}
  /\ lost \subseteq {"in", "key", "pubkey", "b64"}
  /\ signatures \subseteq Signatures

\* An id was given out before, and it means the pair it was given to.
Given(own, id, pair) == id \in 1 .. Len(own) /\ own[id] = pair

\* The pairs of the table, of the signatures, and the one that each call under way
\* has copied are those their ids were given to.
PairsGiven ==
  /\ \A i \in DOMAIN keys : Given(owner, keys[i].id, keys[i].pair)
  /\ \A s \in signatures : Given(owner, s.id, s.pair)
  /\ \A t \in Threads :
       /\ work[t].pc \in {"read", "enter"} => work[t].algo \in KeyAlgos
       /\ work[t].pc \in {"sign", "run", "encode", "verify", "judge"} =>
            work[t].id \in Ids /\ work[t].data \in Data /\ Given(owner, work[t].id, work[t].pair)
       /\ work[t].pc \in {"verify", "judge"} => work[t].sig \in signatures

KeysInv == KeysShape /\ PairsGiven

\* The end of a call.
LEMMA EndWorkKeeps ==
  ASSUME KeysInv, NEW t \in Threads, NEW left \in SUBSET {"in", "key", "pubkey", "b64"},
         EndWork(t, left), UNCHANGED <<keys, nextKeyId, owner, signatures>>
  PROVE  KeysInv'
<1>1. Free \in KeyCalls /\ Free.pc = "idle"
  BY SpKeysAssumption DEF Free, KeyCalls, Foreign, NOTHING
<1>2. KeysShape'
  BY <1>1 DEF KeysInv, KeysShape, EndWork, Ready
<1>3. PairsGiven'
  BY <1>1 DEF KeysInv, KeysShape, PairsGiven, EndWork, Given
<1>4. QED
  BY <1>2, <1>3 DEF KeysInv

\* A call goes on with other files, and with what it has copied.
LEMMA GoesOn ==
  ASSUME KeysInv, NEW t \in Threads, NEW w \in KeyCalls, NEW f \in SUBSET KeyFiles,
         work' = [work EXCEPT ![t] = w], files' = [files EXCEPT ![t] = f],
         UNCHANGED <<keys, nextKeyId, lost, keyHistory>>,
         w.pc # "idle",
         w.pc \in {"read", "enter"} => w.algo \in KeyAlgos,
         w.pc \in {"sign", "run", "encode", "verify", "judge"} =>
           w.id \in Ids /\ w.data \in Data /\ Given(owner, w.id, w.pair),
         w.pc \in {"verify", "judge"} => w.sig \in signatures
  PROVE  KeysInv'
<1>2. KeysShape'
  BY DEF KeysInv, KeysShape, Ready, keyHistory
<1>3. PairsGiven'
  BY DEF KeysInv, KeysShape, PairsGiven, keyHistory, Given
<1>4. QED
  BY <1>2, <1>3 DEF KeysInv

\* A call takes one step more with what it has.
LEMMA StepKeeps ==
  ASSUME KeysInv, NEW t \in Threads, NEW from, NEW to, NEW f \in SUBSET KeyFiles,
         Step(t, from, to), files' = [files EXCEPT ![t] = f],
         UNCHANGED <<keys, nextKeyId, lost, keyHistory>>,
         <<from, to>> \in {<<"read", "enter">>, <<"sign", "run">>, <<"run", "encode">>,
                           <<"verify", "judge">>}
  PROVE  KeysInv'
<1>1. PICK w \in KeyCalls : w = [work[t] EXCEPT !.pc = to]
  <2>1. work[t] \in KeyCalls
    BY DEF KeysInv, KeysShape
  <2>2. QED
    BY <2>1 DEF KeyCalls
<1>2. /\ w.pc = to /\ w.id = work[t].id /\ w.pair = work[t].pair /\ w.algo = work[t].algo
      /\ w.data = work[t].data /\ w.sig = work[t].sig
  BY <1>1 DEF KeysInv, KeysShape, KeyCalls
<1>3. work' = [work EXCEPT ![t] = w] /\ work[t].pc = from
  BY <1>1 DEF Step
<1>4. /\ w.pc # "idle"
      /\ w.pc \in {"read", "enter"} => w.algo \in KeyAlgos
      /\ w.pc \in {"sign", "run", "encode", "verify", "judge"} =>
           w.id \in Ids /\ w.data \in Data /\ Given(owner, w.id, w.pair)
      /\ w.pc \in {"verify", "judge"} => w.sig \in signatures
  BY <1>2, <1>3 DEF KeysInv, PairsGiven
<1>5. QED
  BY <1>3, <1>4, GoesOn

\* sp_key_new_entry: what the ids given out before mean does not change.
LEMMA OwnerGrows ==
  ASSUME KeysShape, NEW p \in 0 .. Foreign, owner' = Append(owner, p), nextKeyId' = nextKeyId + 1
  PROVE  /\ owner' \in Seq(0 .. Foreign) /\ Len(owner') = nextKeyId' - 1
         /\ Given(owner', nextKeyId, p)
         /\ \A id, q : Given(owner, id, q) => Given(owner', id, q)
<1>1. /\ owner \in Seq(0 .. Foreign) /\ Len(owner) = nextKeyId - 1 /\ nextKeyId \in Nat \ {0}
  BY SpKeysAssumption DEF KeysShape
<1>2. /\ owner' \in Seq(0 .. Foreign) /\ Len(owner') = Len(owner) + 1 /\ owner'[Len(owner) + 1] = p
      /\ \A i \in 1 .. Len(owner) : owner'[i] = owner[i]
  BY <1>1
<1>3. QED
  BY <1>1, <1>2 DEF Given

\* The entry, when there is memory for it, is for an id that was not given out before.
LEMMA NewEntryKeeps ==
  ASSUME KeysInv, NEW t \in Threads, NewEntry(t) PROVE KeysInv'
<1>1. KeysShape /\ PairsGiven
  BY DEF KeysInv
<1>2. /\ work[t] \in KeyCalls /\ work[t].pc = "enter" /\ work[t].algo \in KeyAlgos
      /\ work[t].pair \in 0 .. Foreign
      /\ nextKeyId \in Ids /\ nextKeyId' = nextKeyId + 1 /\ nextKeyId' \in 1 .. MaxKeys + 1
      /\ signatures' = signatures
  BY <1>1, SpKeysAssumption, SMTT(60) DEF NewEntry, KeysShape, PairsGiven, KeyCalls, Ids
<1>3. PICK p \in 1 .. Foreign : p = IF work[t].pair = NOTHING THEN nextKeyId ELSE work[t].pair
  BY <1>2, SpKeysAssumption DEF NOTHING, Foreign, Ids
<1>4. CASE /\ keys' = <<[id |-> nextKeyId, algo |-> work[t].algo, pair |-> p, revoked |-> FALSE]>> \o keys
           /\ owner' = Append(owner, p)
           /\ work' = [work EXCEPT ![t].pc = "answer", ![t].id = nextKeyId, ![t].pair = p]
           /\ UNCHANGED <<files, lost>>
  <2>1. /\ owner' \in Seq(0 .. Foreign) /\ Len(owner') = nextKeyId' - 1
        /\ Given(owner', nextKeyId, p)
        /\ \A id, q : Given(owner, id, q) => Given(owner', id, q)
    BY <1>1, <1>2, <1>4, OwnerGrows
  <2>2. PICK e \in KeyEntries :
          e = [id |-> nextKeyId, algo |-> work[t].algo, pair |-> p, revoked |-> FALSE]
    BY <1>2 DEF KeyEntries
  <2>3. /\ keys' = <<e>> \o keys /\ e.id = nextKeyId /\ e.pair = p
        /\ keys \in Seq(KeyEntries)
    BY <1>1, <1>4, <2>2 DEF KeysShape
  <2>4. /\ keys' \in Seq(KeyEntries)
        /\ \A i \in DOMAIN keys' : keys'[i] = e \/ \E j \in DOMAIN keys : keys'[i] = keys[j]
    BY <2>3
  <2>5. PICK w \in KeyCalls : w.pc = "answer" /\ work' = [work EXCEPT ![t] = w]
    <3>1. work[t] \in KeyCalls /\ nextKeyId \in Ids \cup {NOTHING} /\ p \in 0 .. Foreign
      BY <1>2
    <3>2. ASSUME NEW c \in KeyCalls, NEW n \in Ids \cup {NOTHING}
          PROVE  LET w == [c EXCEPT !.pc = "answer", !.id = n, !.pair = p]
                 IN w \in KeyCalls /\ w.pc = "answer"
      BY <3>1 DEF KeyCalls
    <3>3. [work[t] EXCEPT !.pc = "answer", !.id = nextKeyId, !.pair = p] \in KeyCalls
      BY <3>1, <3>2
    <3>4. [work[t] EXCEPT !.pc = "answer", !.id = nextKeyId, !.pair = p].pc = "answer"
      BY <3>1, <3>2
    <3>5. work' = [work EXCEPT ![t] = [work[t] EXCEPT !.pc = "answer", !.id = nextKeyId, !.pair = p]]
      BY <1>1, <1>4 DEF KeysShape
    <3>6. QED
      BY <3>3, <3>4, <3>5
  <2>6. KeysShape'
    <3>1. /\ files \in [Threads -> SUBSET KeyFiles] /\ work \in [Threads -> KeyCalls]
          /\ \A u \in Threads : work[u].pc = "idle" => files[u] = {}
          /\ lost \subseteq {"in", "key", "pubkey", "b64"} /\ signatures \subseteq Signatures
      BY <1>1 DEF KeysShape, Ready
    <3>2. \A u \in Threads : work'[u].pc = "idle" => files'[u] = {}
      BY <1>4, <2>5, <3>1
    <3>3. /\ keys' \in Seq(KeyEntries) /\ nextKeyId' \in 1 .. MaxKeys + 1
          /\ owner' \in Seq(0 .. Foreign) /\ Len(owner') = nextKeyId' - 1
      BY <1>2, <2>1, <2>4
    <3>4. /\ files' \in [Threads -> SUBSET KeyFiles] /\ work' \in [Threads -> KeyCalls]
          /\ lost' \subseteq {"in", "key", "pubkey", "b64"} /\ signatures' \subseteq Signatures
      <4>1. files' \in [Threads -> SUBSET KeyFiles] /\ lost' \subseteq {"in", "key", "pubkey", "b64"}
        BY <1>4, <3>1, Zenon
      <4>2. work' \in [Threads -> KeyCalls]
        BY <2>5, <3>1
      <4>3. signatures' \subseteq Signatures
        BY <1>2, <3>1, Zenon
      <4>4. QED
        BY <4>1, <4>2, <4>3, Zenon
    <3>5. QED
      BY <3>2, <3>3, <3>4 DEF KeysShape, Ready
  <2>7. \A i \in DOMAIN keys' : Given(owner', keys'[i].id, keys'[i].pair)
    BY <1>1, <2>1, <2>3, <2>4 DEF PairsGiven
  <2>8. \A s \in signatures' : Given(owner', s.id, s.pair)
    BY <1>1, <1>2, <2>1 DEF PairsGiven
  <2>9. QED
    BY <1>1, <1>2, <2>1, <2>5, <2>6, <2>7, <2>8 DEF KeysInv, KeysShape, PairsGiven
<1>5. CASE Faults /\ EndWork(t, {}) /\ owner' = Append(owner, NOTHING) /\ UNCHANGED keys
  <2>1. /\ owner' \in Seq(0 .. Foreign) /\ Len(owner') = nextKeyId' - 1
        /\ \A id, q : Given(owner, id, q) => Given(owner', id, q)
    <3>1. NOTHING \in 0 .. Foreign
      BY SpKeysAssumption DEF NOTHING, Foreign
    <3>2. QED
      BY <1>1, <1>2, <1>5, <3>1, OwnerGrows
  <2>2. /\ work' = [work EXCEPT ![t] = Free] /\ files' = [files EXCEPT ![t] = {}] /\ lost' = lost
        /\ keys' = keys /\ Free \in KeyCalls /\ Free.pc = "idle"
    BY <1>5, SpKeysAssumption DEF EndWork, Free, KeyCalls, Foreign, NOTHING
  <2>3. KeysShape'
    BY <1>1, <1>2, <2>1, <2>2 DEF KeysShape, Ready
  <2>4. QED
    BY <1>1, <1>2, <2>1, <2>2, <2>3 DEF KeysInv, KeysShape, PairsGiven
<1>6. QED
  BY <1>3, <1>4, <1>5 DEF NewEntry

\* Revoke and Destroy: the table may lose an entry or its use, and no id comes to
\* mean another pair.
LEMMA TableShrinks ==
  ASSUME KeysInv, NEW s \in Seq(KeyEntries), keys' = s,
         \A i \in DOMAIN s : \E j \in DOMAIN keys : s[i].id = keys[j].id /\ s[i].pair = keys[j].pair,
         UNCHANGED <<nextKeyId, files, work, lost, keyHistory>>
  PROVE  KeysInv'
<1>1. KeysShape'
  BY DEF KeysInv, KeysShape, Ready, keyHistory
<1>2. \A i \in DOMAIN keys' : Given(owner', keys'[i].id, keys'[i].pair)
  BY DEF KeysInv, PairsGiven, keyHistory
<1>3. QED
  BY <1>1, <1>2 DEF KeysInv, PairsGiven, keyHistory

\* sp_revoke_key.
LEMMA RevokeKeeps ==
  ASSUME KeysInv, NEW t \in Threads, NEW id \in Ids, Revoke(t, id) PROVE KeysInv'
<1>1. keys \in Seq(KeyEntries)
  BY DEF KeysInv, KeysShape
<1>2. PICK s : s = keys'
  OBVIOUS
<1>3. s = [i \in DOMAIN keys |-> IF i \in FindKey(id) THEN [keys[i] EXCEPT !.revoked = TRUE]
                                 ELSE keys[i]]
  BY <1>2 DEF Revoke
<1>4. ASSUME NEW e \in KeyEntries
      PROVE  LET r == [e EXCEPT !.revoked = TRUE]
             IN r \in KeyEntries /\ r.id = e.id /\ r.pair = e.pair
  BY DEF KeyEntries
<1>5. DOMAIN keys = 1 .. Len(keys) /\ \A i \in DOMAIN keys : keys[i] \in KeyEntries
  BY <1>1
<1>6. \A i \in DOMAIN keys : s[i] \in KeyEntries /\ s[i].id = keys[i].id /\ s[i].pair = keys[i].pair
  BY <1>3, <1>4, <1>5
<1>7. s \in Seq(KeyEntries) /\ DOMAIN s = DOMAIN keys
  BY <1>1, <1>3, <1>5, <1>6
<1>8. UNCHANGED <<nextKeyId, files, work, lost, keyHistory>>
  BY DEF Revoke
<1>9. QED
  BY <1>2, <1>6, <1>7, <1>8, TableShrinks

\* sp_destroy_key.
LEMMA DestroyKeeps ==
  ASSUME KeysInv, NEW t \in Threads, NEW id \in Ids, Destroy(t, id) PROVE KeysInv'
<1>1. keys \in Seq(KeyEntries) /\ DOMAIN keys = 1 .. Len(keys) /\ Len(keys) \in Nat
  BY DEF KeysInv, KeysShape
<1>2. PICK i \in DOMAIN keys : keys' = RemoveAt(keys, i)
  BY DEF Destroy, FindKey
<1>3. PICK s : s = RemoveAt(keys, i)
  OBVIOUS
<1>4. /\ s \in Seq(KeyEntries) /\ Len(s) = Len(keys) - 1 /\ DOMAIN s = 1 .. Len(s)
      /\ \A j \in 1 .. Len(keys) - 1 : s[j] = IF j < i THEN keys[j] ELSE keys[j + 1]
  <2>1. /\ s \in Seq(KeyEntries) /\ Len(s) = Len(keys) - 1
        /\ \A j \in 1 .. Len(keys) - 1 : s[j] = IF j < i THEN keys[j] ELSE keys[j + 1]
    BY <1>1, <1>3, Unlinked, Zenon
  <2>2. QED
    BY <2>1
<1>5. \A j \in DOMAIN s : \E k \in DOMAIN keys : s[j] = keys[k]
  BY <1>1, <1>4, SMTT(60)
<1>6. UNCHANGED <<nextKeyId, files, work, lost, keyHistory>>
  BY DEF Destroy
<1>7. QED
  BY <1>2, <1>3, <1>4, <1>5, <1>6, TableShrinks

\* A call begins: it copies what the entry it has found holds.
LEMMA BeginsKeep ==
  ASSUME KeysInv, NEW t \in Threads
  PROVE  /\ \A a \in KeyAlgos : Generate(t, a) => KeysInv'
         /\ \A a \in KeyAlgos : \A p \in 1 .. Foreign : Import(t, a, p) => KeysInv'
         /\ \A id \in Ids : \A x \in Data : SignFind(t, id, x) => KeysInv'
         /\ \A id \in Ids : \A x \in Data : \A g \in signatures : VerifyFind(t, id, x, g) => KeysInv'
<1>1. /\ work[t] \in KeyCalls /\ work \in [Threads -> KeyCalls] /\ MaxKeys \in Nat
      /\ files \in [Threads -> SUBSET KeyFiles] /\ signatures \subseteq Signatures
      /\ keys \in Seq(KeyEntries)
  BY SpKeysAssumption DEF KeysInv, KeysShape
<1>3. ASSUME NEW a \in KeyAlgos, NEW p \in 0 .. Foreign,
             work' = [work EXCEPT ![t].pc = "read", ![t].algo = a, ![t].pair = p],
             files' = [files EXCEPT ![t] = {"priv", "pub"}],
             UNCHANGED <<keys, nextKeyId, lost, keyHistory>>
      PROVE  KeysInv'
  <2>1. PICK c : c = [work[t] EXCEPT !.pc = "read", !.algo = a, !.pair = p]
    OBVIOUS
  <2>2. c \in KeyCalls /\ c.pc = "read" /\ c.algo = a
    <3>1. PICK w \in KeyCalls : w = work[t]
      BY <1>1
    <3>2. c = [w EXCEPT !.pc = "read", !.algo = a, !.pair = p]
      BY <2>1, <3>1
    <3>3. QED
      BY <3>2 DEF KeyCalls
  <2>5. work' = [work EXCEPT ![t] = c]
    BY <1>1, <1>3, <2>1
  <2>3. {"priv", "pub"} \in SUBSET KeyFiles
    BY DEF KeyFiles
  <2>4. QED
    BY <1>3, <2>2, <2>3, <2>5, GoesOn
<1>4. ASSUME NEW i \in DOMAIN keys, NEW c \in KeyCalls, c.pc \in {"sign", "verify"},
             c.id = keys[i].id, c.pair = keys[i].pair, c.data \in Data,
             c.pc = "verify" => c.sig \in signatures, work' = [work EXCEPT ![t] = c],
             UNCHANGED <<keys, nextKeyId, files, lost, keyHistory>>
      PROVE  KeysInv'
  <2>4. keys[i] \in KeyEntries /\ Given(owner, keys[i].id, keys[i].pair)
    BY <1>1 DEF KeysInv, PairsGiven
  <2>1. keys[i].id \in Ids
    BY <2>4 DEF KeyEntries
  <2>2. files' = [files EXCEPT ![t] = files[t]] /\ files[t] \in SUBSET KeyFiles
    BY <1>1, <1>4
  <2>3. QED
    BY <1>4, <2>1, <2>2, <2>4, GoesOn
<1>5. NOTHING \in 0 .. Foreign
  BY <1>1 DEF NOTHING, Foreign
<1>6. ASSUME NEW a \in KeyAlgos, Generate(t, a) PROVE KeysInv'
  <2>1. /\ files' = [files EXCEPT ![t] = {"priv", "pub"}]
        /\ UNCHANGED <<keys, nextKeyId, lost, keyHistory>>
        /\ work' = [work EXCEPT ![t].pc = "read", ![t].algo = a, ![t].pair = NOTHING]
    BY <1>6 DEF Generate
  <2>2. QED
    BY <1>3, <1>5, <2>1
<1>7. ASSUME NEW a \in KeyAlgos, NEW p \in 1 .. Foreign, Import(t, a, p) PROVE KeysInv'
  <2>1. /\ files' = [files EXCEPT ![t] = {"priv", "pub"}] /\ p \in 0 .. Foreign
        /\ UNCHANGED <<keys, nextKeyId, lost, keyHistory>>
        /\ work' = [work EXCEPT ![t].pc = "read", ![t].algo = a, ![t].pair = p]
    BY <1>7 DEF Import
  <2>2. QED
    BY <1>3, <2>1
<1>9. ASSUME NEW id \in Ids, NEW x \in Data, SignFind(t, id, x) PROVE KeysInv'
  <2>1. PICK i \in FindKey(id) :
          work' = [work EXCEPT ![t] = [Free EXCEPT !.pc = "sign", !.id = id, !.data = x,
                                                   !.pair = keys[i].pair]]
    BY <1>9 DEF SignFind
  <2>2. i \in DOMAIN keys /\ keys[i].id = id /\ keys[i] \in KeyEntries
    BY <1>1 DEF FindKey
  <2>7. PICK p \in 1 .. Foreign : p = keys[i].pair
    BY <2>2 DEF KeyEntries
  <2>3. PICK c : c = [Free EXCEPT !.pc = "sign", !.id = id, !.data = x, !.pair = p]
    OBVIOUS
  <2>4. c \in KeyCalls /\ c.pc = "sign" /\ c.id = id /\ c.data = x /\ c.pair = p
    <3>0. Free \in KeyCalls
      BY SpKeysAssumption DEF KeyCalls, Free, NOTHING, Foreign
    <3>1. PICK w \in KeyCalls : w = Free
      BY <3>0
    <3>2. id \in Ids \cup {NOTHING} /\ x \in Data \cup {NOTHING} /\ p \in 0 .. Foreign
      OBVIOUS
    <3>3. QED
      BY <2>2, <2>3, <3>1, <3>2 DEF KeyCalls
  <2>5. UNCHANGED <<keys, nextKeyId, files, lost, keyHistory>> /\ work' = [work EXCEPT ![t] = c]
    BY <1>9, <2>1, <2>3, <2>7 DEF SignFind
  <2>6. QED
    BY <1>4, <2>2, <2>4, <2>5, <2>7
<1>10. ASSUME NEW id \in Ids, NEW x \in Data, NEW g \in signatures, VerifyFind(t, id, x, g)
      PROVE  KeysInv'
  <2>1. PICK i \in FindKey(id) :
          work' = [work EXCEPT ![t] = [Free EXCEPT !.pc = "verify", !.id = id, !.data = x,
                                                   !.pair = keys[i].pair, !.sig = g]]
    BY <1>10 DEF VerifyFind
  <2>2. i \in DOMAIN keys /\ keys[i].id = id /\ keys[i] \in KeyEntries /\ g \in Signatures
    BY <1>1 DEF FindKey
  <2>7. PICK p \in 1 .. Foreign : p = keys[i].pair
    BY <2>2 DEF KeyEntries
  <2>3. PICK c : c = [Free EXCEPT !.pc = "verify", !.id = id, !.data = x, !.pair = p, !.sig = g]
    OBVIOUS
  <2>4. /\ c \in KeyCalls /\ c.pc = "verify" /\ c.id = id /\ c.data = x /\ c.pair = p
        /\ c.sig = g
    <3>0. Free \in KeyCalls
      BY SpKeysAssumption DEF KeyCalls, Free, NOTHING, Foreign
    <3>1. PICK w \in KeyCalls : w = Free
      BY <3>0
    <3>2. id \in Ids \cup {NOTHING} /\ x \in Data \cup {NOTHING} /\ p \in 0 .. Foreign
      OBVIOUS
    <3>3. QED
      BY <2>2, <2>3, <3>1, <3>2 DEF KeyCalls
  <2>5. UNCHANGED <<keys, nextKeyId, files, lost, keyHistory>> /\ work' = [work EXCEPT ![t] = c]
    BY <1>10, <2>1, <2>3, <2>7 DEF VerifyFind
  <2>6. QED
    BY <1>4, <2>2, <2>4, <2>5, <2>7
<1>11. QED
  BY <1>6, <1>7, <1>9, <1>10

\* Each step of a call, of another call, and a restart of the plugin keeps it.
LEMMA KeysStep == KeysInv /\ [KeysNext]_keyVars => KeysInv'
<1> SUFFICES ASSUME KeysInv, [KeysNext]_keyVars PROVE KeysInv'
  OBVIOUS
<1>1. /\ {} \in SUBSET KeyFiles /\ {"in", "key"} \in SUBSET KeyFiles
      /\ {"in", "pubkey", "sig", "out", "err"} \in SUBSET KeyFiles
      /\ {{}, {"in"}, {"in", "key"}, {"in", "pubkey"}, {"b64"}} \subseteq SUBSET {"in", "key", "pubkey", "b64"}
  BY DEF KeyFiles
<1>2. work \in [Threads -> KeyCalls] /\ files \in [Threads -> SUBSET KeyFiles]
  BY DEF KeysInv, KeysShape
<1>3. ASSUME NEW t \in Threads, ReadPair(t) PROVE KeysInv'
  <2>1. UNCHANGED <<keys, nextKeyId, keyHistory>>
    BY <1>3 DEF ReadPair
  <2>2. CASE Step(t, "read", "enter") /\ files' = [files EXCEPT ![t] = {}] /\ UNCHANGED lost
    BY <1>1, <2>1, <2>2, StepKeeps
  <2>3. CASE EndWork(t, {})
    BY <1>1, <2>1, <2>3, EndWorkKeeps DEF keyHistory
  <2>4. QED
    BY <1>3, <2>2, <2>3 DEF ReadPair
<1>4. ASSUME NEW t \in Threads, Answer(t) \/ VerifyRun(t) PROVE KeysInv'
  BY <1>1, <1>4, EndWorkKeeps DEF Answer, VerifyRun, keyHistory
<1>5. ASSUME NEW t \in Threads, SignWrite(t) PROVE KeysInv'
  <2>1. UNCHANGED <<keys, nextKeyId, keyHistory>>
    BY <1>5 DEF SignWrite
  <2>2. CASE Step(t, "sign", "run") /\ files' = [files EXCEPT ![t] = {"in", "key"}] /\ UNCHANGED lost
    BY <1>1, <2>1, <2>2, StepKeeps
  <2>3. ASSUME NEW left \in {{}, {"in"}, {"in", "key"}}, EndWork(t, left) PROVE KeysInv'
    BY <1>1, <2>1, <2>3, EndWorkKeeps DEF keyHistory
  <2>4. QED
    BY <1>5, <2>2, <2>3 DEF SignWrite
<1>6. ASSUME NEW t \in Threads, SignRun(t) PROVE KeysInv'
  <2>1. UNCHANGED <<keys, nextKeyId, keyHistory>>
    BY <1>6 DEF SignRun
  <2>2. CASE Step(t, "run", "encode") /\ files' = [files EXCEPT ![t] = {}] /\ UNCHANGED lost
    BY <1>1, <2>1, <2>2, StepKeeps
  <2>3. CASE EndWork(t, {})
    BY <1>1, <2>1, <2>3, EndWorkKeeps DEF keyHistory
  <2>4. QED
    BY <1>6, <2>2, <2>3 DEF SignRun
<1>7. ASSUME NEW t \in Threads, SignEncode(t) PROVE KeysInv'
  <2>1. UNCHANGED <<keys, nextKeyId, owner>> /\ work[t].pc = "encode"
    BY <1>7 DEF SignEncode
  <2>2. ASSUME NEW left \in {{}, {"b64"}}, EndWork(t, left), UNCHANGED signatures PROVE KeysInv'
    BY <1>1, <2>1, <2>2, EndWorkKeeps
  <2>3. CASE /\ EndWork(t, {})
             /\ signatures' = signatures \cup {[id |-> work[t].id, pair |-> work[t].pair,
                                                data |-> work[t].data]}
    <3>1. /\ work[t].id \in Ids /\ work[t].data \in Data /\ work[t].pair \in 0 .. Foreign
          /\ Given(owner, work[t].id, work[t].pair)
      BY <1>2, <2>1 DEF KeysInv, PairsGiven, KeyCalls
    <3>2. PICK g \in Signatures : /\ g.id = work[t].id /\ g.pair = work[t].pair
                                  /\ signatures' = signatures \cup {g}
      BY <2>3, <3>1 DEF Signatures
    <3>3. Free \in KeyCalls /\ Free.pc = "idle"
      BY SpKeysAssumption DEF Free, KeyCalls, Foreign, NOTHING
    <3>4. /\ work' = [work EXCEPT ![t] = Free] /\ files' = [files EXCEPT ![t] = {}] /\ lost' = lost
      BY <2>3 DEF EndWork
    <3>5. KeysShape'
      BY <2>1, <3>2, <3>3, <3>4 DEF KeysInv, KeysShape, Ready
    <3>6. PairsGiven'
      BY <1>2, <2>1, <3>1, <3>2, <3>3, <3>4 DEF KeysInv, PairsGiven
    <3>7. QED
      BY <3>5, <3>6 DEF KeysInv
  <2>4. QED
    BY <1>7, <2>2, <2>3 DEF SignEncode
<1>8. ASSUME NEW t \in Threads, VerifyWrite(t) PROVE KeysInv'
  <2>1. UNCHANGED <<keys, nextKeyId, keyHistory>>
    BY <1>8 DEF VerifyWrite
  <2>2. CASE /\ Step(t, "verify", "judge")
             /\ files' = [files EXCEPT ![t] = {"in", "pubkey", "sig", "out", "err"}]
             /\ UNCHANGED lost
    BY <1>1, <2>1, <2>2, StepKeeps
  <2>3. ASSUME NEW left \in {{}, {"in"}, {"in", "pubkey"}, {"b64"}}, EndWork(t, left) PROVE KeysInv'
    BY <1>1, <2>1, <2>3, EndWorkKeeps DEF keyHistory
  <2>4. QED
    BY <1>8, <2>2, <2>3 DEF VerifyWrite
<1>9. CASE Reset
  <2>1. /\ keys' = <<>> /\ nextKeyId' = 1 /\ owner' = <<>> /\ signatures' = {}
        /\ UNCHANGED <<files, work, lost>> /\ \A t \in Threads : work[t].pc = "idle"
    BY <1>9 DEF Reset, Ready
  <2>2. QED
    BY <2>1, SpKeysAssumption DEF KeysInv, KeysShape, PairsGiven, Ready
<1>10. CASE UNCHANGED keyVars
  BY <1>10 DEF keyVars, KeysInv, KeysShape, PairsGiven, Ready
<1>11. ASSUME NEW t \in Threads, NEW id \in Ids,
              \/ Revoke(t, id) \/ Destroy(t, id)
              \/ \E x \in Data : \/ SignFind(t, id, x)
                                 \/ \E g \in signatures : VerifyFind(t, id, x, g)
       PROVE  KeysInv'
  BY <1>11, RevokeKeeps, DestroyKeeps, BeginsKeep
<1>12. ASSUME NEW t \in Threads, NEW a \in KeyAlgos,
              Generate(t, a) \/ \E p \in 1 .. Foreign : Import(t, a, p)
       PROVE  KeysInv'
  BY <1>12, BeginsKeep
<1>13. QED
  BY <1>3, <1>4, <1>5, <1>6, <1>7, <1>8, <1>9, <1>10, <1>11, <1>12, NewEntryKeeps DEF KeysNext

\* A signature is judged by the pair it was made with, for any number of threads,
\* keys and data, whatever is generated, imported, revoked or destroyed meanwhile:
\* ids only grow between two starts, and a signature made before is asked for after.
THEOREM SignaturesStayValid == KeysSpec => []SignaturesVerify
<1>1. KeysInit => KeysInv
  <2> SUFFICES ASSUME KeysInit PROVE KeysInv
    OBVIOUS
  <2>1. Free \in KeyCalls /\ Free.pc = "idle"
    BY SpKeysAssumption DEF Free, KeyCalls, Foreign, NOTHING
  <2>2. QED
    BY <2>1, SpKeysAssumption DEF KeysInit, KeysInv, KeysShape, PairsGiven, Ready
<1>2. KeysInv => SignaturesVerify
  <2> SUFFICES ASSUME KeysInv PROVE SignaturesVerify
    OBVIOUS
  <2>1. KeysTypeOK
    <3>1. \A i \in DOMAIN keys : keys[i] \in KeyEntries
      BY DEF KeysInv, KeysShape
    <3>2. QED
      BY <3>1 DEF KeysInv, KeysShape, KeysTypeOK, KeyEntries
  <2>2. \A s \in signatures : owner[s.id] = s.pair
    BY DEF KeysInv, PairsGiven, Given
  <2>3. ASSUME NEW t \in Threads, work[t].pc \in {"verify", "judge"}, work[t].id = work[t].sig.id,
               work[t].data = work[t].sig.data
        PROVE  Valid(work[t])
    BY <2>3 DEF KeysInv, PairsGiven, Given, Valid
  <2>4. QED
    BY <2>1, <2>2, <2>3 DEF SignaturesVerify
<1>3. QED
  BY <1>1, <1>2, KeysStep, PTL DEF KeysSpec

-----------------------------------------------------------------------------
(* The users of SP: SpUsers.                                               *)

\* The entry sp_add_user makes.
NewUser(u, a) == [user |-> u, pw |-> a.pw, enabled |-> a.enabled,
                  roles |-> IF a.roles = <<>> THEN <<"viewer">> ELSE a.roles]
Lines == UNION {{NewUser(u, a) : a \in Accounts[u]} : u \in Users}
Calls == [pc : {"idle", "open", "table", "close", "rename", "check"}, fd : 0 .. 4,
          buf : Seq(Lines), entry : Users \cup {NOENTRY, FREED}]

UsersShape ==
  /\ users \in Seq(Lines) /\ Len(users) <= MaxTable
  /\ inode \in [Inodes -> Seq(Lines)] /\ \A i \in Inodes : Len(inode[i]) <= MaxTable
  /\ call \in [Threads -> Calls] /\ \A t \in Threads : Len(call[t].buf) <= MaxTable
  /\ acked \in Seq(Lines)
  /\ tmp \in 0 .. 4 /\ conf \in 0 .. 4 /\ (tmp = conf => tmp = 0)
  /\ failed \in BOOLEAN /\ overlap \in BOOLEAN

\* Two calls at most are in the save, and one as long as none have overlapped; a
\* call has a stream between fopen and fclose.
FewSave ==
  /\ \A r, s, t \in Threads : Saving(r) /\ Saving(s) /\ Saving(t) => r = s \/ s = t \/ r = t
  /\ ~overlap => \A s, t \in Threads : Saving(s) /\ Saving(t) => s = t
  /\ \A t \in Threads : call[t].fd # 0 => call[t].pc \in {"table", "close"}

\* What the save under way has written so far, as long as it is alone.
SaveExact ==
  ~overlap => \A t \in Threads :
    /\ call[t].pc \in {"table", "close"} =>
         tmp # 0 /\ call[t].fd = tmp /\ inode[tmp] = <<>>
    /\ call[t].pc = "close" => call[t].buf = users
    /\ call[t].pc = "rename" => tmp # 0 /\ inode[tmp] = users /\ call[t].buf = users

\* A table has one entry for a name.
OneEach(table) == \A i, j \in DOMAIN table : table[i].user = table[j].user => i = j

\* The file is the table of the last save that succeeded.
FileCurrent ==
  ~overlap =>
    /\ acked = IF conf = 0 THEN <<>> ELSE inode[conf]
    /\ UsersSettled => ToSet(users) = ToSet(acked)
    /\ OneEach(users) /\ OneEach(acked)

UsersInv == UsersShape /\ FewSave /\ SaveExact /\ FileCurrent

\* What an entry holds.
LEMMA LineHolds ==
  ASSUME NEW e \in Lines
  PROVE  e.user \in Users /\ e.pw \in Passwords /\ e.enabled \in BOOLEAN /\ e.roles # <<>>
<1>0. PICK u \in Users : \E a \in Accounts[u] : e = NewUser(u, a)
  BY DEF Lines
<1>1. PICK a \in Accounts[u] : e = NewUser(u, a)
  BY <1>0
<1>2. a.pw \in Passwords /\ a.enabled \in BOOLEAN
  BY SpUsersAssumption
<1>3. <<"viewer">> # <<>>
  OBVIOUS
<1>4. QED
  BY <1>1, <1>2, <1>3 DEF NewUser

\* A new entry for a name the table does not have.
LEMMA EachAdded ==
  ASSUME NEW s \in Seq(Lines), OneEach(s), NEW u \in Users, NEW a \in Accounts[u], Named(s, u) = {}
  PROVE  LET t == <<NewUser(u, a)>> \o s
         IN t \in Seq(Lines) /\ Len(t) = Len(s) + 1 /\ OneEach(t)
<1>1. PICK e \in Lines : e = NewUser(u, a)
  BY DEF Lines
<1>2. e.user = u
  BY <1>1 DEF NewUser
<1>3. PICK t : t = <<e>> \o s
  OBVIOUS
<1>4. /\ t \in Seq(Lines) /\ Len(t) = Len(s) + 1 /\ DOMAIN t = 1 .. Len(s) + 1
      /\ DOMAIN s = 1 .. Len(s) /\ Len(s) \in Nat /\ t[1] = e
      /\ \A i \in 2 .. Len(s) + 1 : i - 1 \in DOMAIN s /\ t[i] = s[i - 1]
  BY <1>3
<1>5. \A i \in DOMAIN s : s[i].user # u
  BY DEF Named
<1>6. ASSUME NEW i \in DOMAIN t, NEW j \in DOMAIN t, t[i].user = t[j].user PROVE i = j
  <2>1. CASE i = 1 /\ j = 1
    BY <2>1
  <2>2. CASE i = 1 /\ j # 1
    BY <1>2, <1>4, <1>5, <1>6, <2>2, SMTT(60)
  <2>3. CASE i # 1 /\ j = 1
    BY <1>2, <1>4, <1>5, <1>6, <2>3, SMTT(60)
  <2>4. CASE i # 1 /\ j # 1
    <3>1. /\ i \in 2 .. Len(s) + 1 /\ j \in 2 .. Len(s) + 1
      BY <1>4, <2>4
    <3>2. s[i - 1].user = s[j - 1].user /\ i - 1 \in DOMAIN s /\ j - 1 \in DOMAIN s
      BY <1>4, <1>6, <3>1
    <3>3. QED
      BY <3>1, <3>2 DEF OneEach
  <2>5. QED
    BY <2>1, <2>2, <2>3, <2>4
<1>7. QED
  BY <1>1, <1>3, <1>4, <1>6 DEF OneEach

\* An entry unlinked.
LEMMA EachRemoved ==
  ASSUME NEW s \in Seq(Lines), NEW i \in DOMAIN s
  PROVE  LET t == RemoveAt(s, i)
         IN t \in Seq(Lines) /\ Len(t) = Len(s) - 1 /\ (OneEach(s) => OneEach(t))
<1>1. PICK t : t = RemoveAt(s, i)
  OBVIOUS
<1>2. /\ t \in Seq(Lines) /\ Len(t) = Len(s) - 1
      /\ \A j \in 1 .. Len(s) - 1 : t[j] = IF j < i THEN s[j] ELSE s[j + 1]
  BY <1>1, Unlinked
<1>3. DOMAIN t = 1 .. Len(s) - 1 /\ DOMAIN s = 1 .. Len(s) /\ Len(s) \in Nat /\ i \in Nat
  BY <1>2
<1>4. ASSUME OneEach(s), NEW j \in DOMAIN t, NEW k \in DOMAIN t, t[j].user = t[k].user PROVE j = k
  <2>1. /\ j \in 1 .. Len(s) - 1 /\ k \in 1 .. Len(s) - 1
        /\ j \in DOMAIN s /\ j + 1 \in DOMAIN s /\ k \in DOMAIN s /\ k + 1 \in DOMAIN s
    BY <1>3
  <2>2. PICK m \in DOMAIN s : m = IF j < i THEN j ELSE j + 1
    BY <2>1
  <2>3. PICK n \in DOMAIN s : n = IF k < i THEN k ELSE k + 1
    BY <2>1
  <2>4. t[j] = s[m] /\ t[k] = s[n]
    BY <1>2, <2>1, <2>2, <2>3
  <2>5. m = n
    BY <1>4, <2>4 DEF OneEach
  <2>6. QED
    BY <1>3, <2>1, <2>2, <2>3, <2>5
<1>5. QED
  BY <1>1, <1>2, <1>4 DEF OneEach

\* The list that comes back from the file, the other way round.
LEMMA EachReversed ==
  ASSUME NEW s \in Seq(Lines)
  PROVE  /\ Reverse(s) \in Seq(Lines) /\ Len(Reverse(s)) = Len(s) /\ ToSet(Reverse(s)) = ToSet(s)
         /\ OneEach(s) => OneEach(Reverse(s))
<1>1. PICK t : t = Reverse(s)
  OBVIOUS
<1>2. t \in Seq(Lines) /\ ToSet(t) = ToSet(s)
  BY <1>1, Reversed
<1>3. /\ DOMAIN t = 1 .. Len(s) /\ DOMAIN s = 1 .. Len(s) /\ Len(s) \in Nat
      /\ \A i \in DOMAIN t : Len(s) - i + 1 \in DOMAIN s /\ t[i] = s[Len(s) - i + 1]
  BY <1>1 DEF Reverse
<1>4. Len(t) = Len(s)
  BY <1>2, <1>3
<1>5. ASSUME OneEach(s), NEW i \in DOMAIN t, NEW j \in DOMAIN t, t[i].user = t[j].user PROVE i = j
  <2>1. Len(s) - i + 1 = Len(s) - j + 1
    BY <1>3, <1>5 DEF OneEach
  <2>2. QED
    BY <1>3, <2>1
<1>6. QED
  BY <1>1, <1>2, <1>4, <1>5 DEF OneEach

\* A call takes a step.
LEMMA CallStep ==
  ASSUME call \in [Threads -> Calls], NEW t \in Threads,
         NEW pc \in {"idle", "open", "table", "close", "rename", "check"},
         call' = [call EXCEPT ![t].pc = pc]
  PROVE  /\ call' \in [Threads -> Calls] /\ \A s \in Threads \ {t} : call'[s] = call[s]
         /\ call'[t].pc = pc /\ call'[t].fd = call[t].fd /\ call'[t].buf = call[t].buf
<1>1. PICK c \in Calls : c = call[t]
  OBVIOUS
<1>2. PICK n : n = [c EXCEPT !.pc = pc]
  OBVIOUS
<1>3. n \in Calls /\ n.pc = pc /\ n.fd = c.fd /\ n.buf = c.buf
  BY <1>2 DEF Calls
<1>4. call' = [call EXCEPT ![t] = n]
  BY <1>1, <1>2
<1>5. QED
  BY <1>1, <1>3, <1>4

\* A call ends.
LEMMA IdleCall == Idle \in Calls /\ Idle.pc = "idle" /\ Idle.fd = 0 /\ Idle.buf = <<>>
BY DEF Idle, Calls

\* A change of the table begins a save, and what was exact of the file before is
\* until the save ends, or the two saves overlap.
LEMMA ChangeKeepsUsers ==
  ASSUME UsersInv, NEW t \in Threads, Begins(t), ThenSave(t), UNCHANGED disk,
         users' \in Seq(Lines), Len(users') <= MaxTable, OneEach(users'),
         call' \in [Threads -> Calls], call'[t].pc = "open",
         \A s \in Threads : call'[s].fd = call[s].fd /\ call'[s].buf = call[s].buf,
         \A s \in Threads \ {t} : call'[s].pc = call[s].pc
  PROVE  UsersInv'
<1>1. UsersShape /\ FewSave /\ SaveExact /\ FileCurrent
  BY DEF UsersInv
<1>2. /\ ~overlap /\ call[t].pc = "idle" /\ acked' = acked /\ failed' = failed
      /\ inode' = inode /\ tmp' = tmp /\ conf' = conf
      /\ overlap' = \E s \in Threads \ {t} : Saving(s)
  BY DEF Begins, ThenSave, disk
<1>3. \A s \in Threads : Saving(s)' <=> s = t \/ Saving(s)
  BY DEF Saving
<1>4. UsersShape'
  BY <1>1, <1>2 DEF UsersShape
<1>5. FewSave'
  <2>1. ASSUME NEW s \in Threads PROVE call'[s].fd # 0 => call'[s].pc \in {"table", "close"}
    <3>1. call[s].fd # 0 => call[s].pc \in {"table", "close"}
      BY <1>1 DEF FewSave
    <3>2. QED
      BY <1>2, <3>1
  <2>2. \A r, s \in Threads : Saving(r) /\ Saving(s) => r = s
    BY <1>1, <1>2 DEF FewSave
  <2>3. ~overlap' => \A s \in Threads : Saving(s)' => s = t
    BY <1>2, <1>3
  <2>4. \A r, s, w \in Threads : Saving(r)' /\ Saving(s)' /\ Saving(w)' => r = s \/ s = w \/ r = w
    BY <1>3, <2>2
  <2>5. QED
    BY <2>1, <2>3, <2>4 DEF FewSave
<1>6. SaveExact'
  <2>1. ASSUME ~overlap', NEW s \in Threads PROVE call'[s].pc \notin {"table", "close", "rename"}
    BY <1>2, <2>1 DEF Saving
  <2>2. QED
    BY <2>1 DEF SaveExact
<1>7. FileCurrent'
  <2>1. Saving(t)'
    BY <1>3
  <2>2. QED
    BY <1>1, <1>2, <2>1 DEF FileCurrent, UsersSettled
<1>8. QED
  BY <1>4, <1>5, <1>6, <1>7 DEF UsersInv

\* sp_add_user.
LEMMA AddUserKeeps ==
  ASSUME UsersInv, NEW t \in Threads, NEW u \in Users, NEW a \in Accounts[u], AddUser(t, u, a)
  PROVE  UsersInv'
<1>1. /\ users \in Seq(Lines) /\ call \in [Threads -> Calls] /\ ~overlap /\ OneEach(users)
      /\ MaxTable \in Nat
  BY SpUsersAssumption DEF UsersInv, UsersShape, FileCurrent, AddUser, Begins
<1>2. PICK s : s = <<NewUser(u, a)>> \o users
  OBVIOUS
<1>3. users' = s /\ Named(users, u) = {} /\ Len(users) < MaxTable
  BY <1>2 DEF AddUser, NewUser
<1>4. s \in Seq(Lines) /\ Len(s) = Len(users) + 1 /\ OneEach(s)
  BY <1>1, <1>2, <1>3, EachAdded
<1>5. Len(s) <= MaxTable
  BY <1>1, <1>3, <1>4
<1>6. call' = [call EXCEPT ![t].pc = "open"] /\ Begins(t) /\ ThenSave(t) /\ UNCHANGED disk
  BY DEF AddUser
<1>7. /\ call' \in [Threads -> Calls] /\ call'[t].pc = "open"
      /\ \A r \in Threads : call'[r].fd = call[r].fd /\ call'[r].buf = call[r].buf
      /\ \A r \in Threads \ {t} : call'[r].pc = call[r].pc
  BY <1>1, <1>6, CallStep
<1>8. QED
  BY <1>3, <1>4, <1>5, <1>6, <1>7, ChangeKeepsUsers

\* sp_del_user.
LEMMA DelUserKeeps ==
  ASSUME UsersInv, NEW t \in Threads, NEW u \in Users, DelUser(t, u) PROVE UsersInv'
<1>1. /\ users \in Seq(Lines) /\ call \in [Threads -> Calls] /\ ~overlap /\ OneEach(users)
      /\ MaxTable \in Nat /\ Len(users) <= MaxTable /\ Len(users) \in Nat
  BY SpUsersAssumption DEF UsersInv, UsersShape, FileCurrent, DelUser, Begins
<1>2. PICK i \in DOMAIN users : i = FindUser(users, u)
  <2>1. DOMAIN users = 1 .. Len(users) /\ Named(users, u) \subseteq DOMAIN users /\ Named(users, u) # {}
    BY <1>1 DEF DelUser, Named
  <2>2. \A i, j \in Named(users, u) : i = j
    BY <1>1 DEF OneEach, Named
  <2>3. \E i \in Named(users, u) : \A j \in Named(users, u) : i <= j
    BY <2>1, <2>2
  <2>4. FindUser(users, u) \in Named(users, u)
    BY <2>3 DEF FindUser
  <2>5. QED
    BY <2>1, <2>4
<1>3. PICK s : s = RemoveAt(users, i)
  OBVIOUS
<1>4. s \in Seq(Lines) /\ Len(s) = Len(users) - 1 /\ OneEach(s)
  BY <1>1, <1>3, EachRemoved
<1>5. Len(s) <= MaxTable
  BY <1>1, <1>4
<1>6. users' = s /\ Begins(t) /\ ThenSave(t) /\ UNCHANGED disk
  BY <1>2, <1>3 DEF DelUser
<1>7. ASSUME NEW c \in Calls
      PROVE  /\ \A n : n = [c EXCEPT !.pc = "open"] =>
                      n \in Calls /\ n.fd = c.fd /\ n.buf = c.buf /\ n.pc = "open"
             /\ \A n : n = [c EXCEPT !.entry = FREED] =>
                      n \in Calls /\ n.fd = c.fd /\ n.buf = c.buf /\ n.pc = c.pc
  BY DEF Calls
<1>8. ASSUME NEW r \in Threads
      PROVE  /\ call'[r] \in Calls /\ call'[r].fd = call[r].fd /\ call'[r].buf = call[r].buf
             /\ IF r = t THEN call'[r].pc = "open" ELSE call'[r].pc = call[r].pc
  <2>1. PICK c \in Calls : c = call[r]
    BY <1>1
  <2>2. \/ r = t /\ call'[r] = [c EXCEPT !.pc = "open"]
        \/ r # t /\ call'[r] = [c EXCEPT !.entry = FREED]
        \/ r # t /\ call'[r] = c
    BY <2>1 DEF DelUser
  <2>3. QED
    BY <1>7, <2>1, <2>2
<1>9. call' \in [Threads -> Calls]
  BY <1>8 DEF DelUser
<1>10. QED
  BY <1>4, <1>5, <1>6, <1>8, <1>9, ChangeKeepsUsers

\* A save that reports EIO, with or without its temporary file: the file named
\* sp_users.conf is as it was.
LEMMA FailureKeeps ==
  ASSUME UsersInv, NEW t \in Threads, SaveFails(t), Saving(t), UNCHANGED <<users, conf>>,
         \/ UNCHANGED <<inode, tmp>> /\ call[t].pc = "open"
         \/ Unlink
  PROVE  UsersInv'
<1>1. UsersShape /\ FewSave /\ SaveExact /\ FileCurrent
  BY DEF UsersInv
<1>2. /\ call' = [call EXCEPT ![t] = Idle] /\ failed' = TRUE /\ acked' = acked /\ overlap' = overlap
      /\ users' = users /\ conf' = conf
  BY DEF SaveFails, EndCall
<1>3. /\ tmp' \in {tmp, 0} /\ inode' \in [Inodes -> Seq(Lines)]
      /\ \A i \in Inodes : inode'[i] = inode[i] \/ (inode'[i] = <<>> /\ i = tmp)
  <2>1. inode \in [Inodes -> Seq(Lines)] /\ <<>> \in Seq(Lines)
    BY <1>1 DEF UsersShape
  <2>2. CASE UNCHANGED <<inode, tmp>>
    BY <2>1, <2>2
  <2>3. CASE tmp' = 0 /\ inode' = [n \in Inodes |-> IF n = tmp THEN <<>> ELSE inode[n]]
    BY <2>1, <2>3
  <2>4. QED
    BY <2>2, <2>3 DEF Unlink, Forget
<1>4. /\ call' \in [Threads -> Calls] /\ call'[t] = Idle /\ \A s \in Threads \ {t} : call'[s] = call[s]
      /\ Idle.pc = "idle" /\ Idle.fd = 0 /\ Idle.buf = <<>>
  BY <1>1, <1>2, IdleCall DEF UsersShape
<1>5. UsersShape'
  <2>1. Len(<<>>) = 0 /\ MaxTable \in Nat /\ Len(<<>>) <= MaxTable
    BY SpUsersAssumption
  <2>2. \A i \in Inodes : Len(inode'[i]) <= MaxTable
    BY <1>1, <1>3, <2>1 DEF UsersShape
  <2>3. \A s \in Threads : Len(call'[s].buf) <= MaxTable
    BY <1>1, <1>4, <2>1 DEF UsersShape
  <2>4. tmp' \in 0 .. 4 /\ (tmp' = conf' => tmp' = 0)
    BY <1>1, <1>2, <1>3 DEF UsersShape
  <2>5. QED
    BY <1>1, <1>2, <1>3, <1>4, <2>2, <2>3, <2>4 DEF UsersShape
<1>6. \A s \in Threads : Saving(s)' => Saving(s) /\ s # t
  BY <1>4 DEF Saving
<1>7. FewSave'
  BY <1>1, <1>2, <1>4, <1>6 DEF FewSave
<1>8. SaveExact'
  <2>1. ASSUME ~overlap', NEW s \in Threads PROVE call'[s].pc \notin {"table", "close", "rename"}
    BY <1>1, <1>2, <1>4, <2>1 DEF FewSave, Saving
  <2>2. QED
    BY <2>1 DEF SaveExact
<1>9. FileCurrent'
  <2>1. conf # 0 => inode'[conf] = inode[conf]
    <3>1. conf # 0 => conf \in Inodes /\ conf # tmp
      BY <1>1 DEF UsersShape, Inodes
    <3>2. QED
      BY <1>3, <3>1
  <2>2. QED
    BY <1>1, <1>2, <2>1 DEF FileCurrent, UsersSettled
<1>10. QED
  BY <1>5, <1>7, <1>8, <1>9 DEF UsersInv

\* fopen: an inode that is not in use is left, as at most two calls save.
LEMMA SaveOpenKeeps ==
  ASSUME UsersInv, NEW t \in Threads, SaveOpen(t) PROVE UsersInv'
<1>1. UsersShape /\ FewSave /\ SaveExact /\ FileCurrent
  BY DEF UsersInv
<1>2. call[t].pc = "open" /\ conf' = conf /\ users' = users /\ Saving(t)
  BY DEF SaveOpen, Saving
<1>3. CASE SaveFails(t) /\ UNCHANGED <<inode, tmp>>
  BY <1>2, <1>3, FailureKeeps
<1>4. CASE LET i == IF tmp # 0 THEN tmp ELSE CHOOSE n \in Inodes : n \notin InUse
           IN /\ inode' = [inode EXCEPT ![i] = <<>>]
              /\ tmp' = i
              /\ call' = [call EXCEPT ![t].pc = "table", ![t].fd = i]
              /\ UNCHANGED userHistory
  <2>1. tmp = 0 => \E n \in Inodes : n \notin InUse
    <3>1. SUFFICES ASSUME tmp = 0 PROVE \E n \in Inodes : n \notin InUse
      OBVIOUS
    <3>2. \A r \in Threads : call[r].fd # 0 => r # t /\ Saving(r)
      BY <1>1, <1>2 DEF FewSave, Saving
    <3>3. \A r, s \in Threads : call[r].fd # 0 /\ call[s].fd # 0 => call[r].fd = call[s].fd
      BY <1>1, <1>2, <3>2 DEF FewSave
    <3>4. \E f : \A r \in Threads : call[r].fd \in {0, f}
      BY <3>3
    <3>5. PICK f : \A r \in Threads : call[r].fd \in {0, f}
      BY <3>4
    <3>6. InUse \subseteq {conf, f}
      BY <3>1, <3>5 DEF InUse, Inodes
    <3>7. PICK n \in {1, 2, 3} : n \notin {conf, f}
      OBVIOUS
    <3>8. QED
      BY <3>6, <3>7 DEF Inodes
  <2>2. PICK i \in Inodes : /\ tmp # 0 => i = tmp
                            /\ tmp = 0 => i \notin InUse
                            /\ inode' = [inode EXCEPT ![i] = <<>>] /\ tmp' = i
                            /\ call' = [call EXCEPT ![t].pc = "table", ![t].fd = i]
                            /\ acked' = acked /\ failed' = failed /\ overlap' = overlap
    <3>1. CASE tmp # 0
      <4>1. tmp \in Inodes
        BY <1>1, <3>1 DEF UsersShape, Inodes
      <4>2. QED
        BY <1>4, <3>1, <4>1 DEF userHistory
    <3>2. CASE tmp = 0
      <4>1. PICK n : n = CHOOSE m \in Inodes : m \notin InUse
        OBVIOUS
      <4>2. n \in Inodes /\ n \notin InUse
        BY <2>1, <3>2, <4>1
      <4>3. QED
        BY <1>4, <3>2, <4>1, <4>2 DEF userHistory
    <3>3. QED
      BY <3>1, <3>2
  <2>3. i # conf /\ i \in 1 .. 4
    BY <1>1, <2>2 DEF UsersShape, InUse, Inodes
  <2>4. /\ call' \in [Threads -> Calls] /\ \A s \in Threads \ {t} : call'[s] = call[s]
        /\ call'[t].pc = "table" /\ call'[t].fd = i /\ call'[t].buf = call[t].buf
    <3>1. PICK c \in Calls : c = call[t]
      BY <1>1 DEF UsersShape
    <3>2. PICK n : n = [c EXCEPT !.pc = "table", !.fd = i]
      OBVIOUS
    <3>6. i \in 0 .. 4
      BY <2>3
    <3>3. n \in Calls /\ n.pc = "table" /\ n.fd = i /\ n.buf = c.buf
      BY <3>2, <3>6 DEF Calls
    <3>4. call' = [call EXCEPT ![t] = n]
      BY <2>2, <3>1, <3>2
    <3>5. QED
      BY <1>1, <3>1, <3>3, <3>4 DEF UsersShape
  <2>5. /\ inode' \in [Inodes -> Seq(Lines)] /\ \A n \in Inodes : Len(inode'[n]) <= MaxTable
        /\ inode'[i] = <<>> /\ \A n \in Inodes \ {i} : inode'[n] = inode[n]
    <3>1. Len(<<>>) <= MaxTable
      BY SpUsersAssumption
    <3>2. inode \in [Inodes -> Seq(Lines)] /\ \A n \in Inodes : Len(inode[n]) <= MaxTable
      BY <1>1 DEF UsersShape
    <3>3. inode' \in [Inodes -> Seq(Lines)] /\ inode'[i] = <<>> /\ \A n \in Inodes \ {i} : inode'[n] = inode[n]
      BY <2>2, <3>2
    <3>4. QED
      BY <3>1, <3>2, <3>3
  <2>6. UsersShape'
    <3>1. \A s \in Threads : Len(call'[s].buf) <= MaxTable
      BY <1>1, <2>4 DEF UsersShape
    <3>2. tmp' \in 0 .. 4 /\ (tmp' = conf' => tmp' = 0)
      BY <1>2, <2>2, <2>3
    <3>3. QED
      BY <1>1, <1>2, <2>2, <2>4, <2>5, <3>1, <3>2 DEF UsersShape
  <2>7. \A s \in Threads : Saving(s)' <=> Saving(s)
    BY <1>2, <2>4 DEF Saving
  <2>8. FewSave'
    <3>1. \A s \in Threads : call'[s].fd # 0 => call'[s].pc \in {"table", "close"}
      BY <1>1, <2>4 DEF FewSave
    <3>2. QED
      BY <1>1, <2>2, <2>7, <3>1 DEF FewSave
  <2>9. SaveExact'
    <3>1. ASSUME ~overlap', NEW s \in Threads, s # t
          PROVE  call'[s].pc \notin {"table", "close", "rename"}
      BY <1>1, <1>2, <2>2, <2>4, <3>1 DEF FewSave, Saving
    <3>2. tmp' # 0 /\ call'[t].fd = tmp' /\ inode'[tmp'] = <<>> /\ call'[t].pc = "table"
      BY <2>2, <2>3, <2>4, <2>5
    <3>3. QED
      BY <3>1, <3>2 DEF SaveExact
  <2>10. FileCurrent'
    <3>1. conf # 0 => inode'[conf] = inode[conf]
      BY <1>1, <2>3, <2>5, SMTT(60) DEF UsersShape, Inodes
    <3>2. UsersSettled' => UsersSettled
      BY <2>2, <2>7 DEF UsersSettled
    <3>3. QED
      BY <1>1, <1>2, <2>2, <3>1, <3>2 DEF FileCurrent
  <2>11. QED
    BY <2>6, <2>8, <2>9, <2>10 DEF UsersInv
<1>5. QED
  BY <1>3, <1>4 DEF SaveOpen

\* The table goes into the buffer, under the lock.
LEMMA SaveTableKeeps ==
  ASSUME UsersInv, NEW t \in Threads, SaveTable(t) PROVE UsersInv'
<1>1. UsersShape /\ FewSave /\ SaveExact /\ FileCurrent
  BY DEF UsersInv
<1>2. /\ call[t].pc = "table" /\ users' = users /\ inode' = inode /\ tmp' = tmp /\ conf' = conf
      /\ acked' = acked /\ failed' = failed /\ overlap' = overlap
      /\ users \in Seq(Lines) /\ Len(users) <= MaxTable
  BY <1>1 DEF SaveTable, disk, userHistory, UsersShape
<1>3. /\ call' \in [Threads -> Calls] /\ \A s \in Threads \ {t} : call'[s] = call[s]
      /\ call'[t].pc = "close" /\ call'[t].fd = call[t].fd /\ call'[t].buf = users
  <2>1. PICK c \in Calls : c = call[t]
    BY <1>1 DEF UsersShape
  <2>2. PICK n : n = [c EXCEPT !.pc = "close", !.buf = users]
    OBVIOUS
  <2>3. n \in Calls /\ n.pc = "close" /\ n.fd = c.fd /\ n.buf = users
    BY <1>2, <2>2 DEF Calls
  <2>4. call' = [call EXCEPT ![t] = n]
    BY <2>1, <2>2 DEF SaveTable
  <2>5. QED
    BY <1>1, <2>1, <2>3, <2>4 DEF UsersShape
<1>4. \A s \in Threads : Saving(s)' <=> Saving(s)
  BY <1>2, <1>3 DEF Saving
<1>5. UsersShape'
  BY <1>1, <1>2, <1>3 DEF UsersShape
<1>6. FewSave'
  <2>1. \A s \in Threads : call'[s].fd # 0 => call'[s].pc \in {"table", "close"}
    BY <1>1, <1>3 DEF FewSave
  <2>2. QED
    BY <1>1, <1>2, <1>4, <2>1 DEF FewSave
<1>7. SaveExact'
  BY <1>1, <1>2, <1>3 DEF SaveExact
<1>8. FileCurrent'
  BY <1>1, <1>2, <1>4 DEF FileCurrent, UsersSettled
<1>9. QED
  BY <1>5, <1>6, <1>7, <1>8 DEF UsersInv

\* A flushed buffer makes the inode no longer than the longer of the two; an
\* empty inode becomes the buffer.
LEMMA FlushedOver ==
  ASSUME NEW old \in Seq(Lines), NEW buf \in Seq(Lines), Len(old) <= MaxTable, Len(buf) <= MaxTable
  PROVE  /\ Flushed(old, buf) \in Seq(Lines) /\ Len(Flushed(old, buf)) <= MaxTable
         /\ old = <<>> => Flushed(old, buf) = buf
<1>1. /\ Len(old) \in Nat /\ Len(buf) \in Nat /\ MaxTable \in Nat
      /\ old = <<>> => Len(old) = 0
  BY SpUsersAssumption
<1>2. PICK rest : rest = SubSeq(old, Len(buf) + 1, Len(old))
  OBVIOUS
<1>3. /\ rest \in Seq(Lines)
      /\ Len(rest) = IF Len(old) <= Len(buf) THEN 0 ELSE Len(old) - Len(buf)
  BY <1>1, <1>2
<1>4. /\ buf \o rest \in Seq(Lines) /\ Len(buf \o rest) = Len(buf) + Len(rest)
      /\ Len(rest) = 0 => buf \o rest = buf
  BY <1>3, SMTT(60)
<1>5. QED
  BY <1>1, <1>2, <1>3, <1>4 DEF Flushed

\* fclose.
LEMMA SaveCloseKeeps ==
  ASSUME UsersInv, NEW t \in Threads, SaveClose(t) PROVE UsersInv'
<1>1. UsersShape /\ FewSave /\ SaveExact /\ FileCurrent
  BY DEF UsersInv
<1>2. call[t].pc = "close" /\ conf' = conf /\ users' = users /\ Saving(t)
  BY DEF SaveClose, Saving
<1>3. CASE SaveFails(t) /\ Unlink
  BY <1>2, <1>3, FailureKeeps
<1>4. CASE /\ inode' = [inode EXCEPT ![call[t].fd] = Flushed(@, call[t].buf)]
           /\ call' = [call EXCEPT ![t].pc = "rename", ![t].fd = 0]
           /\ UNCHANGED <<tmp, userHistory>>
  <2>1. tmp' = tmp /\ acked' = acked /\ failed' = failed /\ overlap' = overlap
    BY <1>4 DEF userHistory
  <2>2. /\ call' \in [Threads -> Calls] /\ \A s \in Threads \ {t} : call'[s] = call[s]
        /\ call'[t].pc = "rename" /\ call'[t].fd = 0 /\ call'[t].buf = call[t].buf
    <3>1. PICK c \in Calls : c = call[t]
      BY <1>1 DEF UsersShape
    <3>2. PICK n : n = [c EXCEPT !.pc = "rename", !.fd = 0]
      OBVIOUS
    <3>6. 0 \in 0 .. 4
      OBVIOUS
    <3>3. n \in Calls /\ n.pc = "rename" /\ n.fd = 0 /\ n.buf = c.buf
      BY <3>2, <3>6 DEF Calls
    <3>4. call' = [call EXCEPT ![t] = n]
      BY <1>4, <3>1, <3>2
    <3>5. QED
      BY <1>1, <3>1, <3>3, <3>4 DEF UsersShape
  <2>3. PICK b \in Seq(Lines) : b = call[t].buf /\ Len(b) <= MaxTable
    BY <1>1 DEF UsersShape, Calls
  <2>4. PICK f : f = call[t].fd
    OBVIOUS
  <2>5. /\ inode \in [Inodes -> Seq(Lines)] /\ \A i \in Inodes : Len(inode[i]) <= MaxTable
        /\ inode' = [inode EXCEPT ![f] = Flushed(inode[f], b)]
    BY <1>1, <1>4, <2>3, <2>4 DEF UsersShape
  <2>6. /\ \A i \in Inodes : inode'[i] \in Seq(Lines) /\ Len(inode'[i]) <= MaxTable
        /\ \A i \in Inodes : i # f => inode'[i] = inode[i]
        /\ f \in Inodes /\ inode[f] = <<>> => inode'[f] = b
    <3>1. ASSUME f \in Inodes
          PROVE  /\ Flushed(inode[f], b) \in Seq(Lines) /\ Len(Flushed(inode[f], b)) <= MaxTable
                 /\ inode[f] = <<>> => Flushed(inode[f], b) = b
      BY <2>3, <2>5, <3>1, FlushedOver
    <3>2. QED
      BY <2>5, <3>1
  <2>7. UsersShape'
    <3>1. inode' \in [Inodes -> Seq(Lines)]
      BY <2>5, <2>6
    <3>2. QED
      BY <1>1, <1>2, <2>1, <2>2, <2>6, <3>1 DEF UsersShape
  <2>8. \A s \in Threads : Saving(s)' <=> Saving(s)
    BY <1>2, <2>2 DEF Saving
  <2>9. FewSave'
    <3>1. \A s \in Threads : call'[s].fd # 0 => call'[s].pc \in {"table", "close"}
      BY <1>1, <2>2 DEF FewSave
    <3>2. QED
      BY <1>1, <2>1, <2>8, <3>1 DEF FewSave
  <2>10. ~overlap => tmp # 0 /\ f = tmp /\ inode[tmp] = <<>> /\ b = users /\ f \in Inodes /\ f # conf
    BY <1>1, <1>2, <2>3, <2>4 DEF SaveExact, UsersShape, Inodes
  <2>11. SaveExact'
    <3>1. ASSUME ~overlap', NEW s \in Threads, s # t
          PROVE  call'[s].pc \notin {"table", "close", "rename"}
      BY <1>1, <1>2, <2>1, <2>2, <3>1 DEF FewSave, Saving
    <3>2. ~overlap' => tmp' # 0 /\ inode'[tmp'] = users' /\ call'[t].buf = users'
      BY <1>2, <2>1, <2>2, <2>3, <2>6, <2>10
    <3>3. QED
      BY <2>2, <3>1, <3>2 DEF SaveExact
  <2>12. FileCurrent'
    <3>1. ~overlap /\ conf # 0 => inode'[conf] = inode[conf]
      BY <1>1, <2>6, <2>10 DEF UsersShape, Inodes
    <3>2. QED
      BY <1>1, <1>2, <2>1, <2>8, <3>1 DEF FileCurrent, UsersSettled
  <2>13. QED
    BY <2>7, <2>9, <2>11, <2>12 DEF UsersInv
<1>5. QED
  BY <1>3, <1>4 DEF SaveClose

\* rename: from now on the file is the table that was written.
LEMMA SaveRenameKeeps ==
  ASSUME UsersInv, NEW t \in Threads, SaveRename(t) PROVE UsersInv'
<1>1. UsersShape /\ FewSave /\ SaveExact /\ FileCurrent
  BY DEF UsersInv
<1>2. call[t].pc = "rename" /\ users' = users /\ Saving(t)
  BY DEF SaveRename, Saving
<1>3. CASE SaveFails(t) /\ Unlink /\ UNCHANGED conf
  BY <1>2, <1>3, FailureKeeps
<1>4. CASE /\ tmp # 0 /\ conf' = tmp /\ tmp' = 0 /\ Forget(conf)
           /\ EndCall(t) /\ acked' = call[t].buf /\ failed' = FALSE /\ UNCHANGED overlap
  <2>1. /\ call' \in [Threads -> Calls] /\ call'[t] = Idle /\ \A s \in Threads \ {t} : call'[s] = call[s]
        /\ Idle.pc = "idle" /\ Idle.fd = 0 /\ Idle.buf = <<>>
    BY <1>1, <1>4, IdleCall DEF UsersShape, EndCall
  <2>2. /\ inode' \in [Inodes -> Seq(Lines)]
        /\ \A i \in Inodes : inode'[i] = IF i = conf THEN <<>> ELSE inode[i]
    BY <1>1, <1>4 DEF Forget, UsersShape
  <2>3. UsersShape'
    <3>1. Len(<<>>) <= MaxTable
      BY SpUsersAssumption
    <3>2. call[t].buf \in Seq(Lines)
      BY <1>1 DEF UsersShape, Calls
    <3>3. /\ \A i \in Inodes : Len(inode'[i]) <= MaxTable
          /\ \A s \in Threads : Len(call'[s].buf) <= MaxTable
      BY <1>1, <2>1, <2>2, <3>1 DEF UsersShape
    <3>4. conf' \in 0 .. 4 /\ tmp' \in 0 .. 4 /\ (tmp' = conf' => tmp' = 0)
      BY <1>1, <1>4 DEF UsersShape
    <3>5. acked' \in Seq(Lines) /\ failed' \in BOOLEAN /\ overlap' \in BOOLEAN
      BY <1>1, <1>4, <3>2 DEF UsersShape
    <3>6. users' \in Seq(Lines) /\ Len(users') <= MaxTable
      BY <1>1, <1>2 DEF UsersShape
    <3>7. QED
      BY <2>1, <2>2, <3>3, <3>4, <3>5, <3>6 DEF UsersShape
  <2>4. \A s \in Threads : Saving(s)' => Saving(s) /\ s # t
    BY <2>1 DEF Saving
  <2>5. FewSave'
    BY <1>1, <1>4, <2>1, <2>4 DEF FewSave
  <2>6. SaveExact'
    <3>1. ASSUME ~overlap', NEW s \in Threads PROVE call'[s].pc \notin {"table", "close", "rename"}
      BY <1>1, <1>2, <1>4, <2>1, <3>1 DEF FewSave, Saving
    <3>2. QED
      BY <3>1 DEF SaveExact
  <2>7. FileCurrent'
    <3>1. ~overlap => inode[tmp] = users /\ call[t].buf = users /\ OneEach(users)
      BY <1>1, <1>2 DEF SaveExact, FileCurrent
    <3>2. inode'[tmp] = inode[tmp]
      BY <1>1, <1>4, <2>2, SMTT(60) DEF UsersShape, Inodes
    <3>3. QED
      BY <1>2, <1>4, <3>1, <3>2 DEF FileCurrent
  <2>8. QED
    BY <2>3, <2>5, <2>6, <2>7 DEF UsersInv
<1>5. QED
  BY <1>3, <1>4 DEF SaveRename

\* What a start reads is the table of the last save that succeeded.
LEMMA LoadedCurrent ==
  ASSUME UsersInv
  PROVE  /\ Loaded \in Seq(Lines) /\ Len(Loaded) <= MaxTable
         /\ ~overlap => OneEach(Loaded) /\ ToSet(Loaded) = ToSet(acked)
<1>1. UsersShape /\ FileCurrent /\ MaxTable \in Nat
  BY SpUsersAssumption DEF UsersInv
<1>2. CASE conf = 0
  <2>1. /\ <<>> \in Seq(Lines) /\ Len(<<>>) = 0 /\ OneEach(<<>>)
    BY DEF OneEach
  <2>2. QED
    BY <1>1, <1>2, <2>1 DEF Loaded, FileCurrent
<1>3. CASE conf # 0
  <2>1. PICK s \in Seq(Lines) : s = inode[conf] /\ Len(s) <= MaxTable
    BY <1>1, <1>3 DEF UsersShape, Inodes
  <2>2. /\ Reverse(s) \in Seq(Lines) /\ Len(Reverse(s)) = Len(s) /\ ToSet(Reverse(s)) = ToSet(s)
        /\ OneEach(s) => OneEach(Reverse(s))
    BY EachReversed
  <2>3. Loaded = Reverse(s)
    BY <1>3, <2>1 DEF Loaded
  <2>4. QED
    BY <1>1, <1>3, <2>1, <2>2, <2>3 DEF FileCurrent
<1>4. QED
  BY <1>2, <1>3

\* The lookup and the answer of sp_authenticate change neither table nor file.
LEMMA QueryKeeps ==
  ASSUME UsersInv, UNCHANGED <<users, disk, userHistory>>, NEW t \in Threads,
         call' \in [Threads -> Calls], ~Saving(t), call'[t].pc \in {"idle", "check"},
         call'[t].fd = 0, Len(call'[t].buf) <= MaxTable,
         \A s \in Threads \ {t} : call'[s] = call[s]
  PROVE  UsersInv'
<1>1. UsersShape /\ FewSave /\ SaveExact /\ FileCurrent
  BY DEF UsersInv
<1>2. /\ users' = users /\ inode' = inode /\ tmp' = tmp /\ conf' = conf
      /\ acked' = acked /\ failed' = failed /\ overlap' = overlap
  BY DEF disk, userHistory
<1>3. \A s \in Threads : Saving(s)' <=> Saving(s)
  BY DEF Saving
<1>4. UsersShape'
  BY <1>1, <1>2 DEF UsersShape
<1>5. FewSave'
  <2>1. \A s \in Threads : call'[s].fd # 0 => call'[s].pc \in {"table", "close"}
    BY <1>1 DEF FewSave
  <2>2. QED
    BY <1>1, <1>2, <1>3, <2>1 DEF FewSave
<1>6. SaveExact'
  BY <1>1, <1>2 DEF SaveExact
<1>7. FileCurrent'
  BY <1>1, <1>2, <1>3 DEF FileCurrent, UsersSettled
<1>8. QED
  BY <1>4, <1>5, <1>6, <1>7 DEF UsersInv

\* sp_authenticate, under the lock.
LEMMA LookupKeeps ==
  ASSUME UsersInv, NEW t \in Threads, NEW u \in Users, Lookup(t, u) PROVE UsersInv'
<1>1. /\ call \in [Threads -> Calls] /\ call[t].pc = "idle" /\ Len(call[t].buf) <= MaxTable
      /\ call[t].fd = 0
  BY DEF UsersInv, UsersShape, FewSave, Lookup
<1>2. PICK c \in Calls : c = call[t]
  BY <1>1
<1>3. PICK n : n = [c EXCEPT !.pc = "check", !.entry = u]
  OBVIOUS
<1>4. n \in Calls /\ n.pc = "check" /\ n.fd = c.fd /\ n.buf = c.buf
  BY <1>3 DEF Calls
<1>5. call' = [call EXCEPT ![t] = n]
  BY <1>2, <1>3 DEF Lookup
<1>6. QED
  BY <1>1, <1>2, <1>4, <1>5, QueryKeeps, ZenonT(60) DEF Lookup, Saving

\* sp_authenticate, after the unlock.
LEMMA CheckKeeps ==
  ASSUME UsersInv, NEW t \in Threads, Check(t) PROVE UsersInv'
<1>1. call \in [Threads -> Calls] /\ call[t].pc = "check"
  BY DEF UsersInv, UsersShape, Check
<1>2. call' = [call EXCEPT ![t] = Idle] /\ UNCHANGED <<users, disk, userHistory>>
  BY DEF Check, EndCall
<1>3. Len(<<>>) <= MaxTable
  BY SpUsersAssumption
<1>4. QED
  BY <1>1, <1>2, <1>3, IdleCall, QueryKeeps DEF Saving

\* The process starts again.
LEMMA RestartKeepsUsers ==
  ASSUME UsersInv, RestartUsers PROVE UsersInv'
<1>1. UsersShape /\ FewSave /\ SaveExact /\ FileCurrent
  BY DEF UsersInv
<1>2. /\ users' = Loaded /\ inode' = inode /\ tmp' = tmp /\ conf' = conf
      /\ acked' = acked /\ failed' = FALSE /\ overlap' = overlap
      /\ call' = [t \in Threads |-> Idle]
  BY DEF RestartUsers, disk
<1>3. /\ Loaded \in Seq(Lines) /\ Len(Loaded) <= MaxTable
      /\ ~overlap => OneEach(Loaded) /\ ToSet(Loaded) = ToSet(acked)
  BY LoadedCurrent
<1>4. call' \in [Threads -> Calls] /\ \A t \in Threads : call'[t] = Idle
  BY <1>2, IdleCall
<1>5. UsersShape'
  <2>1. Len(<<>>) <= MaxTable
    BY SpUsersAssumption
  <2>2. \A t \in Threads : Len(call'[t].buf) <= MaxTable
    BY <1>4, <2>1, IdleCall
  <2>3. QED
    BY <1>1, <1>2, <1>3, <1>4, <2>2 DEF UsersShape
<1>6. FewSave'
  BY <1>4, IdleCall DEF FewSave, Saving
<1>7. SaveExact'
  BY <1>4, IdleCall DEF SaveExact
<1>8. FileCurrent'
  <2>1. PICK s : s = Loaded
    OBVIOUS
  <2>2. QED
    BY <1>1, <1>2, <1>3, <2>1 DEF FileCurrent
<1>9. QED
  BY <1>5, <1>6, <1>7, <1>8 DEF UsersInv

\* The plugin starts without a table and without a file.
LEMMA UsersStart == UsersInit => UsersInv
<1>1. SUFFICES ASSUME UsersInit PROVE UsersInv
  OBVIOUS
<1>2. /\ users = <<>> /\ inode = [i \in Inodes |-> <<>>] /\ tmp = 0 /\ conf = 0
      /\ call = [t \in Threads |-> Idle] /\ acked = <<>> /\ failed = FALSE /\ overlap = FALSE
  BY <1>1 DEF UsersInit
<1>3. <<>> \in Seq(Lines) /\ Len(<<>>) = 0 /\ Len(<<>>) <= MaxTable /\ OneEach(<<>>)
  BY SpUsersAssumption DEF OneEach
<1>4. call \in [Threads -> Calls] /\ \A t \in Threads : call[t] = Idle
  BY <1>2, IdleCall
<1>5. UsersShape
  <2>1. inode \in [Inodes -> Seq(Lines)] /\ \A i \in Inodes : inode[i] = <<>>
    BY <1>2, <1>3
  <2>2. /\ \A i \in Inodes : Len(inode[i]) <= MaxTable
        /\ \A t \in Threads : Len(call[t].buf) <= MaxTable
    BY <1>3, <1>4, <2>1, IdleCall
  <2>3. tmp \in 0 .. 4 /\ conf \in 0 .. 4 /\ (tmp = conf => tmp = 0)
    BY <1>2
  <2>4. users \in Seq(Lines) /\ Len(users) <= MaxTable /\ acked \in Seq(Lines)
    BY <1>2, <1>3
  <2>5. failed \in BOOLEAN /\ overlap \in BOOLEAN
    BY <1>2
  <2>6. QED
    BY <1>4, <2>1, <2>2, <2>3, <2>4, <2>5 DEF UsersShape
<1>6. FewSave /\ SaveExact
  BY <1>4, IdleCall DEF FewSave, SaveExact, Saving
<1>7. FileCurrent
  BY <1>2, <1>3 DEF FileCurrent
<1>8. QED
  BY <1>5, <1>6, <1>7 DEF UsersInv

\* Every step keeps the invariant.
LEMMA UsersStep == UsersInv /\ [UsersNext]_userVars => UsersInv'
<1>1. SUFFICES ASSUME UsersInv, [UsersNext]_userVars PROVE UsersInv'
  OBVIOUS
<1>2. ASSUME NEW t \in Threads, NEW u \in Users, NEW a \in Accounts[u], AddUser(t, u, a) PROVE UsersInv'
  BY <1>1, <1>2, AddUserKeeps
<1>3. ASSUME NEW t \in Threads, NEW u \in Users, DelUser(t, u) PROVE UsersInv'
  BY <1>1, <1>3, DelUserKeeps
<1>4. ASSUME NEW t \in Threads, NEW u \in Users, Lookup(t, u) PROVE UsersInv'
  BY <1>1, <1>4, LookupKeeps
<1>5. ASSUME NEW t \in Threads, SaveOpen(t) PROVE UsersInv'
  BY <1>1, <1>5, SaveOpenKeeps
<1>6. ASSUME NEW t \in Threads, SaveTable(t) PROVE UsersInv'
  BY <1>1, <1>6, SaveTableKeeps
<1>7. ASSUME NEW t \in Threads, SaveClose(t) PROVE UsersInv'
  BY <1>1, <1>7, SaveCloseKeeps
<1>8. ASSUME NEW t \in Threads, SaveRename(t) PROVE UsersInv'
  BY <1>1, <1>8, SaveRenameKeeps
<1>9. ASSUME NEW t \in Threads, Check(t) PROVE UsersInv'
  BY <1>1, <1>9, CheckKeeps
<1>10. CASE RestartUsers
  BY <1>1, <1>10, RestartKeepsUsers
<1>11. CASE UNCHANGED userVars
  <2>1. /\ users' = users /\ inode' = inode /\ tmp' = tmp /\ conf' = conf /\ call' = call
        /\ acked' = acked /\ failed' = failed /\ overlap' = overlap
    BY <1>11 DEF userVars, disk, userHistory
  <2>2. \A t \in Threads : Saving(t)' <=> Saving(t)
    BY <2>1 DEF Saving
  <2>3. UsersShape /\ FewSave /\ SaveExact /\ FileCurrent
    BY <1>1 DEF UsersInv
  <2>4. UsersShape' /\ SaveExact'
    BY <2>1, <2>3 DEF UsersShape, SaveExact
  <2>5. FewSave' /\ FileCurrent'
    BY <2>1, <2>2, <2>3 DEF FewSave, FileCurrent, UsersSettled
  <2>6. QED
    BY <2>4, <2>5 DEF UsersInv
<1>12. QED
  BY <1>1, <1>2, <1>3, <1>4, <1>5, <1>6, <1>7, <1>8, <1>9, <1>10, <1>11 DEF UsersNext

\* sp_users_save: as long as no two saves overlap, sp_users.conf is at any moment
\* the whole table of the last save that succeeded, whatever the number of
\* threads, users and accounts.
THEOREM TableIsDurable == UsersSpec => []TableDurable
<1>1. UsersInv => TableDurable
  <2>1. SUFFICES ASSUME UsersInv PROVE TableDurable
    OBVIOUS
  <2>2. UsersShape /\ FileCurrent /\ MaxTable \in Nat
    BY <2>1, SpUsersAssumption DEF UsersInv
  <2>3. ASSUME NEW i \in DOMAIN users
        PROVE  /\ users[i].user \in Users /\ users[i].pw \in Passwords
               /\ users[i].enabled \in BOOLEAN /\ users[i].roles # <<>>
    <3>1. users[i] \in Lines
      BY <2>2 DEF UsersShape
    <3>2. QED
      BY <3>1, LineHolds
  <2>4. Len(users) \in Nat /\ Len(users) <= MaxTable + 1
    BY <2>2 DEF UsersShape
  <2>5. \A t \in Threads : call[t].pc \in {"idle", "open", "table", "close", "rename", "check"}
    BY <2>2 DEF UsersShape, Calls
  <2>6. UsersTypeOK
    BY <2>2, <2>3, <2>4, <2>5 DEF UsersTypeOK, UsersShape
  <2>7. QED
    BY <2>2, <2>6 DEF TableDurable, FileCurrent
<1>2. QED
  BY <1>1, UsersStart, UsersStep, PTL DEF UsersSpec

\* Two tables with one entry for a name and the same entries find the same one.
LEMMA SameEntry ==
  ASSUME NEW s \in Seq(Lines), NEW t \in Seq(Lines), OneEach(s), OneEach(t), ToSet(s) = ToSet(t),
         NEW u \in Users, NEW i \in Named(s, u)
  PROVE  /\ i = FindUser(s, u) /\ FindUser(t, u) \in Named(t, u)
         /\ t[FindUser(t, u)] = s[i]
<1>1. ASSUME NEW r \in Seq(Lines), OneEach(r), NEW j \in Named(r, u) PROVE j = FindUser(r, u)
  <2>1. /\ DOMAIN r = 1 .. Len(r) /\ Named(r, u) \subseteq DOMAIN r /\ Len(r) \in Nat
        /\ \A k \in Named(r, u) : k = j
    BY <1>1 DEF OneEach, Named
  <2>2. \A k \in Named(r, u) : j <= k
    BY <2>1
  <2>3. QED
    BY <1>1, <2>1, <2>2 DEF FindUser
<1>2. i \in DOMAIN s /\ s[i].user = u /\ s[i] \in ToSet(s)
  BY DEF Named, ToSet
<1>3. PICK j \in DOMAIN t : t[j] = s[i]
  BY <1>2 DEF ToSet
<1>4. j \in Named(t, u)
  BY <1>2, <1>3 DEF Named
<1>5. QED
  BY <1>1, <1>3, <1>4

\* sp_users_load after sp_users_save: a restart leaves every user his passwords and
\* his requests, as long as no two saves overlap and the last one succeeded.
THEOREM RightsOutliveRestart == UsersSpec => RestartKeepsRights
<1>1. ASSUME UsersInv, RestartUsers, UsersSettled, ~overlap, NEW u \in Users
      PROVE  /\ \A p \in Passwords :
                   (\E i \in Named(users, u) : Accepts(users[i], p) /\ i = FindUser(users, u))
                     <=> (\E i \in Named(users', u) : Accepts(users'[i], p) /\ i = FindUser(users', u))
             /\ \A r \in Requests : Allowed(users, u, r) <=> Allowed(users', u, r)
  <2>1. PICK s \in Seq(Lines) : s = users /\ OneEach(s) /\ ToSet(s) = ToSet(acked)
    BY <1>1 DEF UsersInv, UsersShape, FileCurrent
  <2>2. PICK t \in Seq(Lines) : t = Loaded /\ OneEach(t) /\ ToSet(t) = ToSet(acked)
    BY <1>1, LoadedCurrent
  <2>3. users' = t
    BY <1>1, <2>2 DEF RestartUsers
  <2>4. CASE Named(s, u) = {}
    <3>1. Named(t, u) = {}
      BY <2>1, <2>2, <2>4, SameEntry
    <3>2. QED
      BY <2>1, <2>3, <2>4, <3>1 DEF Allowed
  <2>5. CASE Named(s, u) # {}
    <3>1. PICK i \in Named(s, u) : TRUE
      BY <2>5
    <3>2. PICK j : j = FindUser(t, u)
      OBVIOUS
    <3>3. i = FindUser(s, u) /\ j \in Named(t, u) /\ t[j] = s[i]
      BY <2>1, <2>2, <3>2, SameEntry
    <3>4. /\ \A p : Accepts(s[i], p) <=> Accepts(t[j], p)
          /\ \A r : Allowed(s, u, r) <=> Allowed(t, u, r)
      BY <3>2, <3>3 DEF Allowed
    <3>5. QED
      BY <2>1, <2>3, <3>2, <3>3, <3>4
  <2>6. QED
    BY <2>4, <2>5
<1>2. UsersInv =>
        [ (RestartUsers /\ UsersSettled /\ ~overlap) =>
          \A u \in Users :
            /\ \A p \in Passwords :
                 (\E i \in Named(users, u) : Accepts(users[i], p) /\ i = FindUser(users, u))
                   <=> (\E i \in Named(users', u) : Accepts(users'[i], p) /\ i = FindUser(users', u))
            /\ \A r \in Requests : Allowed(users, u, r) <=> Allowed(users', u, r) ]_userVars
  BY <1>1
<1>3. QED
  BY <1>2, UsersStart, UsersStep, PTL DEF UsersSpec, RestartKeepsRights

-----------------------------------------------------------------------------
(* The sockets of NP: Network, for any number of threads and descriptors.  *)

Domains == {k[1] : k \in Families}
Types == {k[2] : k \in Families}
Addresses == {NoAddress, "here", "client", "server"}
Sockets == [state : ConnStates, domain : Domains, type : Types, local : Addresses,
            peer : Addresses, late : BOOLEAN]
Conns == [fd : Fds, domain : Domains, type : Types \cup {"0"}, state : ConnStates,
          local : Addresses, peer : Addresses]
NetCalls ==
  [pc : {"register", "refresh_local", "refresh_peer", "update", "close"}, fd : Fds,
   entry : Conns \cup {NoCall.entry}, field : {"state", "local"},
   value : ConnStates \cup Addresses, refresh : BOOLEAN]

\* A socket is of a known kind, and without a peer as long as it has not connected.
SocketFits(s) ==
  s # NoSocket =>
    /\ <<s.domain, s.type>> \in Families
    /\ s.state = "CONNECTING" => s.late /\ s.peer = NoAddress
    /\ s.state = "UNCONNECTED" /\ ~s.late => s.peer = NoAddress

\* What an entry says of the socket that has its descriptor.
StateOf(e, s) == e.state = s.state \/ (s.late /\ e.state = "CONNECTING")
LocalOf(e, s) == e.local = s.local \/ (s.late /\ e.local = NoAddress)
PeerOf(e, s) == e.peer = s.peer \/ (s.late /\ e.peer = NoAddress)

\* A call that will put right the state, the local address, the peer of fd's entry.
StateComes(cs, fd) ==
  \E t \in Threads : cs[t].fd = fd /\ cs[t].pc = "update" /\ cs[t].field = "state"
LocalComes(cs, fd) ==
  \E t \in Threads : /\ cs[t].fd = fd
                     /\ \/ cs[t].pc = "refresh_local"
                        \/ cs[t].pc = "update" /\ (cs[t].field = "local" \/ cs[t].refresh)
PeerComes(cs, fd) ==
  \E t \in Threads : /\ cs[t].fd = fd
                     /\ \/ cs[t].pc \in {"refresh_local", "refresh_peer"}
                        \/ cs[t].pc = "update" /\ cs[t].refresh

\* An entry's descriptor is open, and its fields are the socket's but for those
\* that a call is about to set.
EntryFits(e, s, cs) ==
  /\ s # NoSocket
  /\ e.domain = s.domain /\ e.type \in {s.type, "0"}
  /\ StateOf(e, s) \/ StateComes(cs, e.fd)
  /\ LocalOf(e, s) \/ LocalComes(cs, e.fd)
  /\ PeerOf(e, s) \/ (e.peer = NoAddress /\ PeerComes(cs, e.fd))

\* A table has one entry for a descriptor.
OneEntry(table) == \A i, j \in DOMAIN table : table[i].fd = table[j].fd => i = j
Has(table, fd) == \E i \in DOMAIN table : table[i].fd = fd

\* What a call will put into the table is what its socket has.
CallFits(c, s) ==
  /\ s # NoSocket
  /\ c.pc = "update" =>
       /\ c.field = "state" => /\ c.value \in ConnStates
                               /\ c.value = s.state \/ (s.late /\ c.value = "CONNECTING")
       /\ c.field = "local" => c.value \in Addresses /\ c.value = s.local
       /\ c.refresh => c.field = "state"
  /\ c.pc = "register" =>
       /\ c.entry \in Conns /\ c.entry.fd = c.fd
       /\ c.entry.domain = s.domain /\ c.entry.type \in {s.type, "0"}
       /\ c.entry.state = s.state /\ s.state # "CONNECTING"
       /\ c.entry.peer = NoAddress /\ c.entry.local = NoAddress
       /\ c.refresh \/ (s.local = NoAddress /\ s.peer = NoAddress)

\* A descriptor that is new or closing is nobody's and has no entry; one whose
\* entry a call is about to change has one, if there was a place for it.
CallPlaced(c, table, gave, left) ==
  /\ c.pc \in {"register", "close"} => c.fd \notin gave /\ ~Has(table, c.fd)
  /\ c.pc \in {"update", "refresh_local", "refresh_peer"} => c.fd \in left \/ Has(table, c.fd)

NetworkShape ==
  /\ sock \in [Fds -> Sockets \cup {NoSocket}]
  /\ s_conns \in Seq(Conns) /\ Len(s_conns) <= Cap
  /\ calls \in [Threads -> NetCalls \cup {NoCall}]
  /\ given \subseteq Fds /\ untracked \subseteq Fds

\* One call at a time uses a descriptor.
CallsApart == \A t, u \in Threads : calls[t].fd = calls[u].fd /\ calls[t].pc # "idle" => t = u

NetworkInv ==
  /\ NetworkShape /\ OneEntry(s_conns) /\ CallsApart
  /\ \A f \in Fds : SocketFits(sock[f])
  /\ \A i \in DOMAIN s_conns : EntryFits(s_conns[i], sock[s_conns[i].fd], calls)
  /\ \A t \in Threads : calls[t].pc # "idle" =>
       CallFits(calls[t], sock[calls[t].fd]) /\ CallPlaced(calls[t], s_conns, given, untracked)
  /\ \A f \in given : sock[f] # NoSocket /\ (f \in untracked \/ Has(s_conns, f))

\* The numbers of the descriptors and the kinds of sockets.
LEMMA Kinds ==
  /\ \A f \in Fds : f \in Nat /\ f # -1
  /\ \A k \in Families : k = <<k[1], k[2]>> /\ k[1] \in Domains /\ k[2] \in Types
  /\ NoCall.fd = -1 /\ NoCall.pc = "idle"
  /\ \A c \in NetCalls : c.pc # "idle" /\ c.fd \in Fds
  /\ \A s \in Sockets : s # NoSocket
<1>1. \A f \in Fds : f \in Nat /\ f # -1
  BY NetworkAssumption
<1>2. \A k \in Families : k = <<k[1], k[2]>> /\ k[1] \in Domains /\ k[2] \in Types
  BY NetworkAssumption DEF Domains, Types
<1>3. NoCall.fd = -1 /\ NoCall.pc = "idle"
  BY DEF NoCall
<1>4. \A c \in NetCalls : c.pc # "idle" /\ c.fd \in Fds
  BY DEF NetCalls
<1>5. \A s \in Sockets : s # NoSocket
  BY DEF Sockets, NoSocket, ConnStates
<1>6. QED
  BY <1>1, <1>2, <1>3, <1>4, <1>5

\* The place of a descriptor's entry, if it has one.
LEMMA Place ==
  ASSUME NetworkShape, OneEntry(s_conns), NEW fd
  PROVE  /\ Positions(fd) # {} <=> Has(s_conns, fd)
         /\ Positions(fd) # {} =>
              /\ find_index(fd) \in DOMAIN s_conns
              /\ \A i \in DOMAIN s_conns : s_conns[i].fd = fd <=> i = find_index(fd)
<1>1. Positions(fd) # {} <=> Has(s_conns, fd)
  BY DEF Positions, Has
<1>2. ASSUME Positions(fd) # {}
      PROVE  /\ find_index(fd) \in DOMAIN s_conns
             /\ \A i \in DOMAIN s_conns : s_conns[i].fd = fd <=> i = find_index(fd)
  <2>1. DOMAIN s_conns = 1 .. Len(s_conns) /\ Len(s_conns) \in Nat
    BY DEF NetworkShape
  <2>2. PICK i \in DOMAIN s_conns : s_conns[i].fd = fd
    BY <1>2 DEF Positions
  <2>3. Positions(fd) = {i}
    BY <2>2 DEF Positions, OneEntry
  <2>4. find_index(fd) = i
    BY <2>1, <2>2, <2>3 DEF find_index, Min
  <2>5. QED
    BY <2>2, <2>3, <2>4 DEF Positions
<1>3. QED
  BY <1>1, <1>2

\* np_conn_update_state, np_conn_set_local, np_conn_set_addresses: one field of one
\* entry.
LEMMA EntryRenewed ==
  ASSUME NetworkShape, OneEntry(s_conns), NEW fd \in Fds, NEW field, NEW value,
         \/ field = "state" /\ value \in ConnStates
         \/ field \in {"local", "peer"} /\ value \in Addresses,
         Update(fd, field, value)
  PROVE  /\ s_conns' \in Seq(Conns) /\ Len(s_conns') <= Cap /\ OneEntry(s_conns')
         /\ \A g : Has(s_conns', g) <=> Has(s_conns, g)
         /\ \A i \in DOMAIN s_conns' :
              /\ i \in DOMAIN s_conns /\ s_conns'[i].fd = s_conns[i].fd
              /\ s_conns[i].fd # fd => s_conns'[i] = s_conns[i]
              /\ s_conns'[i].domain = s_conns[i].domain /\ s_conns'[i].type = s_conns[i].type
              /\ s_conns[i].fd = fd =>
                   /\ s_conns'[i].state = IF field = "state" THEN value ELSE s_conns[i].state
                   /\ s_conns'[i].local = IF field = "local" THEN value ELSE s_conns[i].local
                   /\ s_conns'[i].peer = IF field = "peer" THEN value ELSE s_conns[i].peer
<1>1. s_conns \in Seq(Conns) /\ Len(s_conns) <= Cap /\ Len(s_conns) \in Nat
      /\ DOMAIN s_conns = 1 .. Len(s_conns)
  BY DEF NetworkShape
<1>2. CASE Positions(fd) = {}
  <2>1. s_conns' = s_conns /\ ~Has(s_conns, fd)
    BY <1>2, Place DEF Update
  <2>2. QED
    BY <1>1, <2>1 DEF Has
<1>3. CASE Positions(fd) # {}
  <2>1. PICK n \in DOMAIN s_conns : /\ \A i \in DOMAIN s_conns : s_conns[i].fd = fd <=> i = n
                                    /\ s_conns' = [s_conns EXCEPT ![n][field] = value]
    BY <1>3, Place DEF Update
  <2>2. PICK e \in Conns : e = s_conns[n]
    BY <1>1
  <2>3. PICK x : x = [e EXCEPT ![field] = value]
    OBVIOUS
  <2>4. /\ x \in Conns /\ x.fd = e.fd /\ x.domain = e.domain /\ x.type = e.type
        /\ x.state = IF field = "state" THEN value ELSE e.state
        /\ x.local = IF field = "local" THEN value ELSE e.local
        /\ x.peer = IF field = "peer" THEN value ELSE e.peer
    <3>1. CASE field = "state"
      <4>1. x = [e EXCEPT !.state = value] /\ value \in ConnStates
        BY <2>3, <3>1
      <4>2. QED
        BY <3>1, <4>1 DEF Conns
    <3>2. CASE field = "local"
      <4>1. x = [e EXCEPT !.local = value] /\ value \in Addresses
        BY <2>3, <3>2
      <4>2. QED
        BY <3>2, <4>1 DEF Conns
    <3>3. CASE field = "peer"
      <4>1. x = [e EXCEPT !.peer = value] /\ value \in Addresses
        BY <2>3, <3>3
      <4>2. QED
        BY <3>3, <4>1 DEF Conns
    <3>4. QED
      BY <3>1, <3>2, <3>3
  <2>5. s_conns' = [s_conns EXCEPT ![n] = x]
    BY <2>1, <2>2, <2>3
  <2>6. /\ s_conns' \in Seq(Conns) /\ Len(s_conns') = Len(s_conns) /\ DOMAIN s_conns' = DOMAIN s_conns
        /\ \A i \in DOMAIN s_conns : s_conns'[i] = IF i = n THEN x ELSE s_conns[i]
    BY <1>1, <2>4, <2>5
  <2>7. \A i \in DOMAIN s_conns : s_conns'[i].fd = s_conns[i].fd
    BY <2>2, <2>4, <2>6
  <2>8. OneEntry(s_conns')
    BY <2>6, <2>7 DEF OneEntry
  <2>9. \A g : Has(s_conns', g) <=> Has(s_conns, g)
    BY <2>6, <2>7 DEF Has
  <2>10. QED
    BY <1>1, <2>1, <2>2, <2>4, <2>6, <2>7, <2>8, <2>9, ZenonT(60)
<1>4. QED
  BY <1>2, <1>3

\* np_conn_register, of a descriptor without an entry.
LEMMA Registered ==
  ASSUME NetworkShape, OneEntry(s_conns), NEW c \in Conns, ~Has(s_conns, c.fd), Register(c)
  PROVE  /\ s_conns' \in Seq(Conns) /\ Len(s_conns') <= Cap /\ OneEntry(s_conns')
         /\ \A i \in DOMAIN s_conns' :
              s_conns'[i] = c \/ (i \in DOMAIN s_conns /\ s_conns'[i] = s_conns[i])
         /\ \A g : g # c.fd => (Has(s_conns', g) <=> Has(s_conns, g))
         /\ s_conns' = s_conns \/ Has(s_conns', c.fd)
<1>1. s_conns \in Seq(Conns) /\ Len(s_conns) <= Cap /\ Len(s_conns) \in Nat /\ Cap \in Nat
      /\ DOMAIN s_conns = 1 .. Len(s_conns)
  BY NetworkAssumption DEF NetworkShape
<1>2. s_conns' = s_conns \/ (Len(s_conns) < Cap /\ s_conns' = Append(s_conns, c))
  <2>1. Positions(c.fd) = {}
    BY Place
  <2>2. s_conns' = IF Len(s_conns) >= Cap THEN s_conns ELSE Append(s_conns, c)
    BY <2>1, Zenon DEF Register
  <2>3. ~(Len(s_conns) >= Cap) => Len(s_conns) < Cap
    BY <1>1
  <2>4. QED
    BY <2>2, <2>3, Zenon
<1>3. CASE s_conns' = s_conns
  BY <1>1, <1>3
<1>4. CASE Len(s_conns) < Cap /\ s_conns' = Append(s_conns, c)
  <2>1. /\ s_conns' \in Seq(Conns) /\ Len(s_conns') = Len(s_conns) + 1
        /\ DOMAIN s_conns' = 1 .. Len(s_conns) + 1 /\ s_conns'[Len(s_conns) + 1] = c
        /\ \A i \in DOMAIN s_conns : s_conns'[i] = s_conns[i]
    BY <1>1, <1>4
  <2>2. \A i \in DOMAIN s_conns' : i \in DOMAIN s_conns \/ i = Len(s_conns) + 1
    BY <1>1, <2>1
  <2>3. DOMAIN s_conns \subseteq DOMAIN s_conns' /\ Len(s_conns) + 1 \in DOMAIN s_conns'
    BY <1>1, <2>1
  <2>4. OneEntry(s_conns')
    BY <2>1, <2>2 DEF OneEntry, Has
  <2>5. Has(s_conns', c.fd)
    BY <2>1, <2>3 DEF Has
  <2>6. \A g : g # c.fd => (Has(s_conns', g) <=> Has(s_conns, g))
    BY <2>1, <2>2, <2>3 DEF Has
  <2>7. QED
    BY <1>1, <1>4, <2>1, <2>2, <2>4, <2>5, <2>6
<1>5. QED
  BY <1>2, <1>3, <1>4

\* np_conn_unregister: the last entry takes the place.
LEMMA Unregistered ==
  ASSUME NetworkShape, OneEntry(s_conns), NEW fd, Unregister(fd)
  PROVE  /\ s_conns' \in Seq(Conns) /\ Len(s_conns') <= Cap /\ OneEntry(s_conns')
         /\ \A i \in DOMAIN s_conns' : \E j \in DOMAIN s_conns : s_conns'[i] = s_conns[j]
         /\ ~Has(s_conns', fd)
         /\ \A g : g # fd => (Has(s_conns', g) <=> Has(s_conns, g))
<1>1. s_conns \in Seq(Conns) /\ Len(s_conns) <= Cap /\ Len(s_conns) \in Nat /\ Cap \in Nat
      /\ DOMAIN s_conns = 1 .. Len(s_conns)
  BY NetworkAssumption DEF NetworkShape
<1>2. CASE Positions(fd) = {}
  <2>1. s_conns' = s_conns /\ ~Has(s_conns, fd)
    BY <1>2, Place DEF Unregister
  <2>2. QED
    BY <1>1, <2>1
<1>3. CASE Positions(fd) # {}
  <2>1. PICK n \in DOMAIN s_conns :
          /\ \A i \in DOMAIN s_conns : s_conns[i].fd = fd <=> i = n
          /\ s_conns' = Front([s_conns EXCEPT ![n] = Last(s_conns)])
    BY <1>3, Place, SMTT(60) DEF Unregister
  <2>12. PICK k \in Nat : k = Len(s_conns)
    BY <1>1, Zenon
  <2>2. k = Len(s_conns) /\ k >= 1 /\ n \in 1 .. k
    BY <1>1, <2>12
  <2>3. PICK moved : moved = [s_conns EXCEPT ![n] = s_conns[k]]
    OBVIOUS
  <2>4. /\ moved \in Seq(Conns) /\ Len(moved) = k
        /\ \A i \in 1 .. k : moved[i] = IF i = n THEN s_conns[k] ELSE s_conns[i]
    BY <1>1, <2>2, <2>3
  <2>5. s_conns' = SubSeq(moved, 1, k - 1)
    BY <2>1, <2>2, <2>3, <2>4 DEF Front, Last
  <2>6. /\ s_conns' \in Seq(Conns) /\ Len(s_conns') = k - 1 /\ DOMAIN s_conns' = 1 .. k - 1
        /\ \A i \in 1 .. k - 1 : s_conns'[i] = IF i = n THEN s_conns[k] ELSE s_conns[i]
    <3>1. k - 1 \in Nat /\ k - 1 <= k
      BY <2>2
    <3>2. s_conns' \in Seq(Conns) /\ Len(s_conns') = k - 1
      BY <2>4, <2>5, <3>1
    <3>3. \A i \in 1 .. k - 1 : s_conns'[i] = moved[i] /\ i \in 1 .. k
      BY <2>2, <2>4, <2>5, <3>1
    <3>4. QED
      BY <2>4, <3>2, <3>3
  <2>7. \A i \in DOMAIN s_conns' :
          \E j \in DOMAIN s_conns : j # n /\ s_conns'[i] = s_conns[j] /\ j = IF i = n THEN k ELSE i
    BY <1>1, <2>2, <2>6
  <2>8. OneEntry(s_conns')
    <3>1. ASSUME NEW i \in DOMAIN s_conns', NEW j \in DOMAIN s_conns', s_conns'[i].fd = s_conns'[j].fd
          PROVE  i = j
      <4>1. PICK a \in DOMAIN s_conns : s_conns'[i] = s_conns[a] /\ a = IF i = n THEN k ELSE i
        BY <2>7
      <4>2. PICK b \in DOMAIN s_conns : s_conns'[j] = s_conns[b] /\ b = IF j = n THEN k ELSE j
        BY <2>7
      <4>3. a = b
        BY <3>1, <4>1, <4>2 DEF OneEntry
      <4>4. QED
        BY <2>2, <2>6, <4>1, <4>2, <4>3
    <3>2. QED
      BY <3>1 DEF OneEntry
  <2>9. ~Has(s_conns', fd)
    BY <2>1, <2>7, ZenonT(60) DEF Has
  <2>10. ASSUME NEW g, g # fd PROVE Has(s_conns', g) <=> Has(s_conns, g)
    <3>1. Has(s_conns', g) => Has(s_conns, g)
      BY <2>7 DEF Has
    <3>2. ASSUME NEW j \in DOMAIN s_conns, s_conns[j].fd = g PROVE Has(s_conns', g)
      <4>1. j # n
        BY <2>1, <2>10, <3>2
      <4>2. CASE j = k
        <5>1. n \in 1 .. k - 1 /\ s_conns'[n] = s_conns[j]
          BY <2>2, <2>6, <4>1, <4>2
        <5>2. QED
          BY <2>6, <3>2, <5>1 DEF Has
      <4>3. CASE j # k
        <5>1. j \in 1 .. k - 1 /\ s_conns'[j] = s_conns[j]
          BY <1>1, <2>2, <2>6, <4>1, <4>3
        <5>2. QED
          BY <2>6, <3>2, <5>1 DEF Has
      <4>4. QED
        BY <4>2, <4>3
    <3>3. QED
      BY <3>1, <3>2 DEF Has
  <2>11. QED
    BY <1>1, <2>2, <2>6, <2>7, <2>8, <2>9, <2>10
<1>4. QED
  BY <1>2, <1>3

\* A step of thread t on descriptor f, which no other thread uses: c is the call that
\* t is in after it, s the socket f has; the rest is as it was, and what the step
\* leaves at f fits.
StepOn(t, f, c, s) ==
  /\ sock' = [sock EXCEPT ![f] = s] /\ s \in Sockets \cup {NoSocket} /\ SocketFits(s)
  /\ calls' = [calls EXCEPT ![t] = c] /\ c \in NetCalls \cup {NoCall}
  /\ calls[t].pc = "idle" \/ calls[t].fd = f
  /\ c.pc = "idle" \/ c.fd = f
  /\ \A u \in Threads \ {t} : calls[u].fd # f
  /\ s_conns' \in Seq(Conns) /\ Len(s_conns') <= Cap /\ OneEntry(s_conns')
  /\ \A i \in DOMAIN s_conns' :
       s_conns'[i].fd # f => \E j \in DOMAIN s_conns : s_conns'[i] = s_conns[j]
  /\ \A i \in DOMAIN s_conns' : s_conns'[i].fd = f => EntryFits(s_conns'[i], s, calls')
  /\ \A g : g # f => (Has(s_conns', g) <=> Has(s_conns, g))
  /\ given' \subseteq Fds /\ untracked' \subseteq Fds
  /\ \A g \in Fds \ {f} : (g \in given' <=> g \in given) /\ (g \in untracked' <=> g \in untracked)
  /\ c.pc # "idle" => CallFits(c, s) /\ CallPlaced(c, s_conns', given', untracked')
  /\ f \in given' => s # NoSocket /\ (f \in untracked' \/ Has(s_conns', f))

\* Such a step keeps the invariant.
LEMMA LocalStep ==
  ASSUME NetworkInv, NEW t \in Threads, NEW f \in Fds, NEW c, NEW s, StepOn(t, f, c, s)
  PROVE  NetworkInv'
<1>1. /\ NetworkShape /\ CallsApart
      /\ sock \in [Fds -> Sockets \cup {NoSocket}] /\ calls \in [Threads -> NetCalls \cup {NoCall}]
  BY DEF NetworkInv, NetworkShape
<1>11. /\ sock' = [sock EXCEPT ![f] = s] /\ s \in Sockets \cup {NoSocket} /\ SocketFits(s)
       /\ calls' = [calls EXCEPT ![t] = c] /\ c \in NetCalls \cup {NoCall}
       /\ calls[t].pc = "idle" \/ calls[t].fd = f
       /\ c.pc = "idle" \/ c.fd = f
       /\ \A u \in Threads \ {t} : calls[u].fd # f
  BY DEF StepOn
<1>12. /\ s_conns' \in Seq(Conns) /\ Len(s_conns') <= Cap /\ OneEntry(s_conns')
       /\ given' \subseteq Fds /\ untracked' \subseteq Fds
  BY DEF StepOn
<1>13. /\ \A i \in DOMAIN s_conns' :
            s_conns'[i].fd # f => \E j \in DOMAIN s_conns : s_conns'[i] = s_conns[j]
       /\ \A i \in DOMAIN s_conns' : s_conns'[i].fd = f => EntryFits(s_conns'[i], s, calls')
       /\ \A g : g # f => (Has(s_conns', g) <=> Has(s_conns, g))
  BY DEF StepOn
<1>14. /\ \A g \in Fds \ {f} : (g \in given' <=> g \in given) /\ (g \in untracked' <=> g \in untracked)
       /\ c.pc # "idle" => CallFits(c, s) /\ CallPlaced(c, s_conns', given', untracked')
       /\ f \in given' => s # NoSocket /\ (f \in untracked' \/ Has(s_conns', f))
  BY DEF StepOn
<1>2. /\ sock'[f] = s /\ \A g \in Fds \ {f} : sock'[g] = sock[g]
      /\ calls'[t] = c /\ \A u \in Threads \ {t} : calls'[u] = calls[u]
  BY <1>1, <1>11
<1>3. NetworkShape'
  BY <1>1, <1>11, <1>12 DEF NetworkShape
<1>4. \A u \in Threads : calls[u].pc # "idle" => calls[u].fd \in Fds
  BY <1>1, Kinds
<1>5. CallsApart'
  <2>1. ASSUME NEW u \in Threads, NEW v \in Threads, calls'[u].fd = calls'[v].fd, calls'[u].pc # "idle"
        PROVE  u = v
    <3>1. CASE u = t /\ v # t
      BY <1>2, <1>11, <2>1, <3>1
    <3>2. CASE u # t /\ v = t
      <4>1. c.pc = "idle" /\ c.fd = -1
        BY <1>2, <1>11, <2>1, <3>2, Kinds
      <4>2. QED
        BY <1>2, <1>4, <1>11, <2>1, <3>2, <4>1, Kinds
    <3>3. CASE u # t /\ v # t
      BY <1>1, <1>2, <2>1, <3>3 DEF CallsApart
    <3>4. QED
      BY <3>1, <3>2, <3>3
  <2>2. QED
    BY <2>1 DEF CallsApart
<1>6. \A g \in Fds : SocketFits(sock'[g])
  BY <1>2, <1>11 DEF NetworkInv
<1>7. ASSUME NEW i \in DOMAIN s_conns' PROVE EntryFits(s_conns'[i], sock'[s_conns'[i].fd], calls')
  <2>1. CASE s_conns'[i].fd = f
    BY <1>2, <1>13, <2>1
  <2>2. CASE s_conns'[i].fd # f
    <3>1. PICK j \in DOMAIN s_conns : s_conns'[i] = s_conns[j]
      BY <1>13, <2>2
    <3>8. PICK e \in Conns : e = s_conns[j]
      BY <1>1 DEF NetworkShape
    <3>9. e = s_conns'[i] /\ e.fd # f /\ e.fd \in Fds
      BY <2>2, <3>1, <3>8 DEF Conns
    <3>2. EntryFits(e, sock[e.fd], calls)
      BY <3>8 DEF NetworkInv
    <3>3. sock'[e.fd] = sock[e.fd]
      BY <1>2, <3>9
    <3>4. \A u \in Threads : calls[u].fd = e.fd /\ calls[u].pc # "idle" => calls'[u] = calls[u]
      BY <1>2, <1>11, <3>9
    <3>5. /\ StateComes(calls, e.fd) => StateComes(calls', e.fd)
          /\ LocalComes(calls, e.fd) => LocalComes(calls', e.fd)
          /\ PeerComes(calls, e.fd) => PeerComes(calls', e.fd)
      BY <3>4 DEF StateComes, LocalComes, PeerComes
    <3>6. EntryFits(e, sock[e.fd], calls')
      BY <3>2, <3>5 DEF EntryFits
    <3>7. QED
      BY <3>3, <3>6, <3>9
  <2>3. QED
    BY <2>1, <2>2
<1>8. ASSUME NEW u \in Threads, calls'[u].pc # "idle"
      PROVE  CallFits(calls'[u], sock'[calls'[u].fd]) /\ CallPlaced(calls'[u], s_conns', given', untracked')
  <2>1. CASE u = t
    BY <1>2, <1>8, <1>11, <1>14, <2>1
  <2>2. CASE u # t
    <3>1. PICK o \in NetCalls : o = calls[u] /\ calls'[u] = o /\ o.fd \in Fds /\ o.fd # f
      BY <1>1, <1>2, <1>8, <1>11, <2>2, Kinds
    <3>2. CallFits(o, sock[o.fd]) /\ CallPlaced(o, s_conns, given, untracked) /\ sock'[o.fd] = sock[o.fd]
      BY <1>2, <1>8, <3>1 DEF NetworkInv
    <3>3. CallPlaced(o, s_conns', given', untracked')
      BY <1>12, <1>13, <1>14, <3>1, <3>2 DEF CallPlaced
    <3>4. QED
      BY <3>1, <3>2, <3>3
  <2>3. QED
    BY <2>1, <2>2
<1>9. \A g \in given' : sock'[g] # NoSocket /\ (g \in untracked' \/ Has(s_conns', g))
  BY <1>1, <1>2, <1>12, <1>13, <1>14 DEF NetworkInv, NetworkShape
<1>10. QED
  BY <1>3, <1>5, <1>6, <1>7, <1>8, <1>9, <1>12 DEF NetworkInv

\* A descriptor that a call has is no other call's, and one that is free, or that no
\* call uses, is nobody's.
LEMMA Alone ==
  ASSUME NetworkInv, NEW t \in Threads
  PROVE  /\ calls[t].pc # "idle" =>
              calls[t] \in NetCalls /\ \A u \in Threads \ {t} : calls[u].fd # calls[t].fd
         /\ calls[t].pc = "idle" => calls[t] = NoCall
         /\ \A f : Begin(t, f) =>
              /\ calls[t] = NoCall /\ \A u \in Threads : calls[u].fd # f
              /\ f \in given /\ sock[f] \in Sockets /\ SocketFits(sock[f])
         /\ \A f : f \in Fds /\ sock[f] = NoSocket =>
              /\ \A u \in Threads : calls[u].fd # f
              /\ f \notin given /\ ~Has(s_conns, f)
<1>1. /\ calls \in [Threads -> NetCalls \cup {NoCall}] /\ sock \in [Fds -> Sockets \cup {NoSocket}]
      /\ s_conns \in Seq(Conns) /\ given \subseteq Fds /\ CallsApart
  BY DEF NetworkInv, NetworkShape
<1>2. \A u \in Threads : /\ calls[u].pc = "idle" <=> calls[u] = NoCall
                         /\ calls[u].pc # "idle" <=> calls[u] \in NetCalls
  BY <1>1, Kinds
<1>3. \A u \in Threads : calls[u].pc # "idle" => sock[calls[u].fd] # NoSocket
  BY DEF NetworkInv, CallFits
<1>4. \A i \in DOMAIN s_conns : sock[s_conns[i].fd] # NoSocket
  BY DEF NetworkInv, EntryFits
<1>5. calls[t].pc # "idle" => \A u \in Threads \ {t} : calls[u].fd # calls[t].fd
  BY <1>1 DEF CallsApart
<1>6. ASSUME NEW f, Begin(t, f)
      PROVE  /\ calls[t] = NoCall /\ \A u \in Threads : calls[u].fd # f
             /\ f \in given /\ sock[f] \in Sockets /\ SocketFits(sock[f])
  <2>1. calls[t].pc = "idle" /\ f \in given /\ f \notin Using
    BY <1>6 DEF Begin, At
  <2>2. sock[f] # NoSocket /\ SocketFits(sock[f]) /\ f \in Fds
    BY <1>1, <2>1 DEF NetworkInv
  <2>3. QED
    BY <1>1, <1>2, <2>1, <2>2 DEF Using
<1>7. ASSUME NEW f \in Fds, sock[f] = NoSocket
      PROVE  /\ \A u \in Threads : calls[u].fd # f
             /\ f \notin given /\ ~Has(s_conns, f)
  <2>1. \A u \in Threads : calls[u].fd # f
    BY <1>2, <1>3, <1>7, Kinds
  <2>2. f \notin given
    BY <1>7 DEF NetworkInv
  <2>3. QED
    BY <1>4, <1>7, <2>1, <2>2 DEF Has
<1>8. QED
  BY <1>2, <1>5, <1>6, <1>7

\* socket and accept: the kernel has made a socket, the entry is still to come.
LEMMA NewSocketKeeps ==
  ASSUME NetworkInv, NEW t \in Threads, calls[t].pc = "idle", NEW f \in Fds, sock[f] = NoSocket,
         NEW s \in Sockets, SocketFits(s), s.state # "CONNECTING",
         NEW e \in Conns, e.fd = f, e.domain = s.domain, e.type \in {s.type, "0"},
         e.state = s.state, e.local = NoAddress, e.peer = NoAddress,
         NEW refresh \in BOOLEAN, refresh \/ (s.local = NoAddress /\ s.peer = NoAddress),
         sock' = [sock EXCEPT ![f] = s], Enter(t, Registering(e, refresh)),
         UNCHANGED <<s_conns, given, untracked>>
  PROVE  NetworkInv'
<1>1. PICK c : c = Registering(e, refresh)
  OBVIOUS
<1>2. c \in NetCalls /\ c.pc = "register" /\ c.fd = f /\ c.entry = e /\ c.refresh = refresh
  <2>1. PICK w \in [pc : {"idle"}, fd : {-1}, entry : {NoCall.entry}, field : {"state"},
                   value : ConnStates, refresh : {FALSE}] : w = NoCall
    BY DEF NoCall, ConnStates
  <2>2. c = [w EXCEPT !.pc = "register", !.fd = f, !.entry = e, !.refresh = refresh]
    BY <1>1, <2>1 DEF Registering
  <2>3. QED
    BY <2>2 DEF NetCalls
<1>3. calls' = [calls EXCEPT ![t] = c]
  BY <1>1 DEF Enter
<1>4. /\ \A u \in Threads : calls[u].fd # f
      /\ f \notin given /\ ~Has(s_conns, f)
  BY Alone
<1>5. CallFits(c, s) /\ CallPlaced(c, s_conns, given, untracked)
  BY <1>2, <1>4, Kinds DEF CallFits, CallPlaced
<1>6. /\ s_conns \in Seq(Conns) /\ Len(s_conns) <= Cap /\ OneEntry(s_conns)
      /\ given \subseteq Fds /\ untracked \subseteq Fds
  BY DEF NetworkInv, NetworkShape
<1>7. \A i \in DOMAIN s_conns : s_conns[i].fd # f
  BY <1>4 DEF Has
<1>8. /\ s_conns' = s_conns /\ given' = given /\ untracked' = untracked /\ calls[t].pc = "idle"
      /\ f \in Fds /\ c \in NetCalls \cup {NoCall} /\ s \in Sockets \cup {NoSocket} /\ c.pc # "idle"
  BY <1>2
<1>9. StepOn(t, f, c, s)
  BY <1>2, <1>3, <1>4, <1>5, <1>6, <1>7, <1>8 DEF StepOn
<1>10. QED
  BY <1>9, LocalStep

\* np_socket_impl.
LEMMA SocketKeeps ==
  ASSUME NetworkInv, NEW t \in Threads, NEW k \in Families, Socket(t, k[1], k[2])
  PROVE  NetworkInv'
<1>1. PICK f \in Fds :
        /\ Lowest(f)
        /\ sock' = [sock EXCEPT ![f] = KernelSocket(k[1], k[2], "UNCONNECTED", NoAddress, NoAddress)]
        /\ Enter(t, Registering(Entry(f, k[1], k[2], "UNCONNECTED"), FALSE))
  BY DEF Socket
<1>2. calls[t].pc = "idle" /\ UNCHANGED <<s_conns, given, untracked>>
  BY DEF Socket, At
<1>3. sock[f] = NoSocket
  BY <1>1 DEF Lowest, FreeFds
<1>4. k = <<k[1], k[2]>> /\ k[1] \in Domains /\ k[2] \in Types
  BY Kinds
<1>5. PICK s : s = KernelSocket(k[1], k[2], "UNCONNECTED", NoAddress, NoAddress)
  OBVIOUS
<1>6. PICK e : e = Entry(f, k[1], k[2], "UNCONNECTED")
  OBVIOUS
<1>7. NoAddress \in Addresses /\ "UNCONNECTED" \in ConnStates /\ k[2] \in Types \cup {"0"}
  BY <1>4 DEF Addresses, ConnStates
<1>8. /\ s \in Sockets /\ s.domain = k[1] /\ s.type = k[2] /\ s.state = "UNCONNECTED"
      /\ s.local = NoAddress /\ s.peer = NoAddress
  BY <1>4, <1>5, <1>7 DEF KernelSocket, Sockets
<1>9. /\ e \in Conns /\ e.fd = f /\ e.domain = k[1] /\ e.type = k[2] /\ e.state = "UNCONNECTED"
      /\ e.local = NoAddress /\ e.peer = NoAddress
  BY <1>4, <1>6, <1>7 DEF Entry, Conns
<1>10. SocketFits(s)
  BY <1>4, <1>8 DEF SocketFits
<1>11. QED
  BY <1>1, <1>2, <1>3, <1>5, <1>6, <1>8, <1>9, <1>10, NewSocketKeeps

\* An address that a socket of f's domain has.
LEMMA AddressTyped ==
  \A f, a : a \in {"here", "client", "server"} => Address(f, a) \in Addresses
BY DEF Address, Addresses

\* np_accept_impl.
LEMMA AcceptKeeps ==
  ASSUME NetworkInv, NEW t \in Threads, NEW fd \in Fds, Accept(t, fd) PROVE NetworkInv'
<1>1. PICK f \in Fds :
        /\ Lowest(f)
        /\ sock' = [sock EXCEPT ![f] = KernelSocket(sock[fd].domain, sock[fd].type, "CONNECTED",
                                                   sock[fd].local, Address(fd, "client"))]
        /\ Enter(t, Registering(Entry(f, sock[fd].domain, "0", "CONNECTED"), TRUE))
  BY DEF Accept
<1>2. Begin(t, fd) /\ UNCHANGED <<s_conns, given, untracked>>
  BY DEF Accept
<1>3. sock[f] = NoSocket
  BY <1>1 DEF Lowest, FreeFds
<1>4. PICK l \in Sockets : l = sock[fd] /\ SocketFits(l)
  BY <1>2, Alone
<1>5. PICK s : s = KernelSocket(l.domain, l.type, "CONNECTED", l.local, Address(fd, "client"))
  OBVIOUS
<1>6. PICK e : e = Entry(f, l.domain, "0", "CONNECTED")
  OBVIOUS
<1>7. /\ NoAddress \in Addresses /\ "CONNECTED" \in ConnStates /\ "0" \in Types \cup {"0"}
      /\ Address(fd, "client") \in Addresses
  BY AddressTyped DEF Addresses, ConnStates
<1>8. /\ l.domain \in Domains /\ l.type \in Types /\ l.local \in Addresses
      /\ <<l.domain, l.type>> \in Families
  BY <1>4, Kinds DEF Sockets, SocketFits
<1>9. /\ s \in Sockets /\ s.domain = l.domain /\ s.type = l.type /\ s.state = "CONNECTED"
  BY <1>5, <1>7, <1>8 DEF KernelSocket, Sockets
<1>10. /\ e \in Conns /\ e.fd = f /\ e.domain = l.domain /\ e.type = "0" /\ e.state = "CONNECTED"
       /\ e.local = NoAddress /\ e.peer = NoAddress
  BY <1>6, <1>7, <1>8 DEF Entry, Conns
<1>11. SocketFits(s)
  BY <1>8, <1>9 DEF SocketFits
<1>12. calls[t].pc = "idle"
  BY <1>2 DEF Begin, At
<1>13. QED
  BY <1>1, <1>2, <1>3, <1>4, <1>5, <1>6, <1>9, <1>10, <1>11, <1>12, NewSocketKeeps, ZenonT(60)

\* The second half of socket and accept: np_conn_register.
LEMMA DoRegisterKeeps ==
  ASSUME NetworkInv, NEW t \in Threads, DoRegister(t) PROVE NetworkInv'
<1>1. PICK c \in NetCalls : c = calls[t] /\ c.pc = "register" /\ c.fd \in Fds
  BY Alone, Kinds DEF DoRegister, At
<1>2. PICK s \in Sockets : s = sock[c.fd] /\ SocketFits(s)
  <2>1. CallFits(c, sock[c.fd]) /\ sock[c.fd] \in Sockets \cup {NoSocket}
    BY <1>1 DEF NetworkInv, NetworkShape
  <2>2. QED
    BY <1>1, <2>1 DEF CallFits, NetworkInv
<1>3. /\ CallFits(c, s) /\ CallPlaced(c, s_conns, given, untracked)
      /\ \A u \in Threads \ {t} : calls[u].fd # c.fd
      /\ NetworkShape /\ OneEntry(s_conns)
  BY <1>1, <1>2, Alone DEF NetworkInv
<1>4. PICK e \in Conns : /\ e = c.entry /\ e.fd = c.fd /\ e.domain = s.domain
                         /\ e.type \in {s.type, "0"} /\ e.state = s.state
                         /\ e.peer = NoAddress /\ e.local = NoAddress
                         /\ c.refresh \/ (s.local = NoAddress /\ s.peer = NoAddress)
  BY <1>1, <1>3 DEF CallFits
<1>5. ~Has(s_conns, e.fd) /\ c.fd \notin given
  BY <1>1, <1>3, <1>4 DEF CallPlaced
<1>6. Register(e)
  BY <1>1, <1>4 DEF DoRegister
<1>7. /\ s_conns' \in Seq(Conns) /\ Len(s_conns') <= Cap /\ OneEntry(s_conns')
      /\ \A i \in DOMAIN s_conns' :
           s_conns'[i] = e \/ (i \in DOMAIN s_conns /\ s_conns'[i] = s_conns[i])
      /\ \A g : g # e.fd => (Has(s_conns', g) <=> Has(s_conns, g))
      /\ s_conns' = s_conns \/ Has(s_conns', e.fd)
  BY <1>3, <1>5, <1>6, Registered
<1>8. /\ untracked' = IF s_conns' = s_conns /\ Positions(c.fd) = {} THEN untracked \cup {c.fd}
                      ELSE untracked
      /\ sock' = sock
      /\ \/ c.refresh /\ Continue(t, "refresh_local") /\ given' = given
         \/ ~c.refresh /\ Leave(t) /\ given' = given \cup {c.fd}
  BY <1>1 DEF DoRegister
<1>9. c.fd \in untracked' \/ Has(s_conns', c.fd)
  <2>1. Positions(c.fd) = {}
    BY <1>3, <1>4, <1>5, Place
  <2>2. QED
    BY <1>4, <1>7, <1>8, <2>1
<1>10. PICK n \in NetCalls \cup {NoCall} :
         /\ calls' = [calls EXCEPT ![t] = n]
         /\ c.refresh => n.pc = "refresh_local" /\ n.fd = c.fd
         /\ ~c.refresh => n = NoCall
  <2>1. CASE c.refresh
    <3>1. PICK n : n = [c EXCEPT !.pc = "refresh_local"]
      OBVIOUS
    <3>2. n \in NetCalls /\ n.pc = "refresh_local" /\ n.fd = c.fd
      BY <3>1 DEF NetCalls
    <3>3. calls' = [calls EXCEPT ![t] = n]
      BY <1>1, <1>8, <2>1, <3>1 DEF Continue
    <3>4. QED
      BY <2>1, <3>2, <3>3
  <2>2. CASE ~c.refresh
    BY <1>8, <2>2 DEF Leave
  <2>3. QED
    BY <2>1, <2>2
<1>11. EntryFits(e, s, calls')
  <2>1. s # NoSocket /\ StateOf(e, s)
    BY <1>4, Kinds DEF StateOf
  <2>2. CASE c.refresh
    <3>1. calls'[t].fd = e.fd /\ calls'[t].pc = "refresh_local"
      BY <1>3, <1>4, <1>10, <2>2 DEF NetworkShape
    <3>2. LocalComes(calls', e.fd) /\ PeerComes(calls', e.fd)
      BY <3>1 DEF LocalComes, PeerComes
    <3>3. QED
      BY <1>4, <2>1, <3>2 DEF EntryFits
  <2>3. CASE ~c.refresh
    <3>1. LocalOf(e, s) /\ PeerOf(e, s)
      BY <1>4, <2>3 DEF LocalOf, PeerOf
    <3>2. QED
      BY <1>4, <2>1, <3>1 DEF EntryFits
  <2>4. QED
    BY <2>2, <2>3
<1>12. \A i \in DOMAIN s_conns' : s_conns'[i].fd = c.fd => s_conns'[i] = e
  BY <1>4, <1>5, <1>7 DEF Has
<1>13. n.pc # "idle" => CallFits(n, s) /\ CallPlaced(n, s_conns', given', untracked')
  BY <1>9, <1>10, Kinds DEF CallFits, CallPlaced
<1>14. sock' = [sock EXCEPT ![c.fd] = s]
  BY <1>2, <1>3, <1>8 DEF NetworkShape
<1>15. /\ given' \subseteq Fds /\ untracked' \subseteq Fds
       /\ \A g \in Fds \ {c.fd} : (g \in given' <=> g \in given) /\ (g \in untracked' <=> g \in untracked)
  BY <1>1, <1>3, <1>8 DEF NetworkShape
<1>16. n.pc = "idle" \/ n.fd = c.fd
  BY <1>10, Kinds
<1>17. \A i \in DOMAIN s_conns' :
         s_conns'[i].fd # c.fd => \E j \in DOMAIN s_conns : s_conns'[i] = s_conns[j]
  BY <1>4, <1>7
<1>18. /\ c.fd \in Fds /\ calls[t].fd = c.fd /\ s \in Sockets \cup {NoSocket} /\ s # NoSocket
       /\ \A g : g # c.fd => (Has(s_conns', g) <=> Has(s_conns, g))
  BY <1>1, <1>2, <1>4, <1>7, Kinds
<1>19. PICK f \in Fds : f = c.fd
  BY <1>18
<1>20. \A i \in DOMAIN s_conns' : s_conns'[i].fd = f => EntryFits(s_conns'[i], s, calls')
  BY <1>11, <1>12, <1>19
<1>21. StepOn(t, f, n, s)
  BY <1>2, <1>3, <1>7, <1>9, <1>10, <1>13, <1>14, <1>15, <1>16, <1>17, <1>18, <1>19, <1>20 DEF StepOn
<1>22. QED
  BY <1>21, LocalStep

\* A call on f takes its next step, and the table, not the kernel, has a new field.
LEMMA FieldKeeps ==
  ASSUME NetworkInv, NEW t \in Threads, NEW c \in NetCalls, c = calls[t],
         NEW n \in NetCalls \cup {NoCall}, n.pc = "idle" \/ n.fd = c.fd,
         calls' = [calls EXCEPT ![t] = n], UNCHANGED <<sock, untracked>>,
         given' \in {given, given \cup {c.fd}},
         NEW field, NEW value,
         \/ field = "state" /\ value \in ConnStates
         \/ field \in {"local", "peer"} /\ value \in Addresses,
         Update(c.fd, field, value) \/ UNCHANGED s_conns,
         \A i \in DOMAIN s_conns' : s_conns'[i].fd = c.fd => EntryFits(s_conns'[i], sock[c.fd], calls'),
         c.fd \in untracked \/ Has(s_conns, c.fd),
         n.pc # "idle" => CallFits(n, sock[c.fd]) /\ n.pc \notin {"register", "close"}
  PROVE  NetworkInv'
<1>1. /\ NetworkShape /\ OneEntry(s_conns) /\ c.fd \in Fds /\ c.pc # "idle"
      /\ s_conns \in Seq(Conns) /\ Len(s_conns) <= Cap
      /\ sock \in [Fds -> Sockets \cup {NoSocket}] /\ given \subseteq Fds /\ untracked \subseteq Fds
  BY Kinds DEF NetworkInv, NetworkShape
<1>2. PICK f \in Fds : f = c.fd
  BY <1>1
<1>3. PICK s \in Sockets \cup {NoSocket} : s = sock[f]
  BY <1>1
<1>4. /\ s_conns' \in Seq(Conns) /\ Len(s_conns') <= Cap /\ OneEntry(s_conns')
      /\ \A g : Has(s_conns', g) <=> Has(s_conns, g)
      /\ \A i \in DOMAIN s_conns' :
           s_conns'[i].fd # f => \E j \in DOMAIN s_conns : s_conns'[i] = s_conns[j]
  <2>1. CASE UNCHANGED s_conns
    BY <1>1, <2>1
  <2>2. CASE Update(f, field, value)
    <3>1. /\ s_conns' \in Seq(Conns) /\ Len(s_conns') <= Cap /\ OneEntry(s_conns')
          /\ \A g : Has(s_conns', g) <=> Has(s_conns, g)
          /\ \A i \in DOMAIN s_conns' :
               /\ i \in DOMAIN s_conns /\ s_conns'[i].fd = s_conns[i].fd
               /\ s_conns[i].fd # f => s_conns'[i] = s_conns[i]
      BY <1>1, <2>2, EntryRenewed
    <3>2. QED
      BY <3>1
  <2>3. QED
    BY <1>2, <2>1, <2>2
<1>5. sock' = [sock EXCEPT ![f] = s] /\ SocketFits(s) /\ s # NoSocket
  BY <1>1, <1>2, <1>3 DEF NetworkInv, CallFits
<1>6. calls[t].fd = f /\ (n.pc = "idle" \/ n.fd = f) /\ \A u \in Threads \ {t} : calls[u].fd # f
  BY <1>1, <1>2, Alone
<1>7. n.pc # "idle" => CallFits(n, s) /\ CallPlaced(n, s_conns', given', untracked')
  BY <1>2, <1>3, <1>4 DEF CallPlaced
<1>8. /\ given' \subseteq Fds /\ untracked' \subseteq Fds
      /\ \A g \in Fds \ {f} : (g \in given' <=> g \in given) /\ (g \in untracked' <=> g \in untracked)
  BY <1>1, <1>2
<1>9. f \in untracked' \/ Has(s_conns', f)
  BY <1>2, <1>4
<1>10. \A i \in DOMAIN s_conns' : s_conns'[i].fd = f => EntryFits(s_conns'[i], s, calls')
  BY <1>2, <1>3
<1>11. StepOn(t, f, n, s)
  BY <1>4, <1>5, <1>6, <1>7, <1>8, <1>9, <1>10 DEF StepOn
<1>12. QED
  BY <1>11, LocalStep

\* What the entry of a call's descriptor says, before its next step: only this call
\* can be the one that will put it right.
LEMMA OwnEntry ==
  ASSUME NetworkInv, NEW t \in Threads, NEW c \in NetCalls, c = calls[t],
         NEW i \in DOMAIN s_conns, s_conns[i].fd = c.fd
  PROVE  LET e == s_conns[i]
             s == sock[c.fd]
         IN /\ s # NoSocket /\ e.domain = s.domain /\ e.type \in {s.type, "0"}
            /\ StateOf(e, s) \/ (c.pc = "update" /\ c.field = "state")
            /\ \/ LocalOf(e, s) \/ c.pc = "refresh_local"
               \/ c.pc = "update" /\ (c.field = "local" \/ c.refresh)
            /\ \/ PeerOf(e, s)
               \/ /\ e.peer = NoAddress
                  /\ c.pc \in {"refresh_local", "refresh_peer"} \/ (c.pc = "update" /\ c.refresh)
<1>1. EntryFits(s_conns[i], sock[c.fd], calls)
  BY DEF NetworkInv
<1>2. \A u \in Threads \ {t} : calls[u].fd # c.fd
  BY Alone, Kinds
<1>3. QED
  BY <1>1, <1>2 DEF EntryFits, StateComes, LocalComes, PeerComes

\* conn_refresh_from_fd: the local address.
LEMMA RefreshLocalKeeps ==
  ASSUME NetworkInv, NEW t \in Threads, RefreshLocal(t) PROVE NetworkInv'
<1>1. PICK c \in NetCalls : c = calls[t] /\ c.pc = "refresh_local" /\ c.fd \in Fds
  BY Alone, Kinds DEF RefreshLocal, At
<1>2. PICK s \in Sockets : s = sock[c.fd]
  <2>1. CallFits(c, sock[c.fd]) /\ sock[c.fd] \in Sockets \cup {NoSocket}
    BY <1>1 DEF NetworkInv, NetworkShape
  <2>2. QED
    BY <2>1 DEF CallFits
<1>3. PICK n : n = [c EXCEPT !.pc = "refresh_peer"]
  OBVIOUS
<1>4. n \in NetCalls /\ n.pc = "refresh_peer" /\ n.fd = c.fd
  BY <1>3 DEF NetCalls
<1>5. /\ calls' = [calls EXCEPT ![t] = n] /\ UNCHANGED <<sock, untracked>> /\ given' = given
      /\ Update(c.fd, "local", s.local) /\ s.local \in Addresses
      /\ NetworkShape /\ OneEntry(s_conns)
  BY <1>1, <1>2, <1>3 DEF RefreshLocal, Continue, Sockets, NetworkInv
<1>6. calls'[t].fd = c.fd /\ calls'[t].pc = "refresh_peer"
  BY <1>4, <1>5 DEF NetworkShape
<1>7. ASSUME NEW i \in DOMAIN s_conns', s_conns'[i].fd = c.fd PROVE EntryFits(s_conns'[i], s, calls')
  <2>1. /\ i \in DOMAIN s_conns /\ s_conns[i].fd = c.fd
        /\ s_conns'[i].domain = s_conns[i].domain /\ s_conns'[i].type = s_conns[i].type
        /\ s_conns'[i].state = s_conns[i].state /\ s_conns'[i].local = s.local
        /\ s_conns'[i].peer = s_conns[i].peer
    BY <1>1, <1>5, <1>7, EntryRenewed
  <2>2. /\ s_conns[i].domain = s.domain /\ s_conns[i].type \in {s.type, "0"}
        /\ StateOf(s_conns[i], s) /\ (PeerOf(s_conns[i], s) \/ s_conns[i].peer = NoAddress)
    BY <1>1, <1>2, <2>1, OwnEntry
  <2>3. PeerComes(calls', c.fd)
    BY <1>6 DEF PeerComes
  <2>4. QED
    BY <1>2, <1>7, <2>1, <2>2, <2>3, Kinds DEF EntryFits, StateOf, LocalOf, PeerOf
<1>8. c.fd \in untracked \/ Has(s_conns, c.fd)
  BY <1>1 DEF NetworkInv, CallPlaced
<1>9. CallFits(n, s)
  BY <1>2, <1>4, Kinds DEF CallFits
<1>10. QED
  BY <1>1, <1>2, <1>4, <1>5, <1>7, <1>8, <1>9, FieldKeeps

\* conn_refresh_from_fd: the peer, and the call is over.
LEMMA RefreshPeerKeeps ==
  ASSUME NetworkInv, NEW t \in Threads, RefreshPeer(t) PROVE NetworkInv'
<1>1. PICK c \in NetCalls : c = calls[t] /\ c.pc = "refresh_peer" /\ c.fd \in Fds
  BY Alone, Kinds DEF RefreshPeer, At
<1>2. PICK s \in Sockets : s = sock[c.fd]
  <2>1. CallFits(c, sock[c.fd]) /\ sock[c.fd] \in Sockets \cup {NoSocket}
    BY <1>1 DEF NetworkInv, NetworkShape
  <2>2. QED
    BY <2>1 DEF CallFits
<1>3. /\ calls' = [calls EXCEPT ![t] = NoCall] /\ UNCHANGED <<sock, untracked>>
      /\ given' = given \cup {c.fd} /\ s.peer \in Addresses
      /\ \/ s.peer # NoAddress /\ Update(c.fd, "peer", s.peer)
         \/ s.peer = NoAddress /\ UNCHANGED s_conns
      /\ NetworkShape /\ OneEntry(s_conns)
  BY <1>1, <1>2 DEF RefreshPeer, Leave, Sockets, NetworkInv
<1>4. ASSUME NEW i \in DOMAIN s_conns', s_conns'[i].fd = c.fd PROVE EntryFits(s_conns'[i], s, calls')
  <2>1. /\ i \in DOMAIN s_conns /\ s_conns[i].fd = c.fd
        /\ s_conns'[i].domain = s_conns[i].domain /\ s_conns'[i].type = s_conns[i].type
        /\ s_conns'[i].state = s_conns[i].state /\ s_conns'[i].local = s_conns[i].local
        /\ s_conns'[i].peer = s.peer \/ (s.peer = NoAddress /\ s_conns'[i].peer = s_conns[i].peer)
    <3>1. CASE UNCHANGED s_conns /\ s.peer = NoAddress
      BY <1>4, <3>1
    <3>2. CASE Update(c.fd, "peer", s.peer)
      BY <1>1, <1>3, <1>4, <3>2, EntryRenewed
    <3>3. QED
      BY <1>3, <3>1, <3>2
  <2>2. /\ s_conns[i].domain = s.domain /\ s_conns[i].type \in {s.type, "0"}
        /\ StateOf(s_conns[i], s) /\ LocalOf(s_conns[i], s)
        /\ PeerOf(s_conns[i], s) \/ s_conns[i].peer = NoAddress
    BY <1>1, <1>2, <2>1, OwnEntry
  <2>3. QED
    BY <1>2, <2>1, <2>2, Kinds DEF EntryFits, StateOf, LocalOf, PeerOf
<1>5. c.fd \in untracked \/ Has(s_conns, c.fd)
  BY <1>1 DEF NetworkInv, CallPlaced
<1>6. QED
  BY <1>1, <1>2, <1>3, <1>4, <1>5, Kinds, FieldKeeps

\* The second step of bind, listen, connect and shutdown.
LEMMA TableStepKeeps ==
  ASSUME NetworkInv, NEW t \in Threads, TableStep(t) PROVE NetworkInv'
<1>1. PICK c \in NetCalls : c = calls[t] /\ c.pc = "update" /\ c.fd \in Fds
  BY Alone, Kinds DEF TableStep, At
<1>2. PICK s \in Sockets : s = sock[c.fd] /\ CallFits(c, s)
  <2>1. CallFits(c, sock[c.fd]) /\ sock[c.fd] \in Sockets \cup {NoSocket}
    BY <1>1 DEF NetworkInv, NetworkShape
  <2>2. QED
    BY <2>1 DEF CallFits
<1>3. /\ \/ c.field = "state" /\ c.value \in ConnStates
            /\ (c.value = s.state \/ (s.late /\ c.value = "CONNECTING"))
         \/ c.field = "local" /\ c.value \in Addresses /\ c.value = s.local /\ ~c.refresh
      /\ c.refresh => c.field = "state"
  BY <1>1, <1>2 DEF CallFits, NetCalls
<1>10. \/ c.field = "state" /\ c.value \in ConnStates
       \/ c.field \in {"local", "peer"} /\ c.value \in Addresses
  BY <1>3
<1>4. /\ UNCHANGED <<sock, untracked>> /\ given' = given /\ Update(c.fd, c.field, c.value)
      /\ \/ c.refresh /\ Continue(t, "refresh_local")
         \/ ~c.refresh /\ Leave(t)
      /\ NetworkShape /\ OneEntry(s_conns)
  BY <1>1 DEF TableStep, NetworkInv
<1>5. PICK n \in NetCalls \cup {NoCall} :
        /\ calls' = [calls EXCEPT ![t] = n]
        /\ c.refresh => n.pc = "refresh_local" /\ n.fd = c.fd
        /\ ~c.refresh => n = NoCall
  <2>1. CASE c.refresh
    <3>1. PICK n : n = [c EXCEPT !.pc = "refresh_local"]
      OBVIOUS
    <3>2. n \in NetCalls /\ n.pc = "refresh_local" /\ n.fd = c.fd
      BY <3>1 DEF NetCalls
    <3>3. calls' = [calls EXCEPT ![t] = n]
      BY <1>1, <1>4, <2>1, <3>1 DEF Continue
    <3>4. QED
      BY <2>1, <3>2, <3>3
  <2>2. CASE ~c.refresh
    BY <1>4, <2>2 DEF Leave
  <2>3. QED
    BY <2>1, <2>2
<1>6. ASSUME NEW i \in DOMAIN s_conns', s_conns'[i].fd = c.fd PROVE EntryFits(s_conns'[i], s, calls')
  <2>1. /\ i \in DOMAIN s_conns /\ s_conns[i].fd = c.fd
        /\ s_conns'[i].domain = s_conns[i].domain /\ s_conns'[i].type = s_conns[i].type
        /\ s_conns'[i].peer = s_conns[i].peer
        /\ s_conns'[i].state = IF c.field = "state" THEN c.value ELSE s_conns[i].state
        /\ s_conns'[i].local = IF c.field = "local" THEN c.value ELSE s_conns[i].local
    <3>1. PICK x, y : x = c.field /\ y = c.value
      OBVIOUS
    <3>2. /\ Update(c.fd, x, y)
          /\ \/ x = "state" /\ y \in ConnStates
             \/ x \in {"local", "peer"} /\ y \in Addresses
      BY <1>4, <1>10, <3>1
    <3>3. /\ i \in DOMAIN s_conns /\ s_conns[i].fd = c.fd
          /\ s_conns'[i].domain = s_conns[i].domain /\ s_conns'[i].type = s_conns[i].type
          /\ s_conns'[i].peer = IF x = "peer" THEN y ELSE s_conns[i].peer
          /\ s_conns'[i].state = IF x = "state" THEN y ELSE s_conns[i].state
          /\ s_conns'[i].local = IF x = "local" THEN y ELSE s_conns[i].local
      BY <1>1, <1>4, <1>6, <3>2, EntryRenewed
    <3>4. x # "peer"
      BY <1>3, <3>1
    <3>5. QED
      BY <3>1, <3>3, <3>4
  <2>2. /\ s_conns[i].domain = s.domain /\ s_conns[i].type \in {s.type, "0"}
        /\ StateOf(s_conns[i], s) \/ c.field = "state"
        /\ LocalOf(s_conns[i], s) \/ c.field = "local" \/ c.refresh
        /\ PeerOf(s_conns[i], s) \/ (s_conns[i].peer = NoAddress /\ c.refresh)
    BY <1>1, <1>2, <2>1, OwnEntry
  <2>3. c.refresh => LocalComes(calls', c.fd) /\ PeerComes(calls', c.fd)
    <3>1. c.refresh => calls'[t].fd = c.fd /\ calls'[t].pc = "refresh_local"
      BY <1>4, <1>5 DEF NetworkShape
    <3>2. QED
      BY <3>1 DEF LocalComes, PeerComes
  <2>4. StateOf(s_conns'[i], s)
    BY <1>3, <2>1, <2>2 DEF StateOf
  <2>5. LocalOf(s_conns'[i], s) \/ LocalComes(calls', c.fd)
    <3>1. CASE c.field = "local"
      BY <1>3, <2>1, <3>1 DEF LocalOf
    <3>2. CASE c.field # "local"
      BY <2>1, <2>2, <2>3, <3>2 DEF LocalOf
    <3>3. QED
      BY <3>1, <3>2
  <2>6. PeerOf(s_conns'[i], s) \/ (s_conns'[i].peer = NoAddress /\ PeerComes(calls', c.fd))
    BY <2>1, <2>2, <2>3 DEF PeerOf
  <2>7. QED
    BY <1>2, <1>6, <2>1, <2>2, <2>4, <2>5, <2>6, Kinds DEF EntryFits
<1>7. c.fd \in untracked \/ Has(s_conns, c.fd)
  BY <1>1 DEF NetworkInv, CallPlaced
<1>8. n.pc # "idle" => CallFits(n, s) /\ n.pc \notin {"register", "close"} /\ n.fd = c.fd
  BY <1>2, <1>5, Kinds DEF CallFits
<1>9. QED
  <2>1. n.pc = "idle" \/ n.fd = c.fd
    BY <1>8
  <2>2. \A i \in DOMAIN s_conns' : s_conns'[i].fd = c.fd => EntryFits(s_conns'[i], sock[c.fd], calls')
    BY <1>2, <1>6
  <2>3. n.pc # "idle" => CallFits(n, sock[c.fd]) /\ n.pc \notin {"register", "close"}
    BY <1>2, <1>8
  <2>4. QED
    BY <1>1, <1>4, <1>5, <1>7, <1>10, <2>1, <2>2, <2>3, FieldKeeps

\* The system call that begins bind, listen, connect or shutdown: what it changes of
\* the socket is what the call's second step, or the refresh after it, will put
\* into the table.
LEMMA SystemCallKeeps ==
  ASSUME NetworkInv, NEW t \in Threads, NEW f, Begin(t, f),
         NEW s \in Sockets, SocketFits(s), s.domain = sock[f].domain, s.type = sock[f].type,
         NEW field \in {"state", "local"}, NEW value \in ConnStates \cup Addresses,
         NEW refresh \in BOOLEAN, SystemCall(t, f, s, field, value, refresh),
         field = "state" => value \in ConnStates /\ value = s.state,
         field = "local" => value \in Addresses /\ value = s.local,
         refresh => field = "state",
         \A e \in Conns :
           /\ StateOf(e, sock[f]) => StateOf(e, s) \/ field = "state"
           /\ LocalOf(e, sock[f]) => LocalOf(e, s) \/ field = "local" \/ refresh
           /\ PeerOf(e, sock[f]) => PeerOf(e, s) \/ (e.peer = NoAddress /\ refresh)
  PROVE  NetworkInv'
<1>1. /\ calls[t] = NoCall /\ calls[t].pc = "idle" /\ \A u \in Threads : calls[u].fd # f
      /\ f \in given /\ f \in Fds /\ sock[f] \in Sockets
      /\ sock[f] # NoSocket /\ (f \in untracked \/ Has(s_conns, f))
  BY Alone, Kinds DEF NetworkInv, NetworkShape
<1>2. /\ s_conns \in Seq(Conns) /\ Len(s_conns) <= Cap /\ OneEntry(s_conns)
      /\ given \subseteq Fds /\ untracked \subseteq Fds /\ calls \in [Threads -> NetCalls \cup {NoCall}]
  BY DEF NetworkInv, NetworkShape
<1>3. /\ sock' = [sock EXCEPT ![f] = s] /\ s_conns' = s_conns /\ given' = given
      /\ untracked' = untracked
  BY DEF SystemCall
<1>4. PICK c \in NetCalls : /\ c.pc = "update" /\ c.fd = f /\ c.field = field /\ c.value = value
                            /\ c.refresh = refresh /\ calls' = [calls EXCEPT ![t] = c]
  <2>1. PICK w \in [pc : {"idle"}, fd : {-1}, entry : {NoCall.entry}, field : {"state"},
                   value : ConnStates, refresh : {FALSE}] : w = NoCall
    BY DEF NoCall, ConnStates
  <2>2. PICK c : c = [w EXCEPT !.pc = "update", !.fd = f, !.field = field, !.value = value,
                               !.refresh = refresh]
    OBVIOUS
  <2>3. /\ c \in NetCalls /\ c.pc = "update" /\ c.fd = f /\ c.field = field /\ c.value = value
        /\ c.refresh = refresh
    BY <1>1, <2>2 DEF NetCalls
  <2>4. calls' = [calls EXCEPT ![t] = c]
    BY <2>1, <2>2 DEF SystemCall, Enter
  <2>5. QED
    BY <2>3, <2>4
<1>5. calls'[t].pc = "update" /\ calls'[t].fd = f /\ calls'[t].field = field /\ calls'[t].refresh = refresh
  BY <1>2, <1>4
<1>6. /\ field = "state" => StateComes(calls', f)
      /\ field = "local" \/ refresh => LocalComes(calls', f)
      /\ refresh => PeerComes(calls', f)
  BY <1>5 DEF StateComes, LocalComes, PeerComes
<1>7. ASSUME NEW i \in DOMAIN s_conns, s_conns[i].fd = f PROVE EntryFits(s_conns[i], s, calls')
  <2>1. PICK e \in Conns : e = s_conns[i] /\ EntryFits(e, sock[f], calls) /\ e.fd = f
    BY <1>2, <1>7 DEF NetworkInv
  <2>2. ~StateComes(calls, f) /\ ~LocalComes(calls, f) /\ ~PeerComes(calls, f)
    BY <1>1 DEF StateComes, LocalComes, PeerComes
  <2>3. /\ e.domain = s.domain /\ e.type \in {s.type, "0"}
        /\ StateOf(e, sock[f]) /\ LocalOf(e, sock[f]) /\ PeerOf(e, sock[f])
    BY <2>1, <2>2 DEF EntryFits
  <2>4. /\ StateOf(e, s) \/ StateComes(calls', f)
        /\ LocalOf(e, s) \/ LocalComes(calls', f)
        /\ PeerOf(e, s) \/ (e.peer = NoAddress /\ PeerComes(calls', f))
    BY <1>6, <2>3
  <2>5. QED
    BY <2>1, <2>3, <2>4, Kinds DEF EntryFits
<1>8. CallFits(c, s) /\ CallPlaced(c, s_conns, given, untracked)
  BY <1>1, <1>4, Kinds DEF CallFits, CallPlaced
<1>9. s # NoSocket
  BY Kinds
<1>10. StepOn(t, f, c, s)
  BY <1>1, <1>2, <1>3, <1>4, <1>7, <1>8, <1>9 DEF StepOn
<1>11. QED
  BY <1>1, <1>10, LocalStep

\* np_bind_impl and np_bind_addr_impl.
LEMMA BindKeeps ==
  ASSUME NetworkInv, NEW t \in Threads, NEW f \in Fds, Bind(t, f) PROVE NetworkInv'
<1>1. PICK l \in Sockets : l = sock[f] /\ SocketFits(l)
  BY Alone DEF Bind
<1>2. PICK a \in Addresses : a = Address(f, "here")
  BY AddressTyped
<1>3. PICK s : s = [l EXCEPT !.local = a]
  OBVIOUS
<1>4. /\ s \in Sockets /\ s.state = l.state /\ s.domain = l.domain /\ s.type = l.type
      /\ s.local = a /\ s.peer = l.peer /\ s.late = l.late
  BY <1>3 DEF Sockets
<1>5. SocketFits(s)
  BY <1>1, <1>4, Kinds DEF SocketFits
<1>6. Begin(t, f) /\ SystemCall(t, f, s, "local", a, FALSE)
  BY <1>1, <1>2, <1>3 DEF Bind
<1>7. \A e \in Conns : /\ StateOf(e, l) => StateOf(e, s)
                       /\ PeerOf(e, l) => PeerOf(e, s)
  BY <1>4 DEF StateOf, PeerOf
<1>8. QED
  BY <1>1, <1>2, <1>4, <1>5, <1>6, <1>7, SystemCallKeeps

\* np_listen_impl, and np_shutdown_impl that ends reading: a new state.
LEMMA StateCallKeeps ==
  ASSUME NetworkInv, NEW t \in Threads, NEW f \in Fds, NEW state \in {"LISTENING", "DISCONNECTING"},
         Begin(t, f), SystemCall(t, f, [sock[f] EXCEPT !.state = state], "state", state, FALSE)
  PROVE  NetworkInv'
<1>1. PICK l \in Sockets : l = sock[f] /\ SocketFits(l)
  BY Alone
<1>2. PICK s : s = [l EXCEPT !.state = state]
  OBVIOUS
<1>3. state \in ConnStates
  BY DEF ConnStates
<1>4. /\ s \in Sockets /\ s.state = state /\ s.domain = l.domain /\ s.type = l.type
      /\ s.local = l.local /\ s.peer = l.peer /\ s.late = l.late
  BY <1>2, <1>3 DEF Sockets
<1>5. SocketFits(s)
  BY <1>1, <1>4, Kinds DEF SocketFits
<1>6. SystemCall(t, f, s, "state", state, FALSE)
  BY <1>1, <1>2
<1>7. \A e \in Conns : /\ LocalOf(e, l) => LocalOf(e, s)
                       /\ PeerOf(e, l) => PeerOf(e, s)
  BY <1>4 DEF LocalOf, PeerOf
<1>8. QED
  BY <1>1, <1>3, <1>4, <1>5, <1>6, <1>7, SystemCallKeeps

\* np_connect_addr_impl: the connection is there, or is to come.
LEMMA ConnectKeeps ==
  ASSUME NetworkInv, NEW t \in Threads, NEW f \in Fds, Connect(t, f) PROVE NetworkInv'
<1>1. PICK l \in Sockets : l = sock[f] /\ SocketFits(l)
  BY Alone DEF Connect
<1>2. Begin(t, f) /\ l.state = "UNCONNECTED" /\ ~l.late /\ l.local = NoAddress /\ l.peer = NoAddress
  BY <1>1, Kinds DEF Connect, Unbound, Fresh, SocketFits
<1>3. PICK a \in Addresses : a = Address(f, "here")
  BY AddressTyped
<1>4. PICK b \in Addresses : b = Address(f, "server")
  BY AddressTyped
<1>5. PICK m : m = [l EXCEPT !.local = a]
  OBVIOUS
<1>6. /\ m \in Sockets /\ m.domain = l.domain /\ m.type = l.type /\ m.local = a /\ m.peer = NoAddress
      /\ ~m.late
  BY <1>2, <1>5 DEF Sockets
<1>7. "CONNECTED" \in ConnStates /\ "CONNECTING" \in ConnStates
  BY DEF ConnStates
<1>8. CASE SystemCall(t, f, [m EXCEPT !.state = "CONNECTED", !.peer = b], "state", "CONNECTED", TRUE)
  <2>1. PICK s : s = [m EXCEPT !.state = "CONNECTED", !.peer = b]
    OBVIOUS
  <2>2. s \in Sockets /\ s.state = "CONNECTED" /\ s.domain = l.domain /\ s.type = l.type
    BY <1>6, <1>7, <2>1 DEF Sockets
  <2>3. SocketFits(s)
    BY <1>1, <2>2, Kinds DEF SocketFits
  <2>4. SystemCall(t, f, s, "state", "CONNECTED", TRUE)
    BY <1>8, <2>1
  <2>5. \A e \in Conns : PeerOf(e, l) => e.peer = NoAddress
    BY <1>2 DEF PeerOf
  <2>6. QED
    BY <1>1, <1>2, <1>7, <2>2, <2>3, <2>4, <2>5, SystemCallKeeps
<1>9. CASE SystemCall(t, f, [m EXCEPT !.state = "CONNECTING", !.late = TRUE], "state", "CONNECTING", FALSE)
  <2>1. PICK s : s = [m EXCEPT !.state = "CONNECTING", !.late = TRUE]
    OBVIOUS
  <2>2. /\ s \in Sockets /\ s.state = "CONNECTING" /\ s.domain = l.domain /\ s.type = l.type
        /\ s.late /\ s.peer = NoAddress
    BY <1>6, <1>7, <2>1 DEF Sockets
  <2>3. SocketFits(s)
    BY <1>1, <2>2, Kinds DEF SocketFits
  <2>4. SystemCall(t, f, s, "state", "CONNECTING", FALSE)
    BY <1>9, <2>1
  <2>5. \A e \in Conns : /\ LocalOf(e, l) => LocalOf(e, s)
                         /\ PeerOf(e, l) => PeerOf(e, s)
    BY <1>2, <2>2 DEF LocalOf, PeerOf
  <2>6. QED
    BY <1>1, <1>2, <1>7, <2>2, <2>3, <2>4, <2>5, SystemCallKeeps
<1>10. QED
  BY <1>1, <1>3, <1>4, <1>5, <1>8, <1>9 DEF Connect

\* np_close_impl: the entry goes, then the descriptor.
LEMMA CloseEntryKeeps ==
  ASSUME NetworkInv, NEW t \in Threads, NEW f \in Fds, CloseEntry(t, f) PROVE NetworkInv'
<1>1. Begin(t, f) /\ Unregister(f) /\ given' = given \ {f} /\ untracked' = untracked \ {f} /\ sock' = sock
  BY DEF CloseEntry
<1>2. PICK s \in Sockets : s = sock[f] /\ SocketFits(s)
  BY <1>1, Alone
<1>3. /\ calls[t].pc = "idle" /\ \A u \in Threads : calls[u].fd # f
      /\ NetworkShape /\ OneEntry(s_conns) /\ given \subseteq Fds /\ untracked \subseteq Fds
  BY <1>1, Alone, Kinds DEF NetworkInv, NetworkShape
<1>4. /\ s_conns' \in Seq(Conns) /\ Len(s_conns') <= Cap /\ OneEntry(s_conns')
      /\ \A i \in DOMAIN s_conns' : \E j \in DOMAIN s_conns : s_conns'[i] = s_conns[j]
      /\ ~Has(s_conns', f)
      /\ \A g : g # f => (Has(s_conns', g) <=> Has(s_conns, g))
  BY <1>1, <1>3, Unregistered
<1>5. PICK c \in NetCalls : c.pc = "close" /\ c.fd = f /\ calls' = [calls EXCEPT ![t] = c]
  <2>1. PICK w \in [pc : {"idle"}, fd : {-1}, entry : {NoCall.entry}, field : {"state"},
                   value : ConnStates, refresh : {FALSE}] : w = NoCall
    BY DEF NoCall, ConnStates
  <2>2. PICK c : c = [w EXCEPT !.pc = "close", !.fd = f]
    OBVIOUS
  <2>3. c \in NetCalls /\ c.pc = "close" /\ c.fd = f
    BY <2>2 DEF NetCalls
  <2>4. calls' = [calls EXCEPT ![t] = c]
    BY <2>1, <2>2 DEF CloseEntry, Enter
  <2>5. QED
    BY <2>3, <2>4
<1>6. CallFits(c, s) /\ CallPlaced(c, s_conns', given', untracked')
  BY <1>1, <1>4, <1>5, Kinds DEF CallFits, CallPlaced
<1>7. \A i \in DOMAIN s_conns' : s_conns'[i].fd # f
  BY <1>4 DEF Has
<1>8. sock' = [sock EXCEPT ![f] = s]
  BY <1>1, <1>2, <1>3 DEF NetworkShape
<1>9. StepOn(t, f, c, s)
  BY <1>1, <1>2, <1>3, <1>4, <1>5, <1>6, <1>7, <1>8 DEF StepOn
<1>10. QED
  BY <1>9, LocalStep

\* np_close_impl: the number is free again, when the entry has gone.
LEMMA CloseFdKeeps ==
  ASSUME NetworkInv, NEW t \in Threads, CloseFd(t) PROVE NetworkInv'
<1>1. PICK c \in NetCalls : c = calls[t] /\ c.pc = "close" /\ c.fd \in Fds
  BY Alone, Kinds DEF CloseFd, At
<1>2. PICK f \in Fds : f = c.fd
  BY <1>1
<1>3. /\ sock' = [sock EXCEPT ![f] = NoSocket] /\ calls' = [calls EXCEPT ![t] = NoCall]
      /\ s_conns' = s_conns /\ given' = given /\ untracked' = untracked
  BY <1>1, <1>2 DEF CloseFd, Leave
<1>4. f \notin given /\ ~Has(s_conns, f) /\ calls[t].fd = f /\ \A u \in Threads \ {t} : calls[u].fd # f
  BY <1>1, <1>2, Alone, Kinds DEF NetworkInv, CallPlaced
<1>5. /\ s_conns \in Seq(Conns) /\ Len(s_conns) <= Cap /\ OneEntry(s_conns)
      /\ given \subseteq Fds /\ untracked \subseteq Fds
  BY DEF NetworkInv, NetworkShape
<1>6. SocketFits(NoSocket) /\ \A i \in DOMAIN s_conns : s_conns[i].fd # f
  BY <1>4 DEF SocketFits, Has
<1>7. StepOn(t, f, NoCall, NoSocket)
  BY <1>3, <1>4, <1>5, <1>6, Kinds DEF StepOn
<1>8. QED
  BY <1>7, LocalStep

\* The kernel ends a connect that did not block: the table does not follow.
LEMMA ConnectedKeeps ==
  ASSUME NetworkInv, NEW f \in Fds, Connected(f) PROVE NetworkInv'
<1>1. /\ NetworkShape /\ CallsApart /\ OneEntry(s_conns)
      /\ sock \in [Fds -> Sockets \cup {NoSocket}] /\ s_conns \in Seq(Conns)
      /\ calls \in [Threads -> NetCalls \cup {NoCall}]
  BY DEF NetworkInv, NetworkShape
<1>2. PICK l \in Sockets : l = sock[f] /\ l.state = "CONNECTING"
  <2>1. sock[f].state = "CONNECTING" /\ sock[f] \in Sockets \cup {NoSocket}
    BY <1>1 DEF Connected
  <2>2. QED
    BY <2>1 DEF NoSocket
<1>3. SocketFits(l) /\ l.late /\ l.peer = NoAddress
  BY <1>2, Kinds DEF NetworkInv, SocketFits
<1>4. PICK a \in Addresses : a = Address(f, "server")
  BY AddressTyped
<1>5. PICK s \in Sockets : /\ sock' = [sock EXCEPT ![f] = s] /\ s.state \in {"CONNECTED", "UNCONNECTED"}
                           /\ s.domain = l.domain /\ s.type = l.type /\ s.local = l.local /\ s.late
  <2>1. "CONNECTED" \in ConnStates /\ "UNCONNECTED" \in ConnStates
    BY DEF ConnStates
  <2>2. CASE sock' = [sock EXCEPT ![f].state = "CONNECTED", ![f].peer = Address(f, "server")]
    <3>1. PICK s : s = [l EXCEPT !.state = "CONNECTED", !.peer = a]
      OBVIOUS
    <3>2. sock' = [sock EXCEPT ![f] = s]
      BY <1>1, <1>2, <1>4, <2>2, <3>1
    <3>3. /\ s \in Sockets /\ s.state = "CONNECTED" /\ s.domain = l.domain /\ s.type = l.type
          /\ s.local = l.local /\ s.late
      BY <1>3, <2>1, <3>1 DEF Sockets
    <3>4. QED
      BY <3>2, <3>3
  <2>3. CASE sock' = [sock EXCEPT ![f].state = "UNCONNECTED"]
    <3>1. PICK s : s = [l EXCEPT !.state = "UNCONNECTED"]
      OBVIOUS
    <3>2. sock' = [sock EXCEPT ![f] = s]
      BY <1>2, <2>3, <3>1
    <3>3. /\ s \in Sockets /\ s.state = "UNCONNECTED" /\ s.domain = l.domain /\ s.type = l.type
          /\ s.local = l.local /\ s.late
      BY <1>3, <2>1, <3>1 DEF Sockets
    <3>4. QED
      BY <3>2, <3>3
  <2>4. QED
    BY <2>2, <2>3 DEF Connected
<1>6. /\ s_conns' = s_conns /\ calls' = calls /\ given' = given /\ untracked' = untracked
      /\ sock'[f] = s /\ \A g \in Fds \ {f} : sock'[g] = sock[g]
      /\ s # NoSocket /\ l # NoSocket
  BY <1>1, <1>5, Kinds DEF Connected
<1>7. NetworkShape' /\ CallsApart' /\ OneEntry(s_conns')
  BY <1>1, <1>5, <1>6 DEF NetworkShape, CallsApart
<1>8. SocketFits(s)
  BY <1>3, <1>5, <1>6 DEF SocketFits
<1>9. \A g \in Fds : SocketFits(sock'[g])
  BY <1>6, <1>8 DEF NetworkInv
<1>10. ASSUME NEW i \in DOMAIN s_conns PROVE EntryFits(s_conns[i], sock'[s_conns[i].fd], calls)
  <2>1. PICK e \in Conns : e = s_conns[i]
    BY <1>1
  <2>6. e.fd \in Fds
    BY DEF Conns
  <2>2. EntryFits(e, sock[e.fd], calls)
    BY <2>1 DEF NetworkInv
  <2>3. CASE e.fd = f
    BY <1>2, <1>3, <1>5, <1>6, <2>1, <2>2, <2>3 DEF EntryFits, StateOf, LocalOf, PeerOf
  <2>4. CASE e.fd # f
    BY <1>6, <2>1, <2>2, <2>4, <2>6
  <2>5. QED
    BY <2>3, <2>4
<1>11. ASSUME NEW u \in Threads, calls[u].pc # "idle"
       PROVE  CallFits(calls[u], sock'[calls[u].fd]) /\ CallPlaced(calls[u], s_conns, given, untracked)
  <2>1. PICK c \in NetCalls : c = calls[u] /\ c.fd \in Fds
    BY <1>1, <1>11, Kinds
  <2>2. CallFits(c, sock[c.fd]) /\ CallPlaced(c, s_conns, given, untracked)
    BY <1>11, <2>1 DEF NetworkInv
  <2>3. CASE c.fd = f
    BY <1>2, <1>3, <1>5, <1>6, <2>1, <2>2, <2>3 DEF CallFits
  <2>4. CASE c.fd # f
    BY <1>6, <2>1, <2>2, <2>4
  <2>5. QED
    BY <2>3, <2>4
<1>12. \A g \in given : sock'[g] # NoSocket /\ (g \in untracked \/ Has(s_conns, g))
  BY <1>1, <1>6 DEF NetworkInv, NetworkShape
<1>13. QED
  BY <1>6, <1>7, <1>9, <1>10, <1>11, <1>12 DEF NetworkInv

\* np_conn_clear: what is open has no entry any more, and is known to have none.
LEMMA ClearTableKeeps ==
  ASSUME NetworkInv, ClearTable PROVE NetworkInv'
<1>1. /\ s_conns' = <<>> /\ sock' = sock /\ calls' = calls /\ given' = given /\ untracked = {}
      /\ untracked' = {f \in Fds : sock[f] # NoSocket /\ Positions(f) # {}}
      /\ NetworkShape /\ CallsApart /\ OneEntry(s_conns)
  BY DEF ClearTable, NetworkInv
<1>2. \A f \in Fds : sock[f] # NoSocket /\ Has(s_conns, f) => f \in untracked'
  BY <1>1, Place
<1>3. /\ s_conns' \in Seq(Conns) /\ Len(s_conns') <= Cap /\ OneEntry(s_conns')
      /\ DOMAIN s_conns' = {} /\ \A g : ~Has(s_conns', g)
  <2>1. <<>> \in Seq(Conns) /\ Len(<<>>) <= Cap /\ DOMAIN <<>> = {}
    BY NetworkAssumption
  <2>2. QED
    BY <1>1, <2>1 DEF OneEntry, Has
<1>4. NetworkShape' /\ CallsApart'
  BY <1>1, <1>3 DEF NetworkShape, CallsApart
<1>5. ASSUME NEW u \in Threads, calls[u].pc # "idle"
      PROVE  CallFits(calls[u], sock[calls[u].fd]) /\ CallPlaced(calls[u], s_conns', given, untracked')
  <2>1. PICK c \in NetCalls : c = calls[u] /\ c.fd \in Fds
    BY <1>1, <1>5, Kinds DEF NetworkShape
  <2>2. CallFits(c, sock[c.fd]) /\ CallPlaced(c, s_conns, given, untracked)
    BY <1>5, <2>1 DEF NetworkInv
  <2>3. sock[c.fd] # NoSocket
    BY <2>2 DEF CallFits
  <2>4. CallPlaced(c, s_conns', given, untracked')
    BY <1>1, <1>2, <1>3, <2>1, <2>2, <2>3 DEF CallPlaced
  <2>5. QED
    BY <2>1, <2>2, <2>4
<1>6. \A g \in given : sock[g] # NoSocket /\ g \in untracked'
  BY <1>1, <1>2 DEF NetworkInv, NetworkShape
<1>7. \A f \in Fds : SocketFits(sock'[f])
  BY <1>1 DEF NetworkInv
<1>8. QED
  BY <1>1, <1>3, <1>4, <1>5, <1>6, <1>7 DEF NetworkInv

\* Every step of a call, the kernel's own, and a restart of the plugin.
LEMMA NetworkStep == NetworkInv /\ [NetworkNext]_netVars => NetworkInv'
<1>1. SUFFICES ASSUME NetworkInv, [NetworkNext]_netVars PROVE NetworkInv'
  OBVIOUS
<1>2. ASSUME NEW t \in Threads, NEW k \in Families, Socket(t, k[1], k[2]) PROVE NetworkInv'
  BY <1>1, <1>2, SocketKeeps
<1>3. ASSUME NEW t \in Threads, NEW f \in Fds,
             Accept(t, f) \/ Bind(t, f) \/ Connect(t, f) \/ CloseEntry(t, f)
      PROVE  NetworkInv'
  BY <1>1, <1>3, AcceptKeeps, BindKeeps, ConnectKeeps, CloseEntryKeeps
<1>4. ASSUME NEW t \in Threads, NEW f \in Fds, Listen(t, f) PROVE NetworkInv'
  BY <1>1, <1>4, StateCallKeeps DEF Listen
<1>5. CASE UNCHANGED netVars
  <2>1. /\ sock' = sock /\ s_conns' = s_conns /\ calls' = calls /\ given' = given
        /\ untracked' = untracked
    BY <1>5 DEF netVars
  <2>2. QED
    BY <1>1, <2>1 DEF NetworkInv, NetworkShape, CallsApart
<1>6. ASSUME NEW t \in Threads, NEW f \in Fds, NEW how \in {"RD", "WR", "RDWR"}, Shutdown(t, f, how)
      PROVE  NetworkInv'
  BY <1>1, <1>5, <1>6, StateCallKeeps DEF Shutdown
<1>7. ASSUME NEW t \in Threads,
             DoRegister(t) \/ RefreshLocal(t) \/ RefreshPeer(t) \/ TableStep(t) \/ CloseFd(t)
      PROVE  NetworkInv'
  BY <1>1, <1>7, DoRegisterKeeps, RefreshLocalKeeps, RefreshPeerKeeps, TableStepKeeps, CloseFdKeeps
<1>8. ASSUME NEW f \in Fds, Connected(f) PROVE NetworkInv'
  BY <1>1, <1>8, ConnectedKeeps
<1>9. CASE ClearTable
  BY <1>1, <1>9, ClearTableKeeps
<1>10. QED
  BY <1>1, <1>2, <1>3, <1>4, <1>5, <1>6, <1>7, <1>8, <1>9 DEF NetworkNext

\* The connection table and the kernel agree, for any number of threads, descriptors
\* and places in the table: a descriptor has one entry at most, an entry is of an
\* open socket and of the one that has the descriptor now, whatever other threads
\* open and close between the system call and the change of the table.
THEOREM SocketsStayTracked == NetworkSpec => []TableSound
<1>1. NetworkInit => NetworkInv
  <2>1. SUFFICES ASSUME NetworkInit PROVE NetworkInv
    OBVIOUS
  <2>2. /\ sock = [f \in Fds |-> NoSocket] /\ s_conns = <<>> /\ calls = [t \in Threads |-> NoCall]
        /\ given = {} /\ untracked = {}
    BY <2>1 DEF NetworkInit
  <2>3. <<>> \in Seq(Conns) /\ Len(<<>>) <= Cap /\ DOMAIN <<>> = {}
    BY NetworkAssumption
  <2>4. NetworkShape /\ OneEntry(s_conns) /\ CallsApart
    BY <2>2, <2>3, Kinds DEF NetworkShape, OneEntry, CallsApart
  <2>5. QED
    BY <2>2, <2>3, <2>4, Kinds DEF NetworkInv, SocketFits
<1>2. NetworkInv => TableSound
  <2>1. SUFFICES ASSUME NetworkInv PROVE TableSound
    OBVIOUS
  <2>2. /\ NetworkShape /\ OneEntry(s_conns) /\ sock \in [Fds -> Sockets \cup {NoSocket}]
        /\ s_conns \in Seq(Conns)
    BY <2>1 DEF NetworkInv, NetworkShape
  <2>3. \A i \in DOMAIN s_conns : s_conns[i] \in Conns /\ EntryFits(s_conns[i], sock[s_conns[i].fd], calls)
    BY <2>1, <2>2 DEF NetworkInv
  <2>4. NetworkTypeOK
    <3>1. ASSUME NEW f \in Fds, sock[f] # NoSocket
          PROVE  <<sock[f].domain, sock[f].type>> \in Families /\ sock[f].state \in ConnStates
      <4>1. sock[f] \in Sockets /\ SocketFits(sock[f])
        BY <2>1, <2>2, <3>1 DEF NetworkInv
      <4>2. QED
        BY <3>1, <4>1 DEF SocketFits, Sockets
    <3>2. \A e \in Entries : e.fd \in Fds /\ e.state \in ConnStates
      BY <2>3 DEF Entries, Conns
    <3>3. QED
      BY <2>2, <3>1, <3>2 DEF NetworkTypeOK, NetworkShape
  <2>5. SocketsTracked
    <3>1. ASSUME NEW f \in Fds PROVE Cardinality(Positions(f)) <= 1
      <4>1. Positions(f) = {} \/ \E i : Positions(f) = {i}
        BY <2>2 DEF Positions, OneEntry
      <4>2. CASE Positions(f) = {}
        <5>1. Cardinality(Positions(f)) = 0
          BY <4>2, FS_EmptySet
        <5>2. QED
          BY <5>1
      <4>3. ASSUME NEW i, Positions(f) = {i} PROVE Cardinality(Positions(f)) <= 1
        <5>1. Cardinality({i}) = 1
          BY FS_Singleton
        <5>2. QED
          BY <4>3, <5>1
      <4>4. QED
        BY <4>1, <4>2, <4>3
    <3>2. \A e \in Entries : sock[e.fd] # NoSocket
      BY <2>3 DEF Entries, EntryFits
    <3>3. \A f \in given \ untracked : Positions(f) # {}
      BY <2>1, <2>2, Place DEF NetworkInv
    <3>4. QED
      BY <3>1, <3>2, <3>3 DEF SocketsTracked
  <2>6. EntriesDescribe
    <3>1. ASSUME NEW i \in DOMAIN s_conns, s_conns[i].fd \notin Using
          PROVE  LET e == s_conns[i]
                     s == sock[e.fd]
                 IN /\ e.domain = s.domain /\ e.type \in {s.type, "0"}
                    /\ StateOf(e, s) /\ LocalOf(e, s) /\ PeerOf(e, s)
      <4>1. PICK e \in Conns : e = s_conns[i] /\ EntryFits(e, sock[e.fd], calls)
        BY <2>3
      <4>2. ~StateComes(calls, e.fd) /\ ~LocalComes(calls, e.fd) /\ ~PeerComes(calls, e.fd)
        BY <3>1, <4>1 DEF Using, StateComes, LocalComes, PeerComes
      <4>3. QED
        BY <4>1, <4>2 DEF EntryFits
    <3>2. QED
      BY <3>1 DEF EntriesDescribe, Entries, StateOf, LocalOf, PeerOf
  <2>7. QED
    BY <2>4, <2>5, <2>6 DEF TableSound
<1>3. QED
  BY <1>1, <1>2, NetworkStep, PTL DEF NetworkSpec

-----------------------------------------------------------------------------
(* The parameters and their file: ParamStore, for any number of processes,   *)
(* keys and values.                                                          *)

\* Sets of numbers have a smallest one, and finite ones a largest.
LEMMA SmallestAndLargest ==
  ASSUME NEW n \in Nat, NEW S \in SUBSET (1 .. n), S # {}
  PROVE  /\ Min(S) \in S /\ \A i \in S : Min(S) <= i
         /\ Max(S) \in S /\ \A i \in S : i <= Max(S)
<1>1. \A T \in SUBSET Nat : T # {} => \E x \in T : \A y \in T : x <= y
  <2>1. SUFFICES ASSUME NEW T \in SUBSET Nat, T # {} PROVE \E x \in T : \A y \in T : x <= y
    OBVIOUS
  <2>2. PICK R : R = OpToRel(<, Nat)
    OBVIOUS
  <2>3. \A x, y \in Nat : y < x => <<y, x>> \in R
    BY <2>2 DEF OpToRel
  <2>4. IsWellFoundedOn(R, Nat)
    BY <2>2, NatLessThanWellFounded
  <2>5. \E x \in T : \A y \in T : ~(<<y, x>> \in R)
    BY <2>1, <2>4, WFMin
  <2>6. PICK x \in T : \A y \in T : ~(<<y, x>> \in R)
    BY <2>5
  <2>7. \A y \in T : ~(y < x)
    BY <2>1, <2>3, <2>6
  <2>8. \A y \in T : x <= y
    BY <2>1, <2>7
  <2>9. QED
    BY <2>8
<1>2. PICK x \in S : \A i \in S : x <= i
  BY <1>1
<1>3. PICK z \in S : \A i \in S : i <= z
  <2>1. PICK U : U = {n - i : i \in S}
    OBVIOUS
  <2>2. U \in SUBSET Nat /\ U # {}
    BY <2>1
  <2>3. PICK u \in U : \A y \in U : u <= y
    BY <1>1, <2>2
  <2>4. PICK z \in S : u = n - z
    BY <2>1, <2>3
  <2>5. \A i \in S : n - z <= n - i
    BY <2>1, <2>3, <2>4
  <2>6. QED
    BY <2>5
<1>4. Min(S) \in S /\ \A i \in S : Min(S) <= i
  BY <1>2 DEF Min
<1>5. Max(S) \in S /\ \A i \in S : i <= Max(S)
  BY <1>3 DEF Max
<1>6. QED
  BY <1>4, <1>5

\* A value that was trimmed has firm ends.
LEMMA TrimmedTwice ==
  ASSUME NEW v \in Seq(STRING)
  PROVE  Trimmed(v) \in Seq(STRING) /\ Trimmed(Trimmed(v)) = Trimmed(v)
<1>1. PICK firm : firm = {i \in DOMAIN v : v[i] \notin Soft}
  OBVIOUS
<1>2. PICK k \in Nat : k = Len(v)
  OBVIOUS
<1>3. DOMAIN v = 1 .. k /\ firm \in SUBSET (1 .. k)
  BY <1>1, <1>2
<1>4. CASE firm = {}
  <2>1. Trimmed(v) = <<>>
    BY <1>1, <1>4 DEF Trimmed
  <2>2. Trimmed(<<>>) = <<>>
    BY DEF Trimmed
  <2>3. QED
    BY <2>1, <2>2
<1>5. CASE firm # {}
  <2>1. PICK a \in firm, b \in firm : a = Min(firm) /\ b = Max(firm) /\ a <= b
    BY <1>3, <1>5, SmallestAndLargest
  <2>2. a \in 1 .. k /\ b \in 1 .. k /\ v[a] \notin Soft /\ v[b] \notin Soft
    BY <1>1, <1>3, <2>1
  <2>3. PICK w : w = SubSeq(v, a, b)
    OBVIOUS
  <2>4. Trimmed(v) = w
    BY <1>1, <1>5, <2>1, <2>3 DEF Trimmed
  <2>5. PICK m \in Nat : m = b - a + 1 /\ m >= 1
    BY <2>1, <2>2
  <2>6. w \in Seq(STRING) /\ Len(w) = m /\ DOMAIN w = 1 .. m
    BY <1>2, <2>1, <2>2, <2>3, <2>5, SMTT(60)
  <2>7. w[1] = v[a] /\ w[m] = v[b]
    <3>1. \A i \in 1 .. m : w[i] = v[a + i - 1]
      BY <1>2, <2>1, <2>2, <2>3, <2>5, SMTT(60)
    <3>2. 1 \in 1 .. m /\ m \in 1 .. m /\ a + 1 - 1 = a /\ a + m - 1 = b
      BY <2>2, <2>5
    <3>3. w[1] = v[a + 1 - 1] /\ w[m] = v[a + m - 1]
      BY <3>1, <3>2
    <3>4. QED
      BY <3>2, <3>3
  <2>8. PICK hard : hard = {i \in DOMAIN w : w[i] \notin Soft}
    OBVIOUS
  <2>9. 1 \in hard /\ m \in hard /\ hard \in SUBSET (1 .. m)
    BY <2>2, <2>5, <2>6, <2>7, <2>8
  <2>10. Min(hard) = 1 /\ Max(hard) = m
    <3>1. /\ Min(hard) \in hard /\ \A i \in hard : Min(hard) <= i
          /\ Max(hard) \in hard /\ \A i \in hard : i <= Max(hard)
      BY <2>9, SmallestAndLargest
    <3>2. PICK lo, hi : lo = Min(hard) /\ hi = Max(hard)
      OBVIOUS
    <3>3. lo \in 1 .. m /\ hi \in 1 .. m /\ lo <= 1 /\ m <= hi
      BY <2>9, <3>1, <3>2
    <3>4. lo = 1 /\ hi = m
      BY <2>5, <3>3
    <3>5. QED
      BY <3>2, <3>4
  <2>11. Trimmed(w) = SubSeq(w, 1, m)
    BY <2>8, <2>9, <2>10 DEF Trimmed
  <2>12. SubSeq(w, 1, m) = w
    BY <2>5, <2>6
  <2>13. QED
    BY <2>4, <2>6, <2>11, <2>12
<1>6. QED
  BY <1>4, <1>5

\* A tree of parameters, and one that was read from a file.
Nodes == Seq(STRING) \ {<<>>}
ParamTrees == UNION {[D -> Seq(STRING)] : D \in SUBSET Nodes}
CleanTree(tree) == \A n \in DOMAIN tree : n[1] # "#" /\ Trimmed(tree[n]) = tree[n]

\* What makes a tree, and what it has.
LEMMA TreesAre ==
  /\ \A f \in ParamTrees : DOMAIN f \subseteq Nodes /\ \A n \in DOMAIN f : f[n] \in Seq(STRING)
  /\ \A f, D : D \subseteq Nodes /\ f \in [D -> Seq(STRING)] => f \in ParamTrees
<1>1. ASSUME NEW f \in ParamTrees PROVE DOMAIN f \subseteq Nodes /\ \A n \in DOMAIN f : f[n] \in Seq(STRING)
  <2>1. PICK D \in SUBSET Nodes : f \in [D -> Seq(STRING)]
    BY DEF ParamTrees
  <2>2. QED
    BY <2>1
<1>2. ASSUME NEW f, NEW D, D \subseteq Nodes, f \in [D -> Seq(STRING)] PROVE f \in ParamTrees
  BY <1>2 DEF ParamTrees
<1>3. QED
  BY <1>1, <1>2

\* The nodes on the way to a key are nodes of the same first segment, the last of them is
\* the key.
LEMMA PrefixNodes ==
  ASSUME NEW key \in Nodes
  PROVE  /\ PrefixesOf(key) \subseteq Nodes /\ key \in PrefixesOf(key)
         /\ \A p \in PrefixesOf(key) : p[1] = key[1]
<1>1. PICK k \in Nat : k = Len(key)
  BY DEF Nodes
<1>2. k >= 1 /\ key \in Seq(STRING) /\ DOMAIN key = 1 .. k
  BY <1>1 DEF Nodes
<1>3. ASSUME NEW n \in 1 .. k
      PROVE  SubSeq(key, 1, n) \in Nodes /\ SubSeq(key, 1, n)[1] = key[1]
  <2>1. PICK s : s = SubSeq(key, 1, n)
    OBVIOUS
  <2>2. s \in Seq(STRING) /\ Len(s) = n /\ \A i \in 1 .. n : s[i] = key[i]
    BY <1>1, <1>2, <2>1
  <2>3. s # <<>> /\ s[1] = key[1]
    BY <1>2, <2>2
  <2>4. QED
    BY <2>1, <2>2, <2>3 DEF Nodes
<1>4. SubSeq(key, 1, k) = key /\ k \in 1 .. k
  BY <1>1, <1>2
<1>5. PICK P : P = {SubSeq(key, 1, n) : n \in 1 .. k}
  OBVIOUS
<1>6. PrefixesOf(key) = P
  BY <1>1, <1>5 DEF PrefixesOf
<1>7. P \subseteq Nodes /\ key \in P /\ \A p \in P : p[1] = key[1]
  BY <1>3, <1>4, <1>5
<1>8. QED
  BY <1>6, <1>7

\* hw_param_set changes what is read of its own key only, also below and above it.
LEMMA SetReads ==
  ASSUME NEW tree \in ParamTrees, NEW key \in Nodes, NEW value \in Seq(STRING)
  PROVE  /\ hw_param_set(tree, key, value) \in ParamTrees
         /\ \A k : hw_param_get(hw_param_set(tree, key, value), k) =
                     IF k = key THEN value ELSE hw_param_get(tree, k)
<1>1. PICK D : D = DOMAIN tree \cup PrefixesOf(key)
  OBVIOUS
<1>2. D \subseteq Nodes /\ key \in D /\ DOMAIN tree \subseteq D
  <2>1. PrefixesOf(key) \subseteq Nodes /\ key \in PrefixesOf(key)
    BY PrefixNodes
  <2>2. DOMAIN tree \subseteq Nodes
    BY TreesAre
  <2>3. QED
    BY <1>1, <2>1, <2>2
<1>3. PICK s : s = hw_param_set(tree, key, value)
  OBVIOUS
<1>4. s = [node \in D |-> IF node = key THEN value ELSE IF node \in DOMAIN tree THEN tree[node] ELSE <<>>]
  BY <1>1, <1>3 DEF hw_param_set
<1>5. <<>> \in Seq(STRING)
  OBVIOUS
<1>6. s \in [D -> Seq(STRING)]
  BY <1>4, <1>5, TreesAre
<1>7. \A k : hw_param_get(s, k) = IF k = key THEN value ELSE hw_param_get(tree, k)
  BY <1>2, <1>4 DEF hw_param_get, hw_param_find
<1>8. QED
  BY <1>2, <1>3, <1>6, <1>7, TreesAre

\* hw_param_save_file: what the file has a line for, and what the line says.
LEMMA SaveReads ==
  ASSUME NEW tree \in ParamTrees
  PROVE  /\ SaveTree(tree) \in ParamTrees
         /\ \A k : k \in DOMAIN SaveTree(tree) <=> hw_param_get(tree, k) # <<>>
         /\ \A k \in DOMAIN SaveTree(tree) : SaveTree(tree)[k] = hw_param_get(tree, k)
<1>1. PICK D : D = {n \in DOMAIN tree : tree[n] # <<>>}
  OBVIOUS
<1>2. PICK s : s = SaveTree(tree)
  OBVIOUS
<1>3. s = [node \in D |-> tree[node]]
  BY <1>1, <1>2 DEF SaveTree
<1>4. D \subseteq Nodes /\ s \in [D -> Seq(STRING)]
  BY <1>1, <1>3, TreesAre
<1>5. \A k : k \in D <=> hw_param_get(tree, k) # <<>>
  BY <1>1 DEF hw_param_get, hw_param_find
<1>6. \A k \in D : s[k] = hw_param_get(tree, k)
  BY <1>1, <1>3 DEF hw_param_get, hw_param_find
<1>7. QED
  BY <1>2, <1>3, <1>4, <1>5, <1>6, TreesAre

\* hw_param_load_file: values without soft ends, of the lines that are no comments.
LEMMA LoadReads ==
  ASSUME NEW file \in ParamTrees
  PROVE  /\ LoadTree(file) \in ParamTrees /\ CleanTree(LoadTree(file))
         /\ \A k \in Nodes : hw_param_get(LoadTree(file), k) =
              IF k \in DOMAIN file /\ k[1] # "#" THEN Trimmed(file[k]) ELSE <<>>
<1>1. PICK read : read = {key \in DOMAIN file : key[1] # "#"}
  OBVIOUS
<1>2. PICK D : D = UNION {PrefixesOf(key) : key \in read}
  OBVIOUS
<1>3. PICK s : s = LoadTree(file)
  OBVIOUS
<1>4. s = [node \in D |-> IF node \in read THEN Trimmed(file[node]) ELSE <<>>]
  BY <1>1, <1>2, <1>3, Zenon DEF LoadTree
<1>5. read \subseteq Nodes /\ read \subseteq DOMAIN file
  BY <1>1, TreesAre
<1>6. D \subseteq Nodes /\ read \subseteq D
  <2>1. \A key \in read : PrefixesOf(key) \subseteq Nodes /\ key \in PrefixesOf(key)
    BY <1>5, PrefixNodes
  <2>2. QED
    BY <1>2, <2>1
<1>7. \A n \in D : n[1] # "#"
  <2>1. SUFFICES ASSUME NEW n \in D PROVE n[1] # "#"
    OBVIOUS
  <2>2. PICK key \in read : n \in PrefixesOf(key)
    BY <1>2
  <2>3. key \in Nodes
    BY <1>5
  <2>4. n[1] = key[1]
    BY <2>2, <2>3, PrefixNodes
  <2>5. QED
    BY <1>1, <2>4
<1>8. Trimmed(<<>>) = <<>>
  BY DEF Trimmed
<1>9. \A n \in read : file[n] \in Seq(STRING)
  BY <1>5, TreesAre
<1>10. \A n \in D : s[n] \in Seq(STRING) /\ Trimmed(s[n]) = s[n]
  <2>1. \A n \in read : Trimmed(file[n]) \in Seq(STRING) /\ Trimmed(Trimmed(file[n])) = Trimmed(file[n])
    BY <1>9, TrimmedTwice
  <2>2. <<>> \in Seq(STRING)
    OBVIOUS
  <2>3. QED
    BY <1>4, <1>8, <2>1, <2>2
<1>11. s \in [D -> Seq(STRING)] /\ DOMAIN s = D
  BY <1>4, <1>10
<1>12. \A k \in Nodes : hw_param_get(s, k) =
         IF k \in DOMAIN file /\ k[1] # "#" THEN Trimmed(file[k]) ELSE <<>>
  <2>1. SUFFICES ASSUME NEW k \in Nodes
                 PROVE  hw_param_get(s, k) = IF k \in read THEN Trimmed(file[k]) ELSE <<>>
    BY <1>1
  <2>2. hw_param_get(s, k) = IF k \in D THEN s[k] ELSE <<>>
    BY <1>11 DEF hw_param_get, hw_param_find
  <2>3. QED
    BY <1>4, <1>6, <2>2
<1>13. QED
  BY <1>3, <1>6, <1>7, <1>10, <1>11, <1>12, TreesAre DEF CleanTree

\* A tree that was saved and is loaded again.
LEMMA ReadBack ==
  ASSUME NEW tree \in ParamTrees, NEW k \in Nodes
  PROVE  hw_param_get(LoadTree(SaveTree(tree)), k) =
           IF k[1] # "#" THEN Trimmed(hw_param_get(tree, k)) ELSE <<>>
<1>1. PICK file \in ParamTrees : file = SaveTree(tree)
  BY SaveReads
<1>2. hw_param_get(LoadTree(file), k) = IF k \in DOMAIN file /\ k[1] # "#" THEN Trimmed(file[k]) ELSE <<>>
  BY LoadReads
<1>3. /\ k \in DOMAIN file <=> hw_param_get(tree, k) # <<>>
      /\ k \in DOMAIN file => file[k] = hw_param_get(tree, k)
  BY <1>1, SaveReads
<1>4. Trimmed(<<>>) = <<>>
  BY DEF Trimmed
<1>5. QED
  BY <1>1, <1>2, <1>3, <1>4

\* What is left of a file, too, has keys and texts.
LEMMA PartRemains ==
  ASSUME NEW lines \in ParamTrees, NEW part \in Remains(lines)
  PROVE  part \in ParamTrees
<1>1. lines \in [DOMAIN lines -> Seq(STRING)] /\ DOMAIN lines \subseteq Nodes
  <2>1. PICK D \in SUBSET Nodes : lines \in [D -> Seq(STRING)]
    BY DEF ParamTrees
  <2>2. QED
    BY <2>1
<1>2. PICK kept \in SUBSET DOMAIN lines :
        \/ part = Restrict(lines, kept)
        \/ \E key \in DOMAIN lines \ kept : \E n \in 1 .. Len(lines[key]) - 1 :
             part = CutLine(lines, kept, key, n)
  BY DEF Remains
<1>3. CASE part = Restrict(lines, kept)
  <2>1. Restrict(lines, kept) \in [kept -> Seq(STRING)] /\ kept \subseteq Nodes
    BY <1>1 DEF Restrict
  <2>2. QED
    BY <1>3, <2>1, TreesAre
<1>4. ASSUME NEW key \in DOMAIN lines \ kept, NEW n \in 1 .. Len(lines[key]) - 1,
             part = CutLine(lines, kept, key, n)
      PROVE  part \in ParamTrees
  <2>1. SubSeq(lines[key], 1, n) \in Seq(STRING)
    <3>1. PICK v \in Seq(STRING) : v = lines[key]
      BY <1>1
    <3>2. n \in Nat /\ n <= Len(v)
      BY <3>1
    <3>3. QED
      BY <3>1, <3>2
  <2>2. part \in [kept \cup {key} -> Seq(STRING)] /\ kept \cup {key} \subseteq Nodes
    BY <1>1, <1>4, <2>1 DEF CutLine
  <2>3. QED
    BY <2>2, TreesAre
<1>5. QED
  BY <1>2, <1>3, <1>4

\* A command, at its steps after the first.
ParamCommands ==
  [pc : {"set", "write", "done", "unsaved"}, key : ParamKeys, value : ParamValues, before : ParamTrees,
   tree : ParamTrees, alone : BOOLEAN]

ParamsShape ==
  stateConf \in ParamTrees /\ commands \in [Threads -> ParamCommands \cup {NoCommandRuns}]

\* What a command saves is what it has loaded, and its own parameter set.
OwnChange ==
  \A t \in Threads : commands[t].pc # "idle" =>
    /\ CleanTree(commands[t].before)
    /\ commands[t].tree = hw_param_set(commands[t].before, commands[t].key, commands[t].value)

\* Who is said to be alone is, and the file is as it has left it.
AloneIndeed ==
  \A t \in Threads : commands[t].pc # "idle" /\ commands[t].alone =>
    /\ Running \subseteq {t}
    /\ commands[t].pc = "done" => t \notin Running /\ stateConf = SaveTree(commands[t].tree)

ParamsInv == ParamsShape /\ OwnChange /\ AloneIndeed

\* Nothing runs and the file is empty.
LEMMA ParamsInitInv == ParamStoreInit => ParamsInv
<1>1. SUFFICES ASSUME ParamStoreInit PROVE ParamsInv
  OBVIOUS
<1>2. EmptyTree \in [{} -> Seq(STRING)]
  BY DEF EmptyTree
<1>3. EmptyTree \in ParamTrees
  BY <1>2, TreesAre
<1>4. QED
  BY <1>1, <1>3 DEF ParamStoreInit, ParamsInv, ParamsShape, OwnChange, AloneIndeed, NoCommandRuns

\* What a command has made of a key is what the next one reads of it.
LEMMA ParamsPersistNow ==
  ASSUME ParamsInv PROVE ParamsPersist
<1>1. SUFFICES ASSUME NEW t \in Threads, commands[t].pc = "done", commands[t].alone, NEW k \in ParamKeys
      PROVE  IF k # commands[t].key
             THEN hw_param_get(LoadTree(stateConf), k) = hw_param_get(commands[t].before, k)
             ELSE k[1] # "#" /\ Trimmed(commands[t].value) = commands[t].value
                    => hw_param_get(LoadTree(stateConf), k) = commands[t].value
  BY DEF ParamsPersist
<1>2. PICK c \in ParamCommands : c = commands[t]
  BY <1>1 DEF ParamsInv, ParamsShape, NoCommandRuns
<1>3. /\ c.key \in Nodes /\ c.value \in Seq(STRING) /\ c.before \in ParamTrees /\ c.tree \in ParamTrees
      /\ k \in Nodes
  BY ParamStoreAssumption DEF ParamCommands, Nodes
<1>4. stateConf = SaveTree(c.tree) /\ CleanTree(c.before) /\ c.tree = hw_param_set(c.before, c.key, c.value)
  BY <1>1, <1>2 DEF ParamsInv, OwnChange, AloneIndeed
<1>5. hw_param_get(LoadTree(stateConf), k) = IF k[1] # "#" THEN Trimmed(hw_param_get(c.tree, k)) ELSE <<>>
  BY <1>3, <1>4, ReadBack
<1>6. hw_param_get(c.tree, k) = IF k = c.key THEN c.value ELSE hw_param_get(c.before, k)
  BY <1>3, <1>4, SetReads
<1>7. Trimmed(<<>>) = <<>>
  BY DEF Trimmed
<1>8. /\ Trimmed(hw_param_get(c.before, k)) = hw_param_get(c.before, k)
      /\ k[1] = "#" => hw_param_get(c.before, k) = <<>>
  BY <1>4, <1>7 DEF CleanTree, hw_param_get, hw_param_find
<1>9. QED
  BY <1>2, <1>5, <1>6, <1>8

\* Every step of every command, and its end from outside.
LEMMA ParamsStepInv == ParamsInv /\ [ParamStoreNext]_paramVars => ParamsInv'
<1> SUFFICES ASSUME ParamsInv, [ParamStoreNext]_paramVars PROVE ParamsInv'
  OBVIOUS
<1>0. /\ ParamsShape /\ OwnChange /\ AloneIndeed
      /\ stateConf \in ParamTrees /\ commands \in [Threads -> ParamCommands \cup {NoCommandRuns}]
      /\ \A t \in Threads : commands[t].pc # "idle" => commands[t] \in ParamCommands
  BY DEF ParamsInv, ParamsShape, NoCommandRuns
<1> USE DEF Ended
<1>1. CASE UNCHANGED paramVars
  BY <1>1 DEF paramVars, ParamsInv, ParamsShape, OwnChange, AloneIndeed, Running
<1>2. ASSUME NEW t \in Threads, NEW key \in ParamKeys, NEW value \in ParamValues,
             ParamsSet(t, key, value)
      PROVE  ParamsInv'
  <2>1. PICK tree \in ParamTrees : tree = LoadTree(stateConf) /\ CleanTree(tree)
    BY <1>0, LoadReads
  <2>2. PICK new \in ParamTrees : new = hw_param_set(tree, key, value)
    BY ParamStoreAssumption, SetReads DEF Nodes
  <2>3. PICK c : c = [pc |-> "set", key |-> key, value |-> value, before |-> tree, tree |-> new,
                      alone |-> TRUE /\ Running \ {t} = {}]
    OBVIOUS
  <2>4. c \in ParamCommands /\ c.pc = "set" /\ c.alone = (Running \ {t} = {})
        /\ c.before = tree /\ c.tree = hw_param_set(c.before, c.key, c.value)
    BY <2>2, <2>3 DEF ParamCommands
  <2>5. commands' = Crowd(t, [pc |-> "set", key |-> key, value |-> value, before |-> tree,
                              tree |-> new, alone |-> TRUE])
        /\ stateConf' = stateConf
    BY <1>2, <2>1, <2>2 DEF ParamsSet
  <2>6. commands' = [u \in Threads |->
          IF u = t THEN c
          ELSE IF u \in Running THEN [commands[u] EXCEPT !.alone = FALSE]
          ELSE IF commands[u].pc \in Ended THEN NoCommandRuns ELSE commands[u]]
    BY <2>3, <2>5 DEF Crowd
  <2>7. ASSUME NEW u \in Threads \ {t}
        PROVE  /\ u \in Running => /\ commands'[u] \in ParamCommands /\ ~commands'[u].alone
                                   /\ commands'[u].pc = commands[u].pc
                                   /\ commands'[u].before = commands[u].before
                                   /\ commands'[u].tree = commands[u].tree
                                   /\ commands'[u].key = commands[u].key
                                   /\ commands'[u].value = commands[u].value
               /\ u \notin Running => commands'[u] = NoCommandRuns
    <3>1. CASE u \in Running
      <4>1. PICK o \in ParamCommands : o = commands[u]
        BY <1>0, <3>1 DEF Running
      <4>2. commands'[u] = [o EXCEPT !.alone = FALSE]
        BY <2>6, <3>1, <4>1
      <4>3. QED
        BY <3>1, <4>1, <4>2 DEF ParamCommands
    <3>2. CASE u \notin Running
      BY <1>0, <2>6, <3>2 DEF Running, ParamCommands
    <3>3. QED
      BY <3>1, <3>2
  <2>8. commands'[t] = c
    BY <2>6
  <2>9. ParamsShape'
    BY <1>0, <2>4, <2>5, <2>6, <2>7 DEF ParamsShape
  <2>10. OwnChange'
    BY <1>0, <2>1, <2>4, <2>7, <2>8 DEF OwnChange, NoCommandRuns, Running
  <2>11. \A u \in Threads : u \in Running' <=> u = t \/ u \in Running
    <3>1. t \in Running'
      BY <2>4, <2>8 DEF Running
    <3>2. \A u \in Threads \ {t} : u \in Running => commands'[u].pc = commands[u].pc
      BY <2>7
    <3>3. \A u \in Threads \ {t} : u \notin Running => commands'[u].pc = "idle"
      BY <2>7 DEF NoCommandRuns
    <3>4. QED
      BY <3>1, <3>2, <3>3 DEF Running
  <2>12. AloneIndeed'
    <3>1. SUFFICES ASSUME NEW u \in Threads, commands'[u].pc # "idle", commands'[u].alone
                   PROVE  /\ Running' \subseteq {u}
                          /\ commands'[u].pc = "done" =>
                               u \notin Running' /\ stateConf' = SaveTree(commands'[u].tree)
      BY DEF AloneIndeed
    <3>2. u = t
      BY <2>7, <3>1 DEF NoCommandRuns
    <3>3. Running \ {t} = {}
      BY <2>4, <2>8, <3>1, <3>2
    <3>4. Running' \subseteq {t}
      BY <2>11, <3>3 DEF Running
    <3>5. QED
      BY <2>4, <2>8, <3>2, <3>4
  <2>13. QED
    BY <2>9, <2>10, <2>12 DEF ParamsInv
<1>3. ASSUME NEW t \in Threads, NEW s \in ParamTrees, NEW to \in {"write", "done", "unsaved"},
             t \in Running, commands' = [commands EXCEPT ![t].pc = to], stateConf' = s,
             to = "done" => s = SaveTree(commands[t].tree)
      PROVE  ParamsInv'
  <2>1. PICK c \in ParamCommands : c = commands[t]
    BY <1>0, <1>3 DEF Running
  <2>2. PICK n : n = [c EXCEPT !.pc = to]
    OBVIOUS
  <2>3. /\ n \in ParamCommands /\ n.pc = to /\ n.alone = c.alone /\ n.before = c.before
        /\ n.tree = c.tree /\ n.key = c.key /\ n.value = c.value
    BY <1>3, <2>2 DEF ParamCommands
  <2>4. commands' = [commands EXCEPT ![t] = n]
    BY <1>3, <2>1, <2>2
  <2>5. commands'[t] = n /\ \A u \in Threads \ {t} : commands'[u] = commands[u]
    BY <1>0, <2>4
  <2>6. ParamsShape'
    BY <1>0, <1>3, <2>3, <2>4 DEF ParamsShape
  <2>7. OwnChange'
    BY <1>0, <1>3, <2>1, <2>3, <2>5 DEF OwnChange, Running
  <2>8. Running' = IF to \in Ended THEN Running \ {t} ELSE Running
    BY <1>3, <2>3, <2>5 DEF Running
  <2>9. AloneIndeed'
    <3>1. SUFFICES ASSUME NEW u \in Threads, commands'[u].pc # "idle", commands'[u].alone
                   PROVE  /\ Running' \subseteq {u}
                          /\ commands'[u].pc = "done" =>
                               u \notin Running' /\ stateConf' = SaveTree(commands'[u].tree)
      BY DEF AloneIndeed
    <3>2. CASE u = t
      BY <1>0, <1>3, <2>1, <2>3, <2>5, <2>8, <3>1, <3>2 DEF AloneIndeed, Running
    <3>3. CASE u # t
      BY <1>0, <1>3, <2>5, <3>1, <3>3 DEF AloneIndeed
    <3>4. QED
      BY <3>2, <3>3
  <2>10. QED
    BY <2>6, <2>7, <2>9 DEF ParamsInv
<1>4. ASSUME NEW t \in Threads, t \in Running, commands' = [commands EXCEPT ![t] = NoCommandRuns],
             stateConf' = stateConf
      PROVE  ParamsInv'
  <2>1. commands'[t] = NoCommandRuns /\ \A u \in Threads \ {t} : commands'[u] = commands[u]
    BY <1>0, <1>4
  <2>2. Running' = Running \ {t}
    BY <2>1 DEF Running, NoCommandRuns
  <2>3. QED
    BY <1>0, <1>4, <2>1, <2>2 DEF ParamsInv, ParamsShape, OwnChange, AloneIndeed, NoCommandRuns
<1>5. ASSUME NEW t \in Threads, OpenForSaving(t) PROVE ParamsInv'
  <2>1. t \in Running
    BY <1>5 DEF OpenForSaving, Running
  <2>2. EmptyTree \in ParamTrees
    <3>1. EmptyTree \in [{} -> Seq(STRING)]
      BY DEF EmptyTree
    <3>2. QED
      BY <3>1, TreesAre
  <2>3. CASE stateConf' = EmptyTree /\ commands' = [commands EXCEPT ![t].pc = "write"]
    BY <1>3, <2>1, <2>2, <2>3
  <2>4. CASE commands' = [commands EXCEPT ![t].pc = "unsaved"] /\ stateConf' = stateConf
    BY <1>0, <1>3, <2>1, <2>4
  <2>5. QED
    BY <1>5, <2>3, <2>4 DEF OpenForSaving
<1>6. ASSUME NEW t \in Threads, SaveAndEnd(t) PROVE ParamsInv'
  <2>1. t \in Running
    BY <1>6 DEF SaveAndEnd, Running
  <2>2. PICK c \in ParamCommands : c = commands[t]
    BY <1>0, <1>6 DEF SaveAndEnd
  <2>3. SaveTree(c.tree) \in ParamTrees
    BY SaveReads DEF ParamCommands
  <2>4. QED
    BY <1>3, <1>6, <2>1, <2>2, <2>3 DEF SaveAndEnd
<1>7. ASSUME NEW t \in Threads, KillCommand(t) PROVE ParamsInv'
  BY <1>4, <1>7 DEF KillCommand
<1>8. ASSUME NEW t \in Threads, WriteFails(t) PROVE ParamsInv'
  <2>1. t \in Running
    BY <1>8 DEF WriteFails, Running
  <2>2. SaveTree(commands[t].tree) \in ParamTrees
    BY <1>0, <1>8, SaveReads DEF WriteFails, ParamCommands
  <2>3. stateConf' \in Remains(SaveTree(commands[t].tree))
    BY <1>8 DEF WriteFails
  <2>5. stateConf' \in ParamTrees
    BY <2>2, <2>3, PartRemains
  <2>6. commands' = [commands EXCEPT ![t].pc = "unsaved"]
    BY <1>8 DEF WriteFails
  <2>7. QED
    BY <1>3, <2>1, <2>5, <2>6
<1>9. QED
  BY <1>1, <1>2, <1>5, <1>6, <1>7, <1>8 DEF ParamStoreNext

\* ParamsPersist (params_persist_set, hw_param_save_file, hw_param_load_file): a command that
\* ran alone has changed its own parameter and no other, for any number of processes, keys
\* and values, also after others that were ended half way.
THEOREM ParamsDoPersist == ParamStoreSpec => []ParamsPersist
<1>1. ParamsInv => ParamsPersist
  BY ParamsPersistNow
<1>2. QED
  BY <1>1, ParamsInitInv, ParamsStepInv, PTL DEF ParamStoreSpec

-----------------------------------------------------------------------------
(* The children of the process: Processes, for any size of the pid space and *)
(* any number of forks.                                                      *)

\* Pids come round only where tasks are the only children.
PidsApart(w) == w.forks <= w.pids \/ w.plugins = {"pmp"}
\* And then each of them has its entry.
TasksApart(w) == w.forks <= w.pids \/ (w.plugins = {"pmp"} /\ ~w.nomem)

Taken(p) == procs[p].st # "free"

\* As long as pids do not come round, they are given out in their order, and what is
\* above the last one was never anybody's.
PidsInTurn ==
  world.forks <= world.pids =>
    /\ last = births
    /\ \A p \in Pids : p > births => ~Taken(p)
    /\ \A id \in DOMAIN tasks : tasks[id].pid <= births

\* The process of a task has the newest entry with its pid.
NewestEntry ==
  \A p \in Pids, id \in DOMAIN tasks :
    Taken(p) /\ procs[p].of[1] = "task" /\ tasks[id].pid = p =>
      procs[p].of[2] \in DOMAIN tasks /\ tasks[procs[p].of[2]].pid = p /\ id <= procs[p].of[2]

\* The process of another plugin, or of a task without entry, has a pid of no entry.
NoStrangers ==
  TasksApart(world) =>
    \A p \in Pids, id \in DOMAIN tasks : Taken(p) /\ procs[p].of[1] # "task" => tasks[id].pid # p

\* A pid that a plugin has kept is of the process it was given for, or of none.
Kept(p, ofs) == p \in Pids /\ p <= births /\ (Taken(p) => procs[p].of \in ofs)
RunKept == runs.pc = "wait" => Kept(runs.pid, {"run"} \X Nat)
SpawnKept == term.pc \in {"forked", "undo"} => Kept(term.pid, {<<"term", g_seq + 1>>})
HandlesKept == \A n \in DOMAIN handles : Kept(handles[n].pid, {<<"term", n>>})
SessionsHandled == \A n \in DOMAIN sessions : n \in DOMAIN handles /\ sessions[n] = handles[n].pid
CommandKept == shell.pc \in {"forked", "read", "wait"} => Kept(shell.pid, {"shell"} \X Nat)
PidsKept == RunKept /\ SpawnKept /\ HandlesKept /\ SessionsHandled /\ CommandKept

\* Who is not in use does nothing.
PluginsInUse ==
  /\ runs.pc # "idle" => "runner" \in world.plugins
  /\ term.pc # "idle" \/ g_seq # 0 => "terminal" \in world.plugins
  /\ shell.pc # "idle" => "shell" \in world.plugins

\* What is counted stays in its bounds.
Counted == g_task_seq <= births /\ (term.pc # "idle" => g_seq < world.forks)

ChildrenInv ==
  /\ TypeOK /\ PidsInTurn /\ TasksUnreaped /\ NewestEntry /\ NoStrangers
  /\ PidsKept /\ PluginsInUse /\ Counted /\ SessionsAgree

-----------------------------------------------------------------------------
\* What the types say of the sizes, by name.
LEMMA Sizes ==
  ASSUME TypeOK
  PROVE  /\ world.pids \in Nat /\ world.pids > 0 /\ world.forks \in Nat
         /\ births \in Nat /\ births <= world.forks /\ last \in Nat /\ last <= world.pids
         /\ g_task_seq \in Nat /\ g_seq \in Nat
         /\ \A p \in Pids : p \in Nat /\ p >= 1 /\ p <= world.pids
BY ProcessAssumption DEF TypeOK, Pids

\* The bus and the children are among those who may hold the pipe.
LEMMA MayHold ==
  ASSUME TypeOK, NEW q \in Pids \cup {BUS}
  PROVE  {q} \subseteq 0 .. world.pids + 1
<1>1. q \in Nat /\ q <= world.pids /\ world.pids \in Nat
  BY Sizes DEF BUS
<1>2. QED
  BY <1>1

\* A step of the kernel after which there are no other children than before.
Fewer ==
  /\ procs' \in [Pids -> Proc]
  /\ \A p \in Pids : procs'[p].st # "free" => procs[p].st # "free" /\ procs'[p].of = procs[p].of

\* A signal changes one flag of one process that runs.
LEMMA SignalFacts ==
  ASSUME TypeOK, NEW p \in Pids, NEW t, t = Signalled(p)
  PROVE  /\ t \in [Pids -> Proc]
         /\ \A q \in Pids : t[q].st = procs[q].st /\ t[q].of = procs[q].of /\ t[q].code = procs[q].code
         /\ \A q \in Pids : t[q].sig /\ ~procs[q].sig => q = p /\ procs[p].st = "run"
<1>1. procs \in [Pids -> Proc] /\ procs[p] \in Proc
  BY DEF TypeOK
<1>2. PICK r : r = [procs[p] EXCEPT !.sig = TRUE]
  OBVIOUS
<1>3. r \in Proc /\ r.st = procs[p].st /\ r.of = procs[p].of /\ r.code = procs[p].code
  BY <1>1, <1>2 DEF Proc
<1>4. CASE procs[p].st = "run"
  <2>1. t = [procs EXCEPT ![p] = r]
    BY <1>2, <1>4 DEF Signalled
  <2>2. QED
    BY <1>1, <1>3, <1>4, <2>1
<1>5. CASE procs[p].st # "run"
  <2>1. t = procs
    BY <1>5 DEF Signalled
  <2>2. QED
    BY <1>1, <2>1
<1>6. QED
  BY <1>4, <1>5

\* A process that is collected has left, and nobody else.
LEMMA CollectFacts ==
  ASSUME TypeOK, NEW p \in Pids, NEW t, t = Collected(p)
  PROVE  /\ t \in [Pids -> Proc] /\ t[p].st = "free" /\ ~t[p].sig
         /\ \A q \in Pids \ {p} : t[q] = procs[q]
<1>1. procs \in [Pids -> Proc]
  BY DEF TypeOK
<1>2. NoProcess \in Proc /\ NoProcess.st = "free" /\ ~NoProcess.sig
  BY DEF NoProcess, Proc
<1>3. QED
  BY <1>1, <1>2 DEF Collected

\* What the pid of an entry, the newest entry and the order of the pids say is kept by such a step.
LEMMA FewerKnown ==
  ASSUME TypeOK, PidsInTurn, NewestEntry, NoStrangers, Fewer, UNCHANGED <<births, last, world>>,
         DOMAIN tasks' = DOMAIN tasks, \A id \in DOMAIN tasks : tasks'[id].pid = tasks[id].pid
  PROVE  PidsInTurn' /\ NewestEntry' /\ NoStrangers'
<1>1. Pids' = Pids
  BY DEF Pids
<1>2. PidsInTurn'
  BY <1>1 DEF PidsInTurn, Fewer, Taken
<1>3. NewestEntry'
  <2>1. SUFFICES ASSUME NEW p \in Pids, NEW id \in DOMAIN tasks, procs'[p].st # "free",
                        procs'[p].of[1] = "task", tasks'[id].pid = p
                 PROVE  /\ procs'[p].of[2] \in DOMAIN tasks /\ tasks'[procs'[p].of[2]].pid = p
                        /\ id <= procs'[p].of[2]
    BY <1>1 DEF NewestEntry, Taken
  <2>2. procs[p].st # "free" /\ procs'[p].of = procs[p].of /\ tasks[id].pid = p
    BY <2>1 DEF Fewer
  <2>3. procs[p].of[2] \in DOMAIN tasks /\ tasks[procs[p].of[2]].pid = p /\ id <= procs[p].of[2]
    BY <2>1, <2>2 DEF NewestEntry, Taken
  <2>4. QED
    BY <2>2, <2>3
<1>4. NoStrangers'
  BY <1>1 DEF NoStrangers, TasksApart, Fewer, Taken
<1>5. QED
  BY <1>2, <1>3, <1>4

\* What a plugin holds is still right when no pid that was ever given out has gone to another process.
LEMMA StillHeld ==
  ASSUME TypeOK, PidsKept, births' \in Nat, births <= births', world' = world,
         \A q \in Pids : q <= births /\ procs'[q].st # "free" =>
            procs[q].st # "free" /\ procs'[q].of = procs[q].of
  PROVE  /\ runs' = runs => RunKept'
         /\ term' = term /\ g_seq' = g_seq => SpawnKept'
         /\ handles' = handles => HandlesKept'
         /\ handles' = handles /\ sessions' = sessions => SessionsHandled'
         /\ shell' = shell => CommandKept'
<1>1. Pids' = Pids
  BY DEF Pids
<1>2. \A p, ofs : Kept(p, ofs) =>
        p \in Pids /\ p <= births' /\ (procs'[p].st # "free" => procs'[p].of \in ofs)
  <2>1. SUFFICES ASSUME NEW p, NEW ofs, Kept(p, ofs)
                 PROVE  /\ p \in Pids /\ p <= births'
                        /\ procs'[p].st # "free" => procs'[p].of \in ofs
    OBVIOUS
  <2>2. p \in Pids /\ p <= births /\ p <= births'
    BY <2>1, Sizes DEF Kept
  <2>3. QED
    BY <2>1, <2>2 DEF Kept, Taken
<1>3. runs' = runs => RunKept'
  BY <1>1, <1>2 DEF PidsKept, RunKept, Kept, Taken
<1>4. term' = term /\ g_seq' = g_seq => SpawnKept'
  BY <1>1, <1>2 DEF PidsKept, SpawnKept, Kept, Taken
<1>5. handles' = handles => HandlesKept'
  <2>1. SUFFICES ASSUME handles' = handles, NEW n \in DOMAIN handles
                 PROVE  /\ handles[n].pid \in Pids /\ handles[n].pid <= births'
                        /\ procs'[handles[n].pid].st # "free" =>
                             procs'[handles[n].pid].of \in {<<"term", n>>}
    BY <1>1 DEF HandlesKept, Kept, Taken
  <2>2. Kept(handles[n].pid, {<<"term", n>>})
    BY <2>1 DEF PidsKept, HandlesKept
  <2>3. QED
    BY <1>2, <2>2
<1>6. handles' = handles /\ sessions' = sessions => SessionsHandled'
  BY DEF PidsKept, SessionsHandled
<1>7. shell' = shell => CommandKept'
  BY <1>1, <1>2 DEF PidsKept, CommandKept, Kept, Taken
<1>8. QED
  BY <1>3, <1>4, <1>5, <1>6, <1>7

\* So it is when there are fewer children and the plugins hold what they held.
LEMMA FewerHeld ==
  ASSUME TypeOK, PidsKept, Fewer, UNCHANGED <<births, world, runs, terminal, shell>>
  PROVE  PidsKept'
<1>1. births' \in Nat /\ births <= births' /\ world' = world
  BY Sizes
<1>2. \A q \in Pids : q <= births /\ procs'[q].st # "free" =>
        procs[q].st # "free" /\ procs'[q].of = procs[q].of
  BY DEF Fewer
<1>3. runs' = runs /\ term' = term /\ g_seq' = g_seq /\ handles' = handles /\ sessions' = sessions
      /\ shell' = shell
  BY DEF terminal
<1>4. RunKept' /\ SpawnKept' /\ HandlesKept' /\ SessionsHandled' /\ CommandKept'
  BY <1>1, <1>2, <1>3, StillHeld
<1>5. QED
  BY <1>4 DEF PidsKept

\* The pid that fork takes: one that nobody has, and the next one as long as none comes round.
LEMMA ForkFacts ==
  ASSUME TypeOK, PidsInTurn, NEW kind \in {"task", "lost", "run", "term", "shell"}, NEW n \in Nat,
         Fork(kind, n)
  PROVE  \E x \in Pids :
           /\ NextPid = x /\ procs[x].st = "free"
           /\ births < world.forks /\ births' = births + 1 /\ last' = x
           /\ procs' \in [Pids -> Proc] /\ procs'[x].st = "run" /\ procs'[x].of = <<kind, n>>
           /\ ~procs'[x].sig /\ \A q \in Pids \ {x} : procs'[q] = procs[q]
           /\ world.forks <= world.pids => x = births + 1
<1>1. /\ FreePids # {} /\ FreePids \in SUBSET Pids
      /\ \A p \in Pids : p \in FreePids <=> procs[p].st = "free"
  BY DEF Fork, FreePids
<1>2. \A p \in Pids : Turn(p) \in 1 .. world.pids
  BY Sizes DEF Turn
<1>3. PICK turns : turns = {Turn(p) : p \in FreePids}
  OBVIOUS
<1>4. turns \in SUBSET (1 .. world.pids) /\ turns # {}
  BY <1>1, <1>2, <1>3
<1>5. PICK least \in turns : \A i \in turns : least <= i
  BY <1>4, Sizes, SmallestAndLargest
<1>6. \E p \in FreePids : \A q \in FreePids : Turn(p) <= Turn(q)
  <2>1. PICK p \in FreePids : least = Turn(p)
    BY <1>3, <1>5
  <2>2. \A q \in FreePids : Turn(q) \in turns
    BY <1>3
  <2>3. QED
    BY <1>5, <2>1, <2>2
<1>7. PICK x : x = NextPid
  OBVIOUS
<1>8. x \in FreePids /\ \A q \in FreePids : Turn(x) <= Turn(q)
  BY <1>6, <1>7 DEF NextPid
<1>9. x \in Pids /\ procs[x].st = "free"
  BY <1>1, <1>8
<1>10. PICK child : child = [NoProcess EXCEPT !.st = "run", !.of = <<kind, n>>]
  OBVIOUS
<1>11. child \in Proc /\ child.st = "run" /\ child.of = <<kind, n>> /\ ~child.sig
  BY <1>10 DEF NoProcess, Proc
<1>12. procs' = [procs EXCEPT ![x] = child] /\ births' = births + 1 /\ last' = x /\ births < world.forks
  BY <1>7, <1>10 DEF Fork
<1>13. procs \in [Pids -> Proc]
  BY DEF TypeOK
<1>14. /\ procs' \in [Pids -> Proc] /\ procs'[x] = child
       /\ \A q \in Pids \ {x} : procs'[q] = procs[q]
  BY <1>9, <1>11, <1>12, <1>13
<1>15. ASSUME world.forks <= world.pids PROVE x = births + 1
  <2>1. births + 1 \in Pids /\ last = births /\ ~Taken(births + 1)
    <3>1. births + 1 \in Pids
      BY <1>12, <1>15, Sizes DEF Pids
    <3>2. QED
      BY <1>15, <3>1, Sizes DEF PidsInTurn
  <2>2. Turn(births + 1) = 1 /\ births + 1 \in FreePids
    BY <1>1, <2>1, Sizes DEF Turn, Taken
  <2>3. Turn(x) <= 1
    BY <1>8, <2>2
  <2>4. x \in Nat /\ x >= 1 /\ births < world.pids
    BY <1>9, <1>12, <1>15, Sizes
  <2>5. QED
    BY <2>1, <2>3, <2>4, Sizes DEF Turn
<1>16. QED
  BY <1>7, <1>9, <1>11, <1>12, <1>14, <1>15

\* A fork leaves alone what has a pid already: where pids come round nobody but PMP holds one.
LEMMA ForkBesides ==
  ASSUME ChildrenInv, PidsApart(world), NEW x \in Pids, procs[x].st = "free",
         world.forks <= world.pids => x = births + 1,
         \A q \in Pids \ {x} : procs'[q] = procs[q]
  PROVE  /\ world.plugins # {"pmp"} => \A q \in Pids : q <= births => procs'[q] = procs[q]
         /\ \A q \in Pids : Taken(q) => procs'[q] = procs[q]
         /\ world.plugins # {"pmp"} => x = births + 1
BY Sizes DEF ChildrenInv, PidsApart, Taken

\* After a fork for another plugin, or for a task that gets no entry, the entries still say what they
\* said.
LEMMA StrangerForked ==
  ASSUME ChildrenInv, PidsApart(world), NEW kind \in {"lost", "run", "term", "shell"}, NEW n \in Nat,
         Fork(kind, n), UNCHANGED <<tasks, world>>,
         IF kind = "lost" THEN world.nomem ELSE world.plugins # {"pmp"}
  PROVE  PidsInTurn' /\ NewestEntry' /\ NoStrangers' /\ TasksUnreaped'
<1>1. TypeOK /\ PidsInTurn /\ NewestEntry /\ NoStrangers /\ TasksUnreaped
  BY DEF ChildrenInv
<1>2. PICK x \in Pids :
        /\ NextPid = x /\ procs[x].st = "free"
        /\ births < world.forks /\ births' = births + 1 /\ last' = x
        /\ procs' \in [Pids -> Proc] /\ procs'[x].st = "run" /\ procs'[x].of = <<kind, n>>
        /\ ~procs'[x].sig /\ \A q \in Pids \ {x} : procs'[q] = procs[q]
        /\ world.forks <= world.pids => x = births + 1
  BY <1>1, ForkFacts
<1>3. Pids' = Pids /\ procs'[x].of[1] = kind /\ kind # "task"
  BY <1>2 DEF Pids
<1>4. PidsInTurn'
  <2>1. SUFFICES ASSUME world.forks <= world.pids
                 PROVE  /\ x = births + 1
                        /\ \A p \in Pids : p > births + 1 => procs'[p].st = "free"
                        /\ \A id \in DOMAIN tasks : tasks[id].pid <= births + 1
    BY <1>2, <1>3 DEF PidsInTurn, Taken
  <2>2. \A p \in Pids : p > births + 1 => p # x /\ p > births
    BY <1>2, <2>1, Sizes, <1>1
  <2>3. \A id \in DOMAIN tasks : tasks[id].pid \in Nat /\ tasks[id].pid <= births
    BY <1>1, <2>1, Sizes DEF PidsInTurn, TypeOK
  <2>4. \A p \in Pids : p > births => procs[p].st = "free"
    BY <1>1, <2>1 DEF PidsInTurn, Taken
  <2>5. \A p \in Pids : p > births + 1 => procs'[p].st = "free"
    BY <1>2, <2>2, <2>4
  <2>6. QED
    BY <1>1, <1>2, <2>1, <2>3, <2>5, Sizes
<1>5. NewestEntry'
  BY <1>1, <1>2, <1>3 DEF NewestEntry, Taken
<1>6. NoStrangers'
  <2>1. SUFFICES ASSUME TasksApart(world), NEW p \in Pids, NEW id \in DOMAIN tasks,
                        procs'[p].st # "free", procs'[p].of[1] # "task"
                 PROVE  tasks[id].pid # p
    BY <1>3 DEF NoStrangers, Taken, TasksApart
  <2>2. world.forks <= world.pids
    BY <2>1 DEF TasksApart
  <2>3. tasks[id].pid <= births /\ x = births + 1
    BY <1>1, <1>2, <2>2 DEF PidsInTurn
  <2>4. CASE p = x
    BY <1>1, <2>3, <2>4, Sizes
  <2>5. CASE p # x
    BY <1>1, <1>2, <2>1, <2>5 DEF NoStrangers, Taken
  <2>6. QED
    BY <2>4, <2>5
<1>7. TasksUnreaped'
  <2>1. SUFFICES ASSUME NEW id \in DOMAIN tasks, tasks[id].state \in {"RUNNING", "CANCELLED"}
                 PROVE  procs'[tasks[id].pid].st # "free" /\ procs'[tasks[id].pid].of = <<"task", id>>
    BY DEF TasksUnreaped, Own
  <2>2. procs[tasks[id].pid].st # "free" /\ procs[tasks[id].pid].of = <<"task", id>>
    BY <1>1, <2>1 DEF TasksUnreaped, Own
  <2>3. tasks[id].pid \in Pids
    BY <1>1, <2>1 DEF TypeOK
  <2>4. QED
    BY <1>2, <2>2, <2>3
<1>8. QED
  BY <1>4, <1>5, <1>6, <1>7

\* An entry that is live keeps its process when another process, or that of another task, is collected.
LEMMA LiveKept ==
  ASSUME TypeOK, TasksUnreaped, UNCHANGED <<tasks, world>>,
         \A q \in Pids : Taken(q) /\ procs[q].of[1] = "task" =>
            procs'[q].st # "free" /\ procs'[q].of = procs[q].of
  PROVE  TasksUnreaped'
<1>1. SUFFICES ASSUME NEW id \in DOMAIN tasks, tasks[id].state \in {"RUNNING", "CANCELLED"}
               PROVE  procs'[tasks[id].pid].st # "free" /\ procs'[tasks[id].pid].of = <<"task", id>>
  BY DEF TasksUnreaped, Own
<1>2. procs[tasks[id].pid].st # "free" /\ procs[tasks[id].pid].of = <<"task", id>>
  BY <1>1 DEF TasksUnreaped, Own
<1>3. tasks[id].pid \in Pids
  BY <1>1 DEF TypeOK
<1>4. procs[tasks[id].pid].of[1] = "task"
  BY <1>2
<1>5. QED
  BY <1>2, <1>3, <1>4 DEF Taken

-----------------------------------------------------------------------------
\* The entry that a reaped child finishes is the newest with its pid.
LEMMA Hits ==
  ASSUME TypeOK, NEW r \in Pids, NEW hits, hits = {id \in DOMAIN tasks : tasks[id].pid = r},
         hits # {}
  PROVE  Max(hits) \in hits /\ \A id \in hits : id <= Max(hits)
<1>1. hits \in SUBSET (1 .. g_task_seq) /\ g_task_seq \in Nat
  BY Sizes DEF TypeOK
<1>2. QED
  BY <1>1, SmallestAndLargest

\* What a reaped child changes: nothing, or state and exit code of one entry, which is its own unless
\* pids came round to a process without entry.
LEMMA UpdateFacts ==
  ASSUME ChildrenInv, NEW r \in Pids, procs[r].st = "zombie", NEW t, t = Updated(r)
  PROVE  /\ DOMAIN t = DOMAIN tasks
         /\ \A id \in DOMAIN tasks : /\ t[id] \in Task /\ t[id].pid = tasks[id].pid
                                     /\ t[id] # tasks[id] => tasks[id].pid = r
         /\ procs[r].of[1] = "task" =>
              \A id \in DOMAIN tasks :
                /\ procs[r].of = <<"task", id>> /\ tasks[id].pid = r => t[id].state \in {"FINISHED", "FAILED"}
                /\ t[id] # tasks[id] =>
                     /\ procs[r].of = <<"task", id>>
                     /\ t[id].state = (IF procs[r].code = "zero" THEN "FINISHED" ELSE "FAILED")
<1> USE DEF ChildrenInv
<1>1. PICK hits : hits = {id \in DOMAIN tasks : tasks[id].pid = r}
  OBVIOUS
<1>2. /\ \A id \in DOMAIN tasks : tasks[id] \in Task
      /\ procs[r] \in Proc
  BY DEF TypeOK
<1>3. CASE hits = {}
  <2>1. t = tasks
    BY <1>1, <1>3 DEF Updated
  <2>2. QED
    BY <1>1, <1>2, <1>3, <2>1
<1>4. CASE hits # {}
  <2>1. PICK top : top = Max(hits)
    OBVIOUS
  <2>2. top \in hits /\ \A id \in hits : id <= top
    BY <1>1, <1>4, <2>1, Hits
  <2>3. PICK e : e = [tasks[top] EXCEPT !.state = IF procs[r].code = "zero" THEN "FINISHED" ELSE "FAILED",
                                        !.exit_status = procs[r].code]
    OBVIOUS
  <2>4. t = [tasks EXCEPT ![top] = e]
    BY <1>1, <1>4, <2>1, <2>3 DEF Updated
  <2>5. top \in DOMAIN tasks /\ tasks[top].pid = r
    BY <1>1, <2>2
  <2>6. /\ e \in Task /\ e.pid = r
        /\ e.state = (IF procs[r].code = "zero" THEN "FINISHED" ELSE "FAILED")
    BY <1>2, <2>3, <2>5, ZenonT(60) DEF Task, Proc
  <2>7. DOMAIN t = DOMAIN tasks /\ t[top] = e /\ \A id \in DOMAIN tasks \ {top} : t[id] = tasks[id]
    BY <2>4, <2>5
  <2>8. ASSUME procs[r].of[1] = "task" PROVE procs[r].of[2] = top /\ procs[r].of = <<"task", top>>
    <3>1. procs[r].of[2] \in hits /\ \A id \in hits : id <= procs[r].of[2]
      BY <1>1, <2>5, <2>8 DEF NewestEntry, Taken
    <3>2. procs[r].of[2] <= top /\ top <= procs[r].of[2]
      BY <2>2, <3>1
    <3>3. top \in Nat /\ procs[r].of[2] \in Nat /\ procs[r].of = <<procs[r].of[1], procs[r].of[2]>>
      BY <1>2, <2>5, Sizes, SMTT(60) DEF TypeOK, Proc
    <3>4. QED
      BY <2>8, <3>2, <3>3
  <2>9. QED
    BY <1>2, <2>5, <2>6, <2>7, <2>8
<1>5. QED
  BY <1>3, <1>4

\* What only TERMINAL, the shell and the callers of run have stays as it is under a step of a task.
LEMMA OthersAlike ==
  ASSUME ChildrenInv, Others
  PROVE  PluginsInUse' /\ SessionsAgree' /\ Pids' = Pids
BY DEF ChildrenInv, PluginsInUse, SessionsAgree, Others, terminal, Pids

\* A submitted task: its process has a pid of its own and gets the newest entry with that pid.
LEMMA SubmitKeeps ==
  ASSUME ChildrenInv, PidsApart(world), pmp_task_submit
  PROVE  ChildrenInv'
<1> DEFINE id == g_task_seq + 1
<1>1. /\ TypeOK /\ PidsInTurn /\ NewestEntry /\ NoStrangers /\ TasksUnreaped
      /\ PidsKept /\ PluginsInUse /\ Counted /\ SessionsAgree
  BY DEF ChildrenInv
<1>2. /\ UNCHANGED <<runs, terminal, shell, world>> /\ writers' = Inherits(writers)
      /\ "pmp" \in world.plugins
  BY DEF pmp_task_submit, Others
<1>3. PluginsInUse' /\ SessionsAgree' /\ Pids' = Pids
  BY OthersAlike DEF pmp_task_submit
<1>4. PICK kind \in {"task", "lost"}, n \in Nat :
        /\ Fork(kind, n)
        /\ IF kind = "task"
           THEN /\ n = id /\ g_task_seq' = id
                /\ tasks' = Added(tasks, g_task_seq',
                                  [pid |-> NextPid, state |-> "RUNNING", exit_status |-> "none"])
           ELSE world.nomem /\ UNCHANGED <<tasks, g_task_seq>>
  <2>1. id \in Nat
    BY <1>1, Sizes
  <2>2. QED
    BY <2>1 DEF pmp_task_submit, pmp
<1>5. PICK x \in Pids :
        /\ NextPid = x /\ procs[x].st = "free"
        /\ births < world.forks /\ births' = births + 1 /\ last' = x
        /\ procs' \in [Pids -> Proc] /\ procs'[x].st = "run" /\ procs'[x].of = <<kind, n>>
        /\ ~procs'[x].sig /\ \A q \in Pids \ {x} : procs'[q] = procs[q]
        /\ world.forks <= world.pids => x = births + 1
  BY <1>1, <1>4, ForkFacts
<1>6. /\ world.plugins # {"pmp"} => \A q \in Pids : q <= births => procs'[q] = procs[q]
      /\ \A q \in Pids : Taken(q) => procs'[q] = procs[q]
      /\ world.plugins # {"pmp"} => x = births + 1
  <2>1. world.forks <= world.pids => x = births + 1
    BY <1>5
  <2>2. procs[x].st = "free" /\ \A q \in Pids \ {x} : procs'[q] = procs[q]
    BY <1>5
  <2>3. QED
    BY <2>1, <2>2, ForkBesides
<1>7. /\ births' \in 0 .. world.forks /\ last' \in 0 .. world.pids
      /\ writers' \subseteq 0 .. world.pids + 1
  <2>1. births' \in 0 .. world.forks /\ last' \in 0 .. world.pids
    BY <1>1, <1>5, Sizes
  <2>2. writers \subseteq 0 .. world.pids + 1
    BY <1>1 DEF TypeOK
  <2>3. {NextPid} \subseteq 0 .. world.pids + 1
    BY <1>1, <1>5, MayHold
  <2>4. QED
    BY <1>2, <2>1, <2>2, <2>3 DEF Inherits
<1>8. PidsKept'
  <2>1. CASE world.plugins = {"pmp"}
    <3>1. runs.pc = "idle" /\ term.pc = "idle" /\ g_seq = 0 /\ shell.pc = "idle"
      BY <1>1, <2>1 DEF PluginsInUse
    <3>2. DOMAIN handles = {} /\ DOMAIN sessions = {}
      <4>1. DOMAIN handles = 1 .. 0 /\ DOMAIN sessions \subseteq 1 .. 0
        BY <1>1, <3>1 DEF TypeOK
      <4>2. QED
        BY <4>1
    <3>3. QED
      BY <1>2, <3>1, <3>2
         DEF PidsKept, RunKept, SpawnKept, HandlesKept, SessionsHandled, CommandKept, terminal
  <2>2. CASE world.plugins # {"pmp"}
    <3>1. /\ births' \in Nat /\ births <= births' /\ world' = world
          /\ \A q \in Pids : q <= births => procs'[q] = procs[q]
      BY <1>1, <1>2, <1>5, <1>6, <2>2, Sizes
    <3>2. RunKept' /\ SpawnKept' /\ HandlesKept' /\ SessionsHandled' /\ CommandKept'
      BY <1>1, <1>2, <3>1, StillHeld DEF terminal
    <3>3. QED
      BY <3>2 DEF PidsKept
  <2>3. QED
    BY <2>1, <2>2
<1>9. CASE kind = "lost"
  <2>1. world.nomem /\ UNCHANGED <<tasks, g_task_seq>>
    BY <1>4, <1>9
  <2>2. PidsInTurn' /\ NewestEntry' /\ NoStrangers' /\ TasksUnreaped'
    BY <1>2, <1>4, <1>9, <2>1, StrangerForked
  <2>3. TypeOK'
    BY <1>1, <1>2, <1>3, <1>5, <1>7, <2>1 DEF TypeOK, terminal
  <2>4. Counted'
    BY <1>1, <1>2, <1>5, <2>1, Sizes DEF Counted, terminal
  <2>5. QED
    BY <1>3, <1>8, <2>2, <2>3, <2>4 DEF ChildrenInv
<1>10. CASE kind = "task"
  <2>1. PICK e : e = [pid |-> x, state |-> "RUNNING", exit_status |-> "none"]
    OBVIOUS
  <2>2. e \in Task /\ e.pid = x /\ e.state = "RUNNING"
    BY <1>5, <2>1, <1>1, Sizes DEF Task
  <2>3. g_task_seq' = id /\ tasks' = Added(tasks, id, e) /\ n = id
    BY <1>4, <1>5, <1>10, <2>1
  <2>4. DOMAIN tasks \subseteq 1 .. g_task_seq /\ id \notin DOMAIN tasks /\ id \in Nat /\ g_task_seq \in Nat
    BY <1>1, Sizes DEF TypeOK
  <2>5. /\ DOMAIN tasks' = DOMAIN tasks \cup {id} /\ tasks'[id] = e
        /\ \A i \in DOMAIN tasks : tasks'[i] = tasks[i]
    BY <2>3, <2>4 DEF Added
  <2>6. TypeOK'
    <3>1. g_task_seq < world.forks /\ id \in 0 .. world.forks
      BY <1>1, <1>5, Sizes DEF Counted
    <3>2. DOMAIN tasks' \subseteq 1 .. id
      BY <2>4, <2>5
    <3>3. \A i \in DOMAIN tasks' : tasks'[i] \in Task /\ tasks'[i].pid \in Pids
      BY <1>1, <2>2, <2>5 DEF TypeOK
    <3>4. QED
      BY <1>1, <1>2, <1>3, <1>5, <1>7, <2>3, <3>1, <3>2, <3>3 DEF TypeOK, terminal
  <2>7. PidsInTurn'
    <3>1. SUFFICES ASSUME world.forks <= world.pids
                   PROVE  /\ x = births + 1
                          /\ \A p \in Pids : p > births + 1 => procs'[p].st = "free"
                          /\ \A i \in DOMAIN tasks' : tasks'[i].pid <= births + 1
      BY <1>2, <1>3, <1>5 DEF PidsInTurn, Taken
    <3>2. \A p \in Pids : p > births + 1 => p # x /\ p > births
      BY <1>5, <3>1, Sizes, <1>1
    <3>3. \A i \in DOMAIN tasks : tasks[i].pid \in Nat /\ tasks[i].pid <= births
      BY <1>1, <3>1, Sizes DEF PidsInTurn, TypeOK
    <3>4. \A p \in Pids : p > births => procs[p].st = "free"
      BY <1>1, <3>1 DEF PidsInTurn, Taken
    <3>5. \A p \in Pids : p > births + 1 => procs'[p].st = "free"
      BY <1>5, <3>2, <3>4
    <3>6. \A i \in DOMAIN tasks' : tasks'[i].pid <= births + 1
      BY <1>1, <1>5, <2>2, <2>5, <3>1, <3>3, Sizes
    <3>7. QED
      BY <1>5, <3>1, <3>5, <3>6
  <2>8. NewestEntry'
    <3>1. SUFFICES ASSUME NEW p \in Pids, NEW i \in DOMAIN tasks', procs'[p].st # "free",
                          procs'[p].of[1] = "task", tasks'[i].pid = p
                   PROVE  /\ procs'[p].of[2] \in DOMAIN tasks' /\ tasks'[procs'[p].of[2]].pid = p
                          /\ i <= procs'[p].of[2]
      BY <1>3 DEF NewestEntry, Taken
    <3>2. CASE p = x
      BY <1>5, <2>2, <2>3, <2>4, <2>5, <3>2
    <3>3. CASE p # x
      <4>1. i \in DOMAIN tasks /\ procs'[p] = procs[p]
        BY <1>5, <2>2, <2>5, <3>1, <3>3
      <4>2. procs[p].of[2] \in DOMAIN tasks /\ tasks[procs[p].of[2]].pid = p /\ i <= procs[p].of[2]
        BY <1>1, <2>5, <3>1, <4>1 DEF NewestEntry, Taken
      <4>3. QED
        BY <2>5, <4>1, <4>2
    <3>4. QED
      BY <3>2, <3>3
  <2>9. NoStrangers'
    <3>1. SUFFICES ASSUME TasksApart(world), NEW p \in Pids, NEW i \in DOMAIN tasks',
                          procs'[p].st # "free", procs'[p].of[1] # "task"
                   PROVE  tasks'[i].pid # p
      BY <1>2, <1>3 DEF NoStrangers, Taken, TasksApart
    <3>2. p # x /\ procs'[p] = procs[p]
      BY <1>5, <1>10, <3>1
    <3>3. QED
      BY <1>1, <2>2, <2>5, <3>1, <3>2 DEF NoStrangers, Taken
  <2>10. TasksUnreaped'
    <3>1. SUFFICES ASSUME NEW i \in DOMAIN tasks', tasks'[i].state \in {"RUNNING", "CANCELLED"}
                   PROVE  procs'[tasks'[i].pid].st # "free" /\ procs'[tasks'[i].pid].of = <<"task", i>>
      BY DEF TasksUnreaped, Own
    <3>2. CASE i = id
      BY <1>5, <1>10, <2>2, <2>3, <2>5, <3>2
    <3>3. CASE i # id
      <4>1. i \in DOMAIN tasks /\ tasks'[i] = tasks[i] /\ tasks[i].pid \in Pids
        BY <1>1, <2>5, <3>3 DEF TypeOK
      <4>2. procs[tasks[i].pid].st # "free" /\ procs[tasks[i].pid].of = <<"task", i>>
        BY <1>1, <3>1, <4>1 DEF TasksUnreaped, Own
      <4>3. QED
        BY <1>5, <4>1, <4>2
    <3>4. QED
      BY <3>2, <3>3
  <2>11. Counted'
    BY <1>1, <1>2, <1>5, <2>3, Sizes DEF Counted, terminal
  <2>12. QED
    BY <1>3, <1>8, <2>6, <2>7, <2>8, <2>9, <2>10, <2>11 DEF ChildrenInv
<1>11. QED
  BY <1>9, <1>10

\* A step after which every child is where it was and every entry still has its child.
LEMMA MarkKeeps ==
  ASSUME ChildrenInv, Others, UNCHANGED <<births, last, g_task_seq>>, writers' \subseteq writers,
         procs' \in [Pids -> Proc],
         \A q \in Pids : (procs'[q].st = "free" <=> procs[q].st = "free") /\ procs'[q].of = procs[q].of,
         DOMAIN tasks' = DOMAIN tasks,
         \A id \in DOMAIN tasks :
           /\ tasks'[id] \in Task /\ tasks'[id].pid = tasks[id].pid
           /\ tasks'[id].state \in {"RUNNING", "CANCELLED"} => tasks[id].state \in {"RUNNING", "CANCELLED"}
  PROVE  ChildrenInv'
<1>1. /\ TypeOK /\ PidsInTurn /\ NewestEntry /\ NoStrangers /\ TasksUnreaped
      /\ PidsKept /\ PluginsInUse /\ Counted /\ SessionsAgree
  BY DEF ChildrenInv
<1>2. UNCHANGED <<runs, terminal, shell, world>>
  BY DEF Others
<1>3. PluginsInUse' /\ SessionsAgree' /\ Pids' = Pids
  BY OthersAlike
<1>4. Fewer
  BY DEF Fewer
<1>5. PidsInTurn' /\ NewestEntry' /\ NoStrangers'
  BY <1>1, <1>2, <1>4, FewerKnown
<1>6. PidsKept'
  BY <1>1, <1>2, <1>4, FewerHeld
<1>7. TypeOK'
  <2>1. \A id \in DOMAIN tasks' : tasks'[id] \in Task /\ tasks'[id].pid \in Pids
    BY <1>1 DEF TypeOK
  <2>2. QED
    BY <1>1, <1>2, <1>3, <2>1 DEF TypeOK, terminal
<1>8. TasksUnreaped'
  <2>1. SUFFICES ASSUME NEW id \in DOMAIN tasks, tasks'[id].state \in {"RUNNING", "CANCELLED"}
                 PROVE  /\ procs'[tasks[id].pid].st # "free"
                        /\ procs'[tasks[id].pid].of = <<"task", id>>
    BY DEF TasksUnreaped, Own
  <2>2. procs[tasks[id].pid].st # "free" /\ procs[tasks[id].pid].of = <<"task", id>>
    BY <1>1, <2>1 DEF TasksUnreaped, Own
  <2>3. tasks[id].pid \in Pids
    BY <1>1 DEF TypeOK
  <2>4. QED
    BY <2>2, <2>3
<1>9. Counted'
  BY <1>1, <1>2 DEF Counted, terminal
<1>10. QED
  BY <1>1, <1>3, <1>5, <1>6, <1>7, <1>8, <1>9 DEF ChildrenInv

\* Cancelling sends a signal and marks the entry.
LEMMA CancelKeeps ==
  ASSUME ChildrenInv, NEW id \in DOMAIN tasks, pmp_task_cancel(id)
  PROVE  ChildrenInv'
<1>1. TypeOK /\ tasks[id] \in Task /\ tasks[id].pid \in Pids
  BY DEF ChildrenInv, TypeOK
<1>2. PICK p \in Pids : p = tasks[id].pid
  BY <1>1
<1>3. procs' = Signalled(p)
  BY <1>2 DEF pmp_task_cancel
<1>4. /\ procs' \in [Pids -> Proc]
      /\ \A q \in Pids : procs'[q].st = procs[q].st /\ procs'[q].of = procs[q].of
  BY <1>1, <1>3, SignalFacts
<1>5. PICK e : e = [tasks[id] EXCEPT !.state = "CANCELLED"]
  OBVIOUS
<1>6. e \in Task /\ e.pid = tasks[id].pid
  BY <1>1, <1>5 DEF Task
<1>7. tasks' = [tasks EXCEPT ![id] = e] /\ tasks[id].state = "RUNNING"
  BY <1>5 DEF pmp_task_cancel
<1>8. /\ DOMAIN tasks' = DOMAIN tasks
      /\ \A i \in DOMAIN tasks :
           /\ tasks'[i] \in Task /\ tasks'[i].pid = tasks[i].pid
           /\ tasks'[i].state \in {"RUNNING", "CANCELLED"} => tasks[i].state \in {"RUNNING", "CANCELLED"}
  BY <1>1, <1>6, <1>7 DEF TypeOK
<1>9. Others /\ UNCHANGED <<births, last, g_task_seq>> /\ writers' \subseteq writers
  BY DEF pmp_task_cancel
<1>10. QED
  BY <1>4, <1>8, <1>9, MarkKeeps

\* Stopping and resuming change one flag of a process.
LEMMA StopKeeps ==
  ASSUME ChildrenInv, NEW id \in DOMAIN tasks, pmp_stop(id) \/ pmp_resume(id)
  PROVE  ChildrenInv'
<1>1. TypeOK /\ procs \in [Pids -> Proc] /\ tasks[id].pid \in Pids
  BY DEF ChildrenInv, TypeOK
<1>2. PICK p \in Pids : p = tasks[id].pid
  BY <1>1
<1>3. PICK b \in BOOLEAN : procs' = [procs EXCEPT ![p].stopped = b]
  BY <1>2 DEF pmp_stop, pmp_resume
<1>4. PICK r : r = [procs[p] EXCEPT !.stopped = b]
  OBVIOUS
<1>5. r \in Proc /\ r.st = procs[p].st /\ r.of = procs[p].of
  BY <1>1, <1>4 DEF Proc
<1>6. procs' = [procs EXCEPT ![p] = r]
  BY <1>3, <1>4
<1>7. /\ procs' \in [Pids -> Proc]
      /\ \A q \in Pids : (procs'[q].st = "free" <=> procs[q].st = "free") /\ procs'[q].of = procs[q].of
  BY <1>1, <1>5, <1>6
<1>8. Others /\ UNCHANGED <<births, last, tasks, g_task_seq>> /\ writers' \subseteq writers
  BY DEF pmp_stop, pmp_resume, pmp
<1>9. \A i \in DOMAIN tasks : tasks[i] \in Task
  BY <1>1 DEF TypeOK
<1>10. QED
  BY <1>7, <1>8, <1>9, MarkKeeps

\* A child that ends stays in the table.
LEMMA ExitKeeps ==
  ASSUME ChildrenInv, NEW p \in Pids, NEW code \in Codes, Exit(p, code)
  PROVE  ChildrenInv'
<1>1. TypeOK /\ procs \in [Pids -> Proc]
  BY DEF ChildrenInv, TypeOK
<1>2. PICK r : r = [procs[p] EXCEPT !.st = "zombie", !.code = code]
  OBVIOUS
<1>3. r \in Proc /\ r.st = "zombie" /\ r.of = procs[p].of
  BY <1>1, <1>2, ZenonT(60) DEF Proc
<1>4. procs' = [procs EXCEPT ![p] = r] /\ procs[p].st = "run"
  BY <1>2 DEF Exit
<1>5. /\ procs' \in [Pids -> Proc]
      /\ \A q \in Pids : (procs'[q].st = "free" <=> procs[q].st = "free") /\ procs'[q].of = procs[q].of
  BY <1>1, <1>3, <1>4
<1>6. Others /\ UNCHANGED <<births, last, tasks, g_task_seq>> /\ writers' \subseteq writers
  BY DEF Exit, Others, pmp
<1>7. \A i \in DOMAIN tasks : tasks[i] \in Task
  BY <1>1 DEF TypeOK
<1>8. QED
  BY <1>5, <1>6, <1>7, MarkKeeps

\* Who holds the pipe is nobody's record.
LEMMA HoldersKeep ==
  ASSUME ChildrenInv, Holders
  PROVE  ChildrenInv'
<1>1. /\ TypeOK /\ UNCHANGED <<kernel, pmp, runs, terminal, shell, world>>
      /\ writers' \subseteq writers \cup {HEIR}
  BY DEF Holders, Beget, HolderLeaves, ChildrenInv
<1>2. Pids' = Pids
  BY <1>1 DEF Pids
<1>3. writers' \subseteq 0 .. world.pids + 1
  <2>1. world.pids \in Nat
    BY <1>1, Sizes
  <2>2. world.pids + 1 \in 0 .. world.pids + 1
    BY <2>1
  <2>3. QED
    BY <1>1, <2>2 DEF TypeOK, HEIR
<1>4. TypeOK'
  BY <1>1, <1>2, <1>3 DEF TypeOK, kernel, pmp, terminal
<1>5. PidsInTurn' /\ TasksUnreaped' /\ NewestEntry' /\ NoStrangers'
  BY <1>1, <1>2, SMTT(60) DEF ChildrenInv, kernel, pmp, PidsInTurn, TasksUnreaped, Own, NewestEntry,
                             NoStrangers, Taken, TasksApart
<1>6. PidsKept' /\ PluginsInUse' /\ Counted' /\ SessionsAgree'
  BY <1>1, <1>2 DEF ChildrenInv, kernel, pmp, terminal, PidsKept, RunKept, SpawnKept, HandlesKept,
                    SessionsHandled, CommandKept, Kept, Taken, PluginsInUse, Counted, SessionsAgree
<1>7. QED
  BY <1>4, <1>5, <1>6 DEF ChildrenInv

\* A query collects one child and brings the entry up to date that has it.
LEMMA StatusKeeps ==
  ASSUME ChildrenInv, NEW id \in DOMAIN tasks, pmp_task_status(id)
  PROVE  ChildrenInv'
<1>1. /\ TypeOK /\ PidsInTurn /\ NewestEntry /\ NoStrangers /\ TasksUnreaped
      /\ PidsKept /\ PluginsInUse /\ Counted /\ SessionsAgree
  BY DEF ChildrenInv
<1>2. PICK r \in Pids : procs[r].st = "zombie" /\ tasks' = Updated(r) /\ procs' = Collected(r)
  BY DEF pmp_task_status, task_reap
<1>3. /\ UNCHANGED <<runs, terminal, shell, world>> /\ Others
      /\ UNCHANGED <<births, last, g_task_seq, writers>>
  BY DEF pmp_task_status, Others
<1>4. PluginsInUse' /\ SessionsAgree' /\ Pids' = Pids
  BY <1>3, OthersAlike
<1>5. /\ procs' \in [Pids -> Proc] /\ procs'[r].st = "free"
      /\ \A q \in Pids \ {r} : procs'[q] = procs[q]
  BY <1>1, <1>2, CollectFacts
<1>6. Fewer
  BY <1>5 DEF Fewer
<1>7. /\ DOMAIN tasks' = DOMAIN tasks
      /\ \A i \in DOMAIN tasks : /\ tasks'[i] \in Task /\ tasks'[i].pid = tasks[i].pid
                                 /\ tasks'[i] # tasks[i] => tasks[i].pid = r
      /\ procs[r].of[1] = "task" =>
           \A i \in DOMAIN tasks :
             procs[r].of = <<"task", i>> /\ tasks[i].pid = r => tasks'[i].state \in {"FINISHED", "FAILED"}
  BY <1>2, UpdateFacts
<1>8. PidsInTurn' /\ NewestEntry' /\ NoStrangers'
  BY <1>1, <1>3, <1>6, <1>7, FewerKnown
<1>9. PidsKept'
  BY <1>1, <1>3, <1>6, FewerHeld
<1>10. TypeOK'
  <2>1. \A i \in DOMAIN tasks' : tasks'[i] \in Task /\ tasks'[i].pid \in Pids
    BY <1>1, <1>7 DEF TypeOK
  <2>2. QED
    BY <1>1, <1>3, <1>4, <1>5, <1>7, <2>1 DEF TypeOK, terminal
<1>11. TasksUnreaped'
  <2>1. SUFFICES ASSUME NEW i \in DOMAIN tasks, tasks'[i].state \in {"RUNNING", "CANCELLED"}
                 PROVE  procs'[tasks[i].pid].st # "free" /\ procs'[tasks[i].pid].of = <<"task", i>>
    BY <1>7 DEF TasksUnreaped, Own
  <2>2. tasks[i].pid \in Pids
    BY <1>1 DEF TypeOK
  <2>3. CASE tasks[i].pid = r
    <3>1. tasks[i].state \in {"RUNNING", "CANCELLED"} => procs[r].of = <<"task", i>>
      BY <1>1, <2>3 DEF TasksUnreaped, Own
    <3>2. tasks[i].state \in {"RUNNING", "CANCELLED"} => procs[r].of[1] = "task"
      BY <3>1
    <3>3. ~(tasks[i].state \in {"RUNNING", "CANCELLED"})
      BY <1>7, <2>1, <2>3, <3>1, <3>2
    <3>4. tasks'[i] # tasks[i]
      BY <2>1, <3>3
    <3>5. tasks'[i].state \in {"FINISHED", "FAILED"}
      BY <1>2, <2>3, <3>4 DEF Updated
    <3>6. QED
      BY <2>1, <3>5
  <2>4. CASE tasks[i].pid # r
    <3>1. tasks'[i] = tasks[i]
      BY <1>7, <2>4
    <3>2. procs[tasks[i].pid].st # "free" /\ procs[tasks[i].pid].of = <<"task", i>>
      BY <1>1, <2>1, <3>1 DEF TasksUnreaped, Own
    <3>3. QED
      BY <1>5, <2>2, <2>4, <3>2
  <2>5. QED
    BY <2>3, <2>4
<1>12. Counted'
  BY <1>1, <1>3 DEF Counted, terminal
<1>13. QED
  BY <1>4, <1>8, <1>9, <1>10, <1>11, <1>12 DEF ChildrenInv

\* Without entries there is nothing to say about them; the processes are still there.
LEMMA DeinitKeeps ==
  ASSUME ChildrenInv, pmp_task_deinit
  PROVE  ChildrenInv'
<1>1. /\ TypeOK /\ PidsInTurn /\ PidsKept /\ Counted
  BY DEF ChildrenInv
<1>2. /\ UNCHANGED <<runs, terminal, shell, world>> /\ Others
      /\ UNCHANGED <<procs, births, last, g_task_seq, writers>>
      /\ tasks' = <<>> /\ DOMAIN tasks' = {}
  BY DEF pmp_task_deinit, Others, kernel
<1>3. PluginsInUse' /\ SessionsAgree' /\ Pids' = Pids
  BY <1>2, OthersAlike
<1>4. TypeOK'
  BY <1>1, <1>2, <1>3 DEF TypeOK, terminal
<1>5. PidsInTurn' /\ NewestEntry' /\ NoStrangers' /\ TasksUnreaped'
  BY <1>1, <1>2, <1>3 DEF PidsInTurn, NewestEntry, NoStrangers, TasksUnreaped, Taken
<1>6. PidsKept'
  <2>1. Fewer
    BY <1>1, <1>2 DEF Fewer, TypeOK
  <2>2. QED
    BY <1>1, <1>2, <2>1, FewerHeld
<1>7. Counted'
  BY <1>1, <1>2 DEF Counted, terminal
<1>8. QED
  BY <1>3, <1>4, <1>5, <1>6, <1>7 DEF ChildrenInv

-----------------------------------------------------------------------------
\* What a plugin other than PMP does to a fork: its process has a pid above those that were given out.
LEMMA OtherForked ==
  ASSUME ChildrenInv, PidsApart(world), NEW kind \in {"run", "term", "shell"}, NEW n \in Nat,
         Fork(kind, n), UNCHANGED <<tasks, world>>, world.plugins # {"pmp"}
  PROVE  \E x \in Pids :
           /\ NextPid = x /\ x = births'
           /\ births \in Nat /\ births' = births + 1 /\ births' \in 0 .. world.forks /\ last' \in 0 .. world.pids
           /\ procs' \in [Pids -> Proc] /\ procs'[x].of = <<kind, n>>
           /\ procs[x].st = "free" /\ ~procs'[x].sig
           /\ \A q \in Pids \ {x} : procs'[q] = procs[q]
           /\ \A q \in Pids : q <= births => procs'[q] = procs[q]
           /\ PidsInTurn' /\ NewestEntry' /\ NoStrangers' /\ TasksUnreaped'
           /\ Inherits(writers) \subseteq 0 .. world.pids + 1
<1>1. TypeOK /\ PidsInTurn /\ writers \subseteq 0 .. world.pids + 1
  BY DEF ChildrenInv, TypeOK
<1>2. PICK x \in Pids :
        /\ NextPid = x /\ procs[x].st = "free"
        /\ births < world.forks /\ births' = births + 1 /\ last' = x
        /\ procs' \in [Pids -> Proc] /\ procs'[x].st = "run" /\ procs'[x].of = <<kind, n>>
        /\ ~procs'[x].sig /\ \A q \in Pids \ {x} : procs'[q] = procs[q]
        /\ world.forks <= world.pids => x = births + 1
  BY <1>1, ForkFacts
<1>3. x = births + 1 /\ \A q \in Pids : q <= births => procs'[q] = procs[q]
  <2>1. world.forks <= world.pids => x = births + 1
    BY <1>2
  <2>2. procs[x].st = "free" /\ \A q \in Pids \ {x} : procs'[q] = procs[q]
    BY <1>2
  <2>3. QED
    BY <2>1, <2>2, ForkBesides
<1>4. PidsInTurn' /\ NewestEntry' /\ NoStrangers' /\ TasksUnreaped'
  BY StrangerForked
<1>5. births \in Nat /\ births' \in 0 .. world.forks /\ last' \in 0 .. world.pids
  BY <1>1, <1>2, Sizes
<1>6. {NextPid} \subseteq 0 .. world.pids + 1
  BY <1>1, <1>2, MayHold
<1>7. Inherits(writers) \subseteq 0 .. world.pids + 1
  BY <1>1, <1>6 DEF Inherits
<1>8. QED
  BY <1>2, <1>3, <1>4, <1>5, <1>7

\* A process that is no task's leaves, and everything that is said of the entries stays.
LEMMA OtherCollected ==
  ASSUME ChildrenInv, NEW p \in Pids, procs' = Collected(p), UNCHANGED <<births, last, tasks, world>>,
         Taken(p) => procs[p].of[1] # "task"
  PROVE  /\ Fewer /\ PidsInTurn' /\ NewestEntry' /\ NoStrangers' /\ TasksUnreaped'
<1>1. TypeOK /\ PidsInTurn /\ NewestEntry /\ NoStrangers /\ TasksUnreaped
  BY DEF ChildrenInv
<1>2. procs' \in [Pids -> Proc] /\ procs'[p].st = "free" /\ \A q \in Pids \ {p} : procs'[q] = procs[q]
  BY <1>1, CollectFacts
<1>3. Fewer
  BY <1>2 DEF Fewer
<1>4. PidsInTurn' /\ NewestEntry' /\ NoStrangers'
  BY <1>1, <1>3, FewerKnown
<1>5. \A q \in Pids : Taken(q) /\ procs[q].of[1] = "task" =>
        procs'[q].st # "free" /\ procs'[q].of = procs[q].of
  BY <1>2 DEF Taken
<1>6. TasksUnreaped'
  BY <1>1, <1>5, LiveKept
<1>7. QED
  BY <1>3, <1>4, <1>6

\* Nor does a signal change what is said of the entries.
LEMMA OtherSignalled ==
  ASSUME ChildrenInv, NEW p \in Pids, procs' = Signalled(p), UNCHANGED <<births, last, tasks, world>>
  PROVE  /\ Fewer /\ PidsInTurn' /\ NewestEntry' /\ NoStrangers' /\ TasksUnreaped'
<1>1. TypeOK /\ PidsInTurn /\ NewestEntry /\ NoStrangers /\ TasksUnreaped
  BY DEF ChildrenInv
<1>2. /\ procs' \in [Pids -> Proc]
      /\ \A q \in Pids : procs'[q].st = procs[q].st /\ procs'[q].of = procs[q].of
  BY <1>1, SignalFacts
<1>3. Fewer
  BY <1>2 DEF Fewer
<1>4. PidsInTurn' /\ NewestEntry' /\ NoStrangers'
  BY <1>1, <1>3, FewerKnown
<1>5. \A q \in Pids : Taken(q) /\ procs[q].of[1] = "task" =>
        procs'[q].st # "free" /\ procs'[q].of = procs[q].of
  BY <1>2 DEF Taken
<1>6. TasksUnreaped'
  BY <1>1, <1>5, LiveKept
<1>7. QED
  BY <1>3, <1>4, <1>6

\* A program that is started for a caller.
LEMMA RunKeeps ==
  ASSUME ChildrenInv, PidsApart(world), run_exec
  PROVE  ChildrenInv'
<1>1. TypeOK /\ PidsKept /\ PluginsInUse /\ Counted /\ SessionsAgree
  BY DEF ChildrenInv
<1>2. /\ UNCHANGED <<tasks, g_task_seq, terminal, shell, world>>
      /\ "runner" \in world.plugins /\ world.plugins # {"pmp"}
      /\ Fork("run", births) /\ births \in Nat /\ writers' = Inherits(writers)
      /\ runs' = [pc |-> "wait", pid |-> NextPid, got |-> "none"]
  BY <1>1, Sizes DEF run_exec, Rest, pmp
<1>3. PICK x \in Pids :
        /\ NextPid = x /\ x = births'
        /\ births' = births + 1 /\ births' \in 0 .. world.forks /\ last' \in 0 .. world.pids
        /\ procs' \in [Pids -> Proc] /\ procs'[x].of = <<"run", births>>
        /\ \A q \in Pids : q <= births => procs'[q] = procs[q]
        /\ PidsInTurn' /\ NewestEntry' /\ NoStrangers' /\ TasksUnreaped'
        /\ Inherits(writers) \subseteq 0 .. world.pids + 1
  BY <1>2, OtherForked
<1>4. Pids' = Pids /\ x \in Nat
  BY <1>1, <1>2, Sizes DEF Pids
<1>5. PidsKept'
  <2>1. /\ births' \in Nat /\ births <= births' /\ world' = world
        /\ \A q \in Pids : q <= births /\ procs'[q].st # "free" =>
             procs[q].st # "free" /\ procs'[q].of = procs[q].of
    <3>1. births' \in Nat /\ births <= births' /\ world' = world
      BY <1>2, <1>3
    <3>2. \A q \in Pids : q <= births => procs'[q] = procs[q]
      BY <1>3
    <3>3. QED
      BY <3>1, <3>2
  <2>2. SpawnKept' /\ HandlesKept' /\ SessionsHandled' /\ CommandKept'
    BY <1>1, <1>2, <2>1, StillHeld DEF terminal
  <2>3. RunKept'
    <3>1. runs'.pid = x /\ x \in Pids' /\ x <= births' /\ procs'[x].of \in {"run"} \X Nat
      <4>1. runs'.pid = x /\ x \in Pids'
        BY <1>2, <1>3, <1>4
      <4>2. x <= births'
        BY <1>3, <1>4
      <4>3. procs'[x].of \in {"run"} \X Nat
        <5>1. births \in Nat
          BY <1>2
        <5>2. <<"run", births>> \in {"run"} \X Nat
          BY <5>1
        <5>3. QED
          BY <1>3, <5>2
      <4>4. QED
        BY <4>1, <4>2, <4>3
    <3>2. QED
      BY <3>1 DEF RunKept, Kept
  <2>4. QED
    BY <2>2, <2>3 DEF PidsKept
<1>6. TypeOK'
  BY <1>1, <1>2, <1>3, <1>4 DEF TypeOK, terminal
<1>7. PluginsInUse' /\ SessionsAgree' /\ Counted'
  BY <1>1, <1>2, <1>3, Sizes DEF PluginsInUse, SessionsAgree, Counted, terminal
<1>8. QED
  BY <1>3, <1>5, <1>6, <1>7 DEF ChildrenInv

\* The caller gets its program's exit code, or that there is no such child.
LEMMA WaitRunKeeps ==
  ASSUME ChildrenInv, WaitRun
  PROVE  ChildrenInv'
<1>1. /\ TypeOK /\ PidsInTurn /\ NewestEntry /\ NoStrangers /\ TasksUnreaped
      /\ PidsKept /\ PluginsInUse /\ Counted /\ SessionsAgree
  BY DEF ChildrenInv
<1>2. /\ UNCHANGED <<tasks, g_task_seq, terminal, shell, world, births, last, writers>>
      /\ runs.pc = "wait"
  BY DEF WaitRun, Rest, pmp
<1>3. PICK p \in Pids : p = runs.pid /\ (Taken(p) => procs[p].of \in {"run"} \X Nat)
  BY <1>1, <1>2 DEF PidsKept, RunKept, Kept
<1>4. /\ runs'.pc = "idle" /\ runs' \in [pc : {"idle", "wait"}, pid : Nat, got : Codes \cup {"none", "ECHILD"}]
      /\ Fewer /\ PidsInTurn' /\ NewestEntry' /\ NoStrangers' /\ TasksUnreaped'
  <2>1. procs \in [Pids -> Proc]
        /\ runs \in [pc : {"idle", "wait"}, pid : Nat, got : Codes \cup {"none", "ECHILD"}]
    BY <1>1 DEF TypeOK
  <2>2. CASE /\ procs[p].st = "zombie" /\ procs' = Collected(p)
             /\ runs' = [runs EXCEPT !.pc = "idle", !.got = procs[p].code]
    <3>1. Taken(p) => procs[p].of[1] # "task"
      BY <1>3
    <3>2. Fewer /\ PidsInTurn' /\ NewestEntry' /\ NoStrangers' /\ TasksUnreaped'
      BY <1>2, <2>2, <3>1, OtherCollected
    <3>3. procs[p].code \in Codes \cup {"none", "ECHILD"}
      BY <2>1 DEF Proc
    <3>4. QED
      BY <2>1, <2>2, <3>2, <3>3
  <2>3. CASE runs' = [runs EXCEPT !.pc = "idle", !.got = "ECHILD"] /\ procs' = procs
    <3>1. Fewer
      BY <2>1, <2>3 DEF Fewer
    <3>2. PidsInTurn' /\ NewestEntry' /\ NoStrangers'
      BY <1>1, <1>2, <3>1, FewerKnown
    <3>3. TasksUnreaped'
      BY <1>1, <1>2, <2>3 DEF TasksUnreaped, Own
    <3>4. QED
      BY <2>1, <2>3, <3>1, <3>2, <3>3
  <2>4. QED
    BY <1>3, <2>2, <2>3 DEF WaitRun
<1>5. Pids' = Pids
  BY <1>2 DEF Pids
<1>6. PidsKept'
  <2>1. /\ births' \in Nat /\ births <= births' /\ world' = world
        /\ \A q \in Pids : q <= births /\ procs'[q].st # "free" =>
             procs[q].st # "free" /\ procs'[q].of = procs[q].of
    BY <1>1, <1>2, <1>4, Sizes DEF Fewer
  <2>2. SpawnKept' /\ HandlesKept' /\ SessionsHandled' /\ CommandKept'
    BY <1>1, <1>2, <2>1, StillHeld DEF terminal
  <2>3. QED
    BY <1>4, <2>2 DEF PidsKept, RunKept
<1>7. TypeOK'
  BY <1>1, <1>2, <1>4, <1>5 DEF TypeOK, terminal, Fewer
<1>8. PluginsInUse' /\ SessionsAgree' /\ Counted'
  BY <1>1, <1>2, <1>4 DEF PluginsInUse, SessionsAgree, Counted, terminal
<1>9. QED
  BY <1>4, <1>6, <1>7, <1>8 DEF ChildrenInv

\* The terminal opens a master.
LEMMA OpenKeeps ==
  ASSUME ChildrenInv, TermOpen
  PROVE  ChildrenInv'
<1>1. /\ TypeOK /\ PidsInTurn /\ NewestEntry /\ NoStrangers /\ TasksUnreaped
      /\ PidsKept /\ PluginsInUse /\ Counted /\ SessionsAgree
  BY DEF ChildrenInv
<1>2. /\ UNCHANGED <<procs, births, last, tasks, g_task_seq, runs, shell, world, sessions, g_seq, handles,
                     writers>>
      /\ "terminal" \in world.plugins /\ term.pc = "idle" /\ g_seq < world.forks
      /\ masters' = masters \cup {g_seq + 1} /\ term' = [term EXCEPT !.pc = "opened"]
  BY DEF TermOpen, Beside, kernel, pmp
<1>3. Pids' = Pids
  BY <1>2 DEF Pids
<1>4. term' \in [pc : {"idle", "opened", "forked", "undo"}, pid : Nat] /\ term'.pc = "opened"
  BY <1>1, <1>2 DEF TypeOK
<1>5. Fewer
  BY <1>1, <1>2 DEF Fewer, TypeOK
<1>6. PidsInTurn' /\ NewestEntry' /\ NoStrangers'
  BY <1>1, <1>2, <1>5, FewerKnown
<1>7. TasksUnreaped'
  BY <1>1, <1>2 DEF TasksUnreaped, Own
<1>8. PidsKept'
  <2>1. births' \in Nat /\ births <= births' /\ world' = world
    BY <1>1, <1>2, Sizes
  <2>2. \A q \in Pids : q <= births /\ procs'[q].st # "free" =>
          procs[q].st # "free" /\ procs'[q].of = procs[q].of
    BY <1>5 DEF Fewer
  <2>3. RunKept' /\ HandlesKept' /\ SessionsHandled' /\ CommandKept'
    BY <1>1, <1>2, <2>1, <2>2, StillHeld
  <2>4. QED
    BY <1>4, <2>3 DEF PidsKept, SpawnKept
<1>9. TypeOK'
  <2>1. masters' \subseteq 1 .. g_seq + 1
    BY <1>1, <1>2, Sizes DEF TypeOK
  <2>2. QED
    BY <1>1, <1>2, <1>3, <1>4, <2>1 DEF TypeOK
<1>10. SessionsAgree'
  BY <1>1, <1>2, <1>4 DEF SessionsAgree
<1>11. PluginsInUse' /\ Counted'
  BY <1>1, <1>2, <1>4 DEF PluginsInUse, Counted
<1>12. QED
  BY <1>6, <1>7, <1>8, <1>9, <1>10, <1>11 DEF ChildrenInv

\* The child of a session, or the way back when there is none.
LEMMA SpawnKeeps ==
  ASSUME ChildrenInv, PidsApart(world), TermFork
  PROVE  ChildrenInv'
<1>1. /\ TypeOK /\ PidsInTurn /\ NewestEntry /\ NoStrangers /\ TasksUnreaped
      /\ PidsKept /\ PluginsInUse /\ Counted /\ SessionsAgree
  BY DEF ChildrenInv
<1>2. /\ UNCHANGED <<tasks, g_task_seq, runs, shell, world, sessions, g_seq, handles>>
      /\ term.pc = "opened" /\ "terminal" \in world.plugins /\ world.plugins # {"pmp"}
      /\ g_seq < world.forks
  BY <1>1 DEF TermFork, Beside, pmp, PluginsInUse, Counted
<1>3. Pids' = Pids /\ g_seq \in Nat
  BY <1>1, <1>2, Sizes DEF Pids
<1>4. CASE /\ Fork("term", g_seq + 1) /\ writers' = Inherits(writers)
           /\ term' = [pc |-> "forked", pid |-> NextPid] /\ UNCHANGED masters
  <2>1. PICK x \in Pids :
          /\ NextPid = x /\ x = births' /\ births \in Nat
          /\ births' = births + 1 /\ births' \in 0 .. world.forks /\ last' \in 0 .. world.pids
          /\ procs' \in [Pids -> Proc] /\ procs'[x].of = <<"term", g_seq + 1>>
          /\ \A q \in Pids : q <= births => procs'[q] = procs[q]
          /\ PidsInTurn' /\ NewestEntry' /\ NoStrangers' /\ TasksUnreaped'
          /\ Inherits(writers) \subseteq 0 .. world.pids + 1
    BY <1>2, <1>3, <1>4, OtherForked
  <2>2. x \in Nat /\ term'.pc = "forked" /\ term'.pid = x
    BY <1>1, <1>4, <2>1, Sizes
  <2>3. PidsKept'
    <3>1. births' \in Nat /\ births <= births' /\ world' = world
      BY <1>2, <2>1
    <3>2. \A q \in Pids : q <= births /\ procs'[q].st # "free" =>
            procs[q].st # "free" /\ procs'[q].of = procs[q].of
      BY <2>1
    <3>3. RunKept' /\ HandlesKept' /\ SessionsHandled' /\ CommandKept'
      BY <1>1, <1>2, <3>1, <3>2, StillHeld
    <3>4. x \in Pids' /\ x <= births' /\ procs'[x].of \in {<<"term", g_seq' + 1>>}
      <4>1. x \in Pids'
        BY <1>3
      <4>2. x <= births'
        BY <2>1, <2>2
      <4>3. procs'[x].of \in {<<"term", g_seq' + 1>>}
        BY <1>2, <2>1
      <4>4. QED
        BY <4>1, <4>2, <4>3
    <3>5. SpawnKept'
      BY <2>2, <3>4 DEF SpawnKept, Kept
    <3>6. QED
      BY <3>3, <3>5 DEF PidsKept
  <2>4. TypeOK'
    BY <1>1, <1>2, <1>3, <1>4, <2>1, <2>2 DEF TypeOK
  <2>5. SessionsAgree' /\ PluginsInUse'
    BY <1>1, <1>2, <1>4, <2>2 DEF SessionsAgree, PluginsInUse
  <2>6. Counted'
    BY <1>1, <1>2, <2>1, Sizes DEF Counted
  <2>7. QED
    BY <2>1, <2>3, <2>4, <2>5, <2>6 DEF ChildrenInv
<1>5. CASE /\ term' = [term EXCEPT !.pc = "idle"] /\ masters' = masters \ {g_seq + 1}
           /\ UNCHANGED <<procs, births, last, writers>>
  <2>1. term' \in [pc : {"idle", "opened", "forked", "undo"}, pid : Nat] /\ term'.pc = "idle"
    BY <1>1, <1>5 DEF TypeOK
  <2>2. Fewer
    BY <1>1, <1>5 DEF Fewer, TypeOK
  <2>3. PidsInTurn' /\ NewestEntry' /\ NoStrangers'
    BY <1>1, <1>2, <1>5, <2>2, FewerKnown
  <2>4. TasksUnreaped'
    BY <1>1, <1>2, <1>5 DEF TasksUnreaped, Own
  <2>5. PidsKept'
    <3>1. births' \in Nat /\ births <= births' /\ world' = world
      BY <1>1, <1>2, <1>5, Sizes
    <3>2. \A q \in Pids : q <= births /\ procs'[q].st # "free" =>
            procs[q].st # "free" /\ procs'[q].of = procs[q].of
      BY <2>2 DEF Fewer
    <3>3. RunKept' /\ HandlesKept' /\ SessionsHandled' /\ CommandKept'
      BY <1>1, <1>2, <3>1, <3>2, StillHeld
    <3>4. QED
      BY <2>1, <3>3 DEF PidsKept, SpawnKept
  <2>6. TypeOK'
    BY <1>1, <1>2, <1>3, <1>5, <2>1 DEF TypeOK
  <2>7. SessionsAgree'
    <3>1. DOMAIN sessions \subseteq 1 .. g_seq /\ g_seq + 1 \notin DOMAIN sessions
      BY <1>1, <1>3 DEF TypeOK
    <3>2. masters' = DOMAIN sessions
      BY <1>1, <1>2, <1>5, <3>1 DEF SessionsAgree
    <3>3. QED
      BY <1>1, <1>2, <2>1, <3>2 DEF SessionsAgree
  <2>8. PluginsInUse' /\ Counted'
    BY <1>1, <1>2, <1>5, <2>1 DEF PluginsInUse, Counted
  <2>9. QED
    BY <2>3, <2>4, <2>5, <2>6, <2>7, <2>8 DEF ChildrenInv
<1>6. QED
  BY <1>4, <1>5 DEF TermFork, kernel

\* A session gets its id, its entry and its handle together, or its child is told to end.
LEMMA RegisterKeeps ==
  ASSUME ChildrenInv, TermRegister
  PROVE  ChildrenInv'
<1>1. /\ TypeOK /\ PidsInTurn /\ NewestEntry /\ NoStrangers /\ TasksUnreaped
      /\ PidsKept /\ PluginsInUse /\ Counted /\ SessionsAgree
  BY DEF ChildrenInv
<1>2. /\ UNCHANGED <<tasks, g_task_seq, runs, shell, world, births, last, masters, writers>>
      /\ term.pc = "forked" /\ "terminal" \in world.plugins /\ g_seq < world.forks
  BY <1>1 DEF TermRegister, Beside, pmp, PluginsInUse, Counted
<1>3. Pids' = Pids /\ g_seq \in Nat /\ world.forks \in Nat
  BY <1>1, <1>2, Sizes DEF Pids
<1>4. PICK p \in Pids : p = term.pid /\ p <= births /\ (Taken(p) => procs[p].of \in {<<"term", g_seq + 1>>})
  BY <1>1, <1>2 DEF PidsKept, SpawnKept, Kept
<1>5. births' \in Nat /\ births <= births' /\ world' = world
  BY <1>1, <1>2, Sizes
<1>6. CASE /\ g_seq' = g_seq + 1 /\ sessions' = Added(sessions, g_seq', p)
           /\ handles' = Added(handles, g_seq', [pid |-> p, state |-> "ACTIVE"])
           /\ term' = [pc |-> "idle", pid |-> 0] /\ procs' = procs
  <2>1. PICK h : h = [pid |-> p, state |-> "ACTIVE"]
    OBVIOUS
  <2>2. PICK n : n = g_seq + 1
    OBVIOUS
  <2>3. /\ DOMAIN handles = 1 .. g_seq /\ DOMAIN sessions \subseteq 1 .. g_seq
        /\ n \notin DOMAIN handles /\ n \notin DOMAIN sessions /\ n \in Nat /\ g_seq' = n
        /\ \A i \in DOMAIN handles : i # n
    BY <1>1, <1>3, <1>6, <2>2 DEF TypeOK
  <2>4. /\ DOMAIN handles' = DOMAIN handles \cup {n} /\ handles'[n] = h
        /\ \A i \in DOMAIN handles : handles'[i] = handles[i]
        /\ DOMAIN sessions' = DOMAIN sessions \cup {n} /\ sessions'[n] = p
        /\ \A i \in DOMAIN sessions : sessions'[i] = sessions[i]
    BY <1>6, <2>1, <2>2, <2>3 DEF Added
  <2>5. h \in [pid : Pids, state : {"ACTIVE", "CLOSED"}] /\ h.pid = p /\ h.state = "ACTIVE"
    BY <2>1
  <2>6. Fewer
    BY <1>1, <1>6 DEF Fewer, TypeOK
  <2>7. PidsInTurn' /\ NewestEntry' /\ NoStrangers'
    BY <1>1, <1>2, <1>6, <2>6, FewerKnown
  <2>8. TasksUnreaped'
    BY <1>1, <1>2, <1>6 DEF TasksUnreaped, Own
  <2>9. PidsKept'
    <3>1. \A q \in Pids : q <= births /\ procs'[q].st # "free" =>
            procs[q].st # "free" /\ procs'[q].of = procs[q].of
      BY <2>6 DEF Fewer
    <3>2. RunKept' /\ CommandKept'
      BY <1>1, <1>2, <1>5, <3>1, StillHeld
    <3>3. SpawnKept'
      BY <1>6 DEF SpawnKept
    <3>4. HandlesKept'
      <4>1. SUFFICES ASSUME NEW i \in DOMAIN handles'
                     PROVE  /\ handles'[i].pid \in Pids /\ handles'[i].pid <= births
                            /\ procs[handles'[i].pid].st # "free" =>
                                 procs[handles'[i].pid].of \in {<<"term", i>>}
        BY <1>2, <1>3, <1>6 DEF HandlesKept, Kept, Taken
      <4>2. CASE i = n
        BY <1>4, <2>2, <2>4, <2>5, <4>2 DEF Taken
      <4>3. CASE i # n
        BY <1>1, <2>4, <4>1, <4>3 DEF PidsKept, HandlesKept, Kept, Taken
      <4>4. QED
        BY <4>2, <4>3
    <3>5. SessionsHandled'
      BY <1>1, <2>4, <2>5 DEF PidsKept, SessionsHandled
    <3>6. QED
      BY <3>2, <3>3, <3>4, <3>5 DEF PidsKept
  <2>10. TypeOK'
    <3>1. g_seq' \in 0 .. world.forks /\ DOMAIN handles' = 1 .. g_seq' /\ DOMAIN sessions' \subseteq 1 .. g_seq'
      <4>1. n \in 0 .. world.forks /\ (1 .. g_seq) \cup {n} = 1 .. n
        BY <1>2, <1>3, <2>2
      <4>2. QED
        BY <2>3, <2>4, <4>1
    <3>2. \A i \in DOMAIN handles' : handles'[i] \in [pid : Pids, state : {"ACTIVE", "CLOSED"}]
      BY <1>1, <2>4, <2>5 DEF TypeOK
    <3>3. masters' \subseteq 1 .. g_seq' + 1
      <4>1. masters \subseteq 1 .. n /\ 1 .. n \subseteq 1 .. n + 1
        BY <1>1, <2>2, <2>3 DEF TypeOK
      <4>2. QED
        BY <1>2, <2>3, <4>1
    <3>4. term' \in [pc : {"idle", "opened", "forked", "undo"}, pid : Nat]
      BY <1>6
    <3>5. QED
      BY <1>1, <1>2, <1>3, <1>6, <3>1, <3>2, <3>3, <3>4 DEF TypeOK
  <2>11. SessionsAgree'
    <3>1. /\ DOMAIN sessions = {i \in DOMAIN handles : handles[i].state = "ACTIVE"}
          /\ masters = DOMAIN sessions \cup {n}
      BY <1>1, <1>2, <2>2 DEF SessionsAgree
    <3>2. DOMAIN sessions' = {i \in DOMAIN handles' : handles'[i].state = "ACTIVE"}
      BY <2>3, <2>4, <2>5, <3>1
    <3>3. masters' = DOMAIN sessions' /\ term'.pc = "idle"
      BY <1>2, <1>6, <2>4, <3>1
    <3>4. QED
      BY <3>2, <3>3 DEF SessionsAgree
  <2>12. PluginsInUse' /\ Counted'
    BY <1>1, <1>2, <1>6 DEF PluginsInUse, Counted
  <2>13. QED
    BY <2>7, <2>8, <2>9, <2>10, <2>11, <2>12 DEF ChildrenInv
<1>7. CASE /\ procs' = Signalled(p) /\ term' = [term EXCEPT !.pc = "undo"]
           /\ UNCHANGED <<g_seq, sessions, handles>>
  <2>1. /\ term' \in [pc : {"idle", "opened", "forked", "undo"}, pid : Nat] /\ term'.pc = "undo"
        /\ term'.pid = p
    BY <1>1, <1>4, <1>7 DEF TypeOK
  <2>2. Fewer /\ PidsInTurn' /\ NewestEntry' /\ NoStrangers' /\ TasksUnreaped'
    BY <1>2, <1>7, OtherSignalled
  <2>3. PidsKept'
    <3>1. \A q \in Pids : q <= births /\ procs'[q].st # "free" =>
            procs[q].st # "free" /\ procs'[q].of = procs[q].of
      BY <2>2 DEF Fewer
    <3>2. RunKept' /\ CommandKept' /\ HandlesKept' /\ SessionsHandled'
      BY <1>1, <1>2, <1>5, <1>7, <3>1, StillHeld
    <3>3. procs'[p].st # "free" => procs'[p].of \in {<<"term", g_seq + 1>>}
      BY <1>4, <3>1 DEF Taken
    <3>4. SpawnKept'
      BY <1>2, <1>3, <1>4, <1>7, <2>1, <3>3 DEF SpawnKept, Kept, Taken
    <3>5. QED
      BY <3>2, <3>4 DEF PidsKept
  <2>4. TypeOK'
    BY <1>1, <1>2, <1>3, <1>7, <2>1, <2>2 DEF TypeOK, Fewer
  <2>5. SessionsAgree'
    BY <1>1, <1>2, <1>7, <2>1 DEF SessionsAgree
  <2>6. PluginsInUse' /\ Counted'
    BY <1>1, <1>2, <1>7, <2>1 DEF PluginsInUse, Counted
  <2>7. QED
    BY <2>2, <2>3, <2>4, <2>5, <2>6 DEF ChildrenInv
<1>8. QED
  BY <1>4, <1>6, <1>7 DEF TermRegister

\* The way back from a session without memory: its child is collected, its master closed.
LEMMA UndoKeeps ==
  ASSUME ChildrenInv, TermUndo
  PROVE  ChildrenInv'
<1>1. /\ TypeOK /\ PidsKept /\ PluginsInUse /\ Counted /\ SessionsAgree
  BY DEF ChildrenInv
<1>2. /\ UNCHANGED <<tasks, g_task_seq, runs, shell, world, births, last, sessions, g_seq, handles, writers>>
      /\ term.pc = "undo" /\ procs' = Collected(term.pid)
      /\ masters' = masters \ {g_seq + 1} /\ term' = [pc |-> "idle", pid |-> 0]
  BY DEF TermUndo, Beside, pmp
<1>3. Pids' = Pids /\ g_seq \in Nat
  BY <1>1, <1>2, Sizes DEF Pids
<1>4. PICK p \in Pids : p = term.pid /\ (Taken(p) => procs[p].of \in {<<"term", g_seq + 1>>})
  BY <1>1, <1>2 DEF PidsKept, SpawnKept, Kept
<1>5. Fewer /\ PidsInTurn' /\ NewestEntry' /\ NoStrangers' /\ TasksUnreaped'
  <2>1. procs' = Collected(p) /\ (Taken(p) => procs[p].of[1] # "task")
    BY <1>2, <1>4
  <2>2. QED
    BY <1>2, <2>1, OtherCollected
<1>6. PidsKept'
  <2>1. births' \in Nat /\ births <= births' /\ world' = world
    BY <1>1, <1>2, Sizes
  <2>2. \A q \in Pids : q <= births /\ procs'[q].st # "free" =>
          procs[q].st # "free" /\ procs'[q].of = procs[q].of
    BY <1>5 DEF Fewer
  <2>3. RunKept' /\ HandlesKept' /\ SessionsHandled' /\ CommandKept'
    BY <1>1, <1>2, <2>1, <2>2, StillHeld
  <2>4. QED
    BY <1>2, <2>3 DEF PidsKept, SpawnKept
<1>7. TypeOK'
  BY <1>1, <1>2, <1>3, <1>5 DEF TypeOK, Fewer
<1>8. SessionsAgree'
  <2>1. DOMAIN sessions \subseteq 1 .. g_seq /\ g_seq + 1 \notin DOMAIN sessions
    BY <1>1, <1>3 DEF TypeOK
  <2>2. masters' = DOMAIN sessions /\ term'.pc = "idle"
    BY <1>1, <1>2, <2>1 DEF SessionsAgree
  <2>3. QED
    BY <1>1, <1>2, <2>2 DEF SessionsAgree
<1>9. PluginsInUse' /\ Counted'
  BY <1>1, <1>2 DEF PluginsInUse, Counted
<1>10. QED
  BY <1>5, <1>6, <1>7, <1>8, <1>9 DEF ChildrenInv

\* Closing a session, or a second time the handle of one.
LEMMA CloseKeeps ==
  ASSUME ChildrenInv, NEW n \in DOMAIN handles, term_close(n)
  PROVE  ChildrenInv'
<1>1. /\ TypeOK /\ PidsKept /\ PluginsInUse /\ Counted /\ SessionsAgree
  BY DEF ChildrenInv
<1>2. /\ UNCHANGED <<tasks, g_task_seq, runs, shell, world, births, last, term, g_seq, writers>>
      /\ masters' = masters \ {n}
      /\ sessions' = [m \in DOMAIN sessions \ {n} |-> sessions[m]]
      /\ handles' = [handles EXCEPT ![n].state = "CLOSED"]
  BY DEF term_close, Beside, pmp
<1>3. Pids' = Pids /\ g_seq \in Nat
  BY <1>1, <1>2, Sizes DEF Pids
<1>4. PICK p \in Pids : p = handles[n].pid /\ (Taken(p) => procs[p].of \in {<<"term", n>>})
  BY <1>1 DEF PidsKept, HandlesKept, Kept
<1>5. Fewer /\ PidsInTurn' /\ NewestEntry' /\ NoStrangers' /\ TasksUnreaped'
  <2>1. Taken(p) => procs[p].of[1] # "task"
    BY <1>4
  <2>2. procs' = Collected(p) \/ procs' = Signalled(p)
    BY <1>4 DEF term_close
  <2>3. CASE procs' = Collected(p)
    BY <1>2, <2>1, <2>3, OtherCollected
  <2>4. CASE procs' = Signalled(p)
    BY <1>2, <2>4, OtherSignalled
  <2>5. QED
    BY <2>2, <2>3, <2>4
<1>6. PICK h : h = [handles[n] EXCEPT !.state = "CLOSED"]
  OBVIOUS
<1>7. /\ h \in [pid : Pids, state : {"ACTIVE", "CLOSED"}] /\ h.pid = handles[n].pid /\ h.state = "CLOSED"
      /\ handles' = [handles EXCEPT ![n] = h]
  BY <1>1, <1>2, <1>6 DEF TypeOK
<1>8. /\ DOMAIN handles' = DOMAIN handles /\ handles'[n] = h
      /\ \A i \in DOMAIN handles \ {n} : handles'[i] = handles[i]
      /\ DOMAIN sessions' = DOMAIN sessions \ {n}
      /\ \A i \in DOMAIN sessions \ {n} : sessions'[i] = sessions[i]
  BY <1>2, <1>7
<1>9. PidsKept'
  <2>1. births' \in Nat /\ births <= births' /\ world' = world
    BY <1>1, <1>2, Sizes
  <2>2. \A q \in Pids : q <= births /\ procs'[q].st # "free" =>
          procs[q].st # "free" /\ procs'[q].of = procs[q].of
    BY <1>5 DEF Fewer
  <2>3. RunKept' /\ SpawnKept' /\ CommandKept'
    BY <1>1, <1>2, <2>1, <2>2, StillHeld
  <2>4. HandlesKept'
    <3>1. SUFFICES ASSUME NEW i \in DOMAIN handles
                   PROVE  /\ handles[i].pid \in Pids /\ handles[i].pid <= births
                          /\ procs'[handles[i].pid].st # "free" =>
                               procs'[handles[i].pid].of \in {<<"term", i>>}
      <4>1. \A i \in DOMAIN handles : handles'[i].pid = handles[i].pid
        BY <1>7, <1>8
      <4>2. QED
        BY <1>2, <1>3, <1>8, <4>1 DEF HandlesKept, Kept, Taken
    <3>2. QED
      BY <1>1, <2>2 DEF PidsKept, HandlesKept, Kept, Taken
  <2>5. SessionsHandled'
    BY <1>1, <1>7, <1>8 DEF PidsKept, SessionsHandled
  <2>6. QED
    BY <2>3, <2>4, <2>5 DEF PidsKept
<1>10. TypeOK'
  <2>1. \A i \in DOMAIN handles' : handles'[i] \in [pid : Pids, state : {"ACTIVE", "CLOSED"}]
    BY <1>1, <1>7, <1>8 DEF TypeOK
  <2>2. DOMAIN handles' = 1 .. g_seq' /\ DOMAIN sessions' \subseteq 1 .. g_seq' /\ masters' \subseteq 1 .. g_seq' + 1
    BY <1>1, <1>2, <1>8 DEF TypeOK
  <2>3. QED
    BY <1>1, <1>2, <1>3, <1>5, <2>1, <2>2 DEF TypeOK, Fewer
<1>11. SessionsAgree'
  <2>1. n # g_seq + 1
    BY <1>1, <1>3 DEF TypeOK
  <2>2. DOMAIN sessions' = {i \in DOMAIN handles' : handles'[i].state = "ACTIVE"}
    BY <1>1, <1>7, <1>8 DEF SessionsAgree
  <2>3. masters' = DOMAIN sessions' \cup (IF term'.pc = "idle" THEN {} ELSE {g_seq' + 1})
    BY <1>1, <1>2, <1>8, <2>1 DEF SessionsAgree
  <2>4. QED
    BY <2>2, <2>3 DEF SessionsAgree
<1>12. PluginsInUse' /\ Counted'
  BY <1>1, <1>2 DEF PluginsInUse, Counted
<1>13. QED
  BY <1>5, <1>9, <1>10, <1>11, <1>12 DEF ChildrenInv

\* Asking for a session's state collects its child if it has ended.
LEMMA SessionStatusKeeps ==
  ASSUME ChildrenInv, NEW n \in DOMAIN handles, term_status(n)
  PROVE  ChildrenInv'
<1>1. /\ TypeOK /\ PidsKept /\ PluginsInUse /\ Counted /\ SessionsAgree
  BY DEF ChildrenInv
<1>2. /\ UNCHANGED <<tasks, g_task_seq, runs, shell, world, births, last, terminal, writers>>
      /\ n \in DOMAIN sessions /\ procs' = Collected(sessions[n])
  BY DEF term_status, Beside, pmp
<1>3. Pids' = Pids
  BY <1>2 DEF Pids
<1>4. PICK p \in Pids : p = sessions[n] /\ (Taken(p) => procs[p].of \in {<<"term", n>>})
  <2>1. sessions[n] = handles[n].pid
    BY <1>1, <1>2 DEF PidsKept, SessionsHandled
  <2>2. QED
    BY <1>1, <2>1 DEF PidsKept, HandlesKept, Kept
<1>5. Fewer /\ PidsInTurn' /\ NewestEntry' /\ NoStrangers' /\ TasksUnreaped'
  <2>1. procs' = Collected(p) /\ (Taken(p) => procs[p].of[1] # "task")
    BY <1>2, <1>4
  <2>2. QED
    BY <1>2, <2>1, OtherCollected
<1>6. PidsKept'
  BY <1>1, <1>2, <1>5, FewerHeld
<1>7. TypeOK'
  BY <1>1, <1>2, <1>3, <1>5 DEF TypeOK, Fewer, terminal
<1>8. SessionsAgree' /\ PluginsInUse' /\ Counted'
  BY <1>1, <1>2 DEF SessionsAgree, PluginsInUse, Counted, terminal
<1>9. QED
  BY <1>5, <1>6, <1>7, <1>8 DEF ChildrenInv

-----------------------------------------------------------------------------
\* The command of the shell gets its process.
LEMMA CommandKeeps ==
  ASSUME ChildrenInv, PidsApart(world), ShellFork
  PROVE  ChildrenInv'
<1>1. /\ TypeOK /\ PidsInTurn /\ NewestEntry /\ NoStrangers /\ TasksUnreaped
      /\ PidsKept /\ PluginsInUse /\ Counted /\ SessionsAgree
  BY DEF ChildrenInv
<1>2. /\ UNCHANGED <<tasks, g_task_seq, runs, terminal, world>>
      /\ shell.pc = "piped" /\ "shell" \in world.plugins /\ world.plugins # {"pmp"}
      /\ births \in Nat
  BY <1>1, Sizes DEF ShellFork, Apart, pmp, PluginsInUse
<1>3. Pids' = Pids
  BY <1>2 DEF Pids
<1>4. CASE /\ Fork("shell", births) /\ writers' = Inherits(writers)
           /\ shell' = [pc |-> "forked", pid |-> NextPid]
  <2>1. PICK x \in Pids :
          /\ NextPid = x /\ x = births'
          /\ births' = births + 1 /\ births' \in 0 .. world.forks /\ last' \in 0 .. world.pids
          /\ procs' \in [Pids -> Proc] /\ procs'[x].of = <<"shell", births>>
          /\ \A q \in Pids : q <= births => procs'[q] = procs[q]
          /\ PidsInTurn' /\ NewestEntry' /\ NoStrangers' /\ TasksUnreaped'
          /\ Inherits(writers) \subseteq 0 .. world.pids + 1
    BY <1>2, <1>4, OtherForked
  <2>2. x \in Nat /\ shell'.pc = "forked" /\ shell'.pid = x
    BY <1>1, <1>4, <2>1, Sizes
  <2>3. PidsKept'
    <3>1. births' \in Nat /\ births <= births' /\ world' = world
      BY <1>2, <2>1
    <3>2. \A q \in Pids : q <= births /\ procs'[q].st # "free" =>
            procs[q].st # "free" /\ procs'[q].of = procs[q].of
      BY <2>1
    <3>3. RunKept' /\ SpawnKept' /\ HandlesKept' /\ SessionsHandled'
      BY <1>1, <1>2, <3>1, <3>2, StillHeld DEF terminal
    <3>4. x \in Pids'
      BY <1>3
    <3>5. x <= births'
      BY <2>1, <2>2
    <3>6. procs'[x].of \in {"shell"} \X Nat
      <4>1. births \in Nat
        BY <1>2
      <4>2. <<"shell", births>> \in {"shell"} \X Nat
        BY <4>1
      <4>3. QED
        BY <2>1, <4>2
    <3>7. CommandKept'
      BY <2>2, <3>4, <3>5, <3>6 DEF CommandKept, Kept
    <3>8. QED
      BY <3>3, <3>7 DEF PidsKept
  <2>4. TypeOK'
    BY <1>1, <1>2, <1>3, <1>4, <2>1, <2>2 DEF TypeOK, terminal
  <2>5. SessionsAgree' /\ PluginsInUse'
    BY <1>1, <1>2, <1>4, <2>2 DEF SessionsAgree, PluginsInUse, terminal
  <2>6. Counted'
    BY <1>1, <1>2, <2>1, Sizes DEF Counted, terminal
  <2>7. QED
    BY <2>1, <2>3, <2>4, <2>5, <2>6 DEF ChildrenInv
<1>5. CASE shell' = [shell EXCEPT !.pc = "idle"] /\ writers' = {} /\ UNCHANGED <<procs, births, last>>
  <2>1. shell' \in [pc : {"idle", "piped", "forked", "read", "wait"}, pid : Nat] /\ shell'.pc = "idle"
    BY <1>1, <1>5 DEF TypeOK
  <2>2. Fewer
    BY <1>1, <1>5 DEF Fewer, TypeOK
  <2>3. PidsInTurn' /\ NewestEntry' /\ NoStrangers'
    BY <1>1, <1>2, <1>5, <2>2, FewerKnown
  <2>4. TasksUnreaped'
    BY <1>1, <1>2, <1>5 DEF TasksUnreaped, Own
  <2>5. PidsKept'
    <3>1. births' \in Nat /\ births <= births' /\ world' = world
      BY <1>1, <1>2, <1>5, Sizes
    <3>2. \A q \in Pids : q <= births /\ procs'[q].st # "free" =>
            procs[q].st # "free" /\ procs'[q].of = procs[q].of
      BY <2>2 DEF Fewer
    <3>3. RunKept' /\ SpawnKept' /\ HandlesKept' /\ SessionsHandled'
      BY <1>1, <1>2, <3>1, <3>2, StillHeld DEF terminal
    <3>4. QED
      BY <2>1, <3>3 DEF PidsKept, CommandKept
  <2>6. TypeOK'
    BY <1>1, <1>2, <1>3, <1>5, <2>1 DEF TypeOK, terminal
  <2>7. SessionsAgree' /\ PluginsInUse' /\ Counted'
    BY <1>1, <1>2, <1>5, <2>1 DEF SessionsAgree, PluginsInUse, Counted, terminal
  <2>8. QED
    BY <2>3, <2>4, <2>5, <2>6, <2>7 DEF ChildrenInv
<1>6. QED
  BY <1>4, <1>5 DEF ShellFork, kernel

\* The other steps of a command start nothing, and the last collects its own child.
LEMMA ShellKeeps ==
  ASSUME ChildrenInv, ShellPipe \/ ShellClose \/ ShellRead \/ ShellWait
  PROVE  ChildrenInv'
<1>1. /\ TypeOK /\ PidsInTurn /\ NewestEntry /\ NoStrangers /\ TasksUnreaped
      /\ PidsKept /\ PluginsInUse /\ Counted /\ SessionsAgree
  BY DEF ChildrenInv
<1>2. UNCHANGED <<tasks, g_task_seq, runs, terminal, world, births, last>>
  BY DEF ShellPipe, ShellClose, ShellRead, ShellWait, Apart, kernel, pmp
<1>3. Pids' = Pids
  BY <1>2 DEF Pids
<1>4. writers' \subseteq 0 .. world.pids + 1
  <2>1. {BUS} \subseteq 0 .. world.pids + 1
    BY <1>1, MayHold
  <2>2. writers' \subseteq writers \cup {BUS}
    BY DEF ShellPipe, ShellClose, ShellRead, ShellWait
  <2>3. QED
    BY <1>1, <2>1, <2>2 DEF TypeOK
<1>5. /\ shell' \in [pc : {"idle", "piped", "forked", "read", "wait"}, pid : Nat]
      /\ shell'.pc # "idle" => "shell" \in world.plugins
  BY <1>1 DEF TypeOK, PluginsInUse, ShellPipe, ShellClose, ShellRead, ShellWait
<1>6. Fewer /\ PidsInTurn' /\ NewestEntry' /\ NoStrangers' /\ TasksUnreaped'
  <2>1. CASE ShellWait
    <3>1. procs' = Collected(shell.pid) /\ shell.pc = "wait"
      BY <2>1 DEF ShellWait
    <3>2. PICK p \in Pids : p = shell.pid /\ (Taken(p) => procs[p].of \in {"shell"} \X Nat)
      BY <1>1, <3>1 DEF PidsKept, CommandKept, Kept
    <3>3. procs' = Collected(p) /\ (Taken(p) => procs[p].of[1] # "task")
      BY <3>1, <3>2
    <3>4. QED
      BY <1>2, <3>3, OtherCollected
  <2>2. CASE UNCHANGED procs
    <3>1. Fewer
      BY <1>1, <2>2 DEF Fewer, TypeOK
    <3>2. PidsInTurn' /\ NewestEntry' /\ NoStrangers'
      BY <1>1, <1>2, <3>1, FewerKnown
    <3>3. TasksUnreaped'
      BY <1>1, <1>2, <2>2 DEF TasksUnreaped, Own
    <3>4. QED
      BY <3>1, <3>2, <3>3
  <2>3. QED
    BY <2>1, <2>2 DEF ShellPipe, ShellClose, ShellRead, kernel
<1>7. PidsKept'
  <2>1. births' \in Nat /\ births <= births' /\ world' = world
    BY <1>1, <1>2, Sizes
  <2>2. \A q \in Pids : q <= births /\ procs'[q].st # "free" =>
          procs[q].st # "free" /\ procs'[q].of = procs[q].of
    BY <1>6 DEF Fewer
  <2>3. RunKept' /\ SpawnKept' /\ HandlesKept' /\ SessionsHandled'
    BY <1>1, <1>2, <2>1, <2>2, StillHeld DEF terminal
  <2>4. CommandKept'
    <3>1. shell'.pc \in {"forked", "read", "wait"} =>
            shell.pc \in {"forked", "read", "wait"} /\ shell'.pid = shell.pid
      BY <1>1 DEF TypeOK, ShellPipe, ShellClose, ShellRead, ShellWait
    <3>2. shell.pc \in {"forked", "read", "wait"} =>
            /\ shell.pid \in Pids /\ shell.pid <= births
            /\ procs'[shell.pid].st # "free" => procs'[shell.pid].of \in {"shell"} \X Nat
      BY <1>1, <2>2 DEF PidsKept, CommandKept, Kept, Taken
    <3>3. QED
      BY <1>2, <1>3, <3>1, <3>2 DEF CommandKept, Kept, Taken
  <2>5. QED
    BY <2>3, <2>4 DEF PidsKept
<1>8. TypeOK'
  BY <1>1, <1>2, <1>3, <1>4, <1>5, <1>6 DEF TypeOK, Fewer, terminal
<1>9. SessionsAgree' /\ PluginsInUse' /\ Counted'
  BY <1>1, <1>2, <1>5 DEF SessionsAgree, PluginsInUse, Counted, terminal
<1>10. QED
  BY <1>6, <1>7, <1>8, <1>9 DEF ChildrenInv

-----------------------------------------------------------------------------
\* At the start there are no children and nobody holds anything.
LEMMA ChildrenStart ==
  Init => ChildrenInv
<1>1. SUFFICES ASSUME Init PROVE ChildrenInv
  OBVIOUS
<1>2. /\ world \in Worlds /\ world.pids \in Nat \ {0} /\ world.forks \in Nat
      /\ procs = [p \in Pids |-> NoProcess] /\ births = 0 /\ last = 0 /\ DOMAIN tasks = {}
      /\ g_task_seq = 0 /\ runs.pc = "idle" /\ term.pc = "idle" /\ DOMAIN sessions = {} /\ g_seq = 0
      /\ DOMAIN handles = {} /\ masters = {} /\ shell.pc = "idle" /\ writers = {}
  BY <1>1, ProcessAssumption DEF Init
<1>3. NoProcess \in Proc /\ \A p \in Pids : procs[p].st = "free"
  BY <1>2 DEF NoProcess, Proc
<1>4. TypeOK
  <2>1. /\ births \in 0 .. world.forks /\ last \in 0 .. world.pids /\ g_task_seq \in 0 .. world.forks
        /\ g_seq \in 0 .. world.forks /\ DOMAIN handles = 1 .. g_seq
    BY <1>2
  <2>2. /\ runs \in [pc : {"idle", "wait"}, pid : Nat, got : Codes \cup {"none", "ECHILD"}]
        /\ term \in [pc : {"idle", "opened", "forked", "undo"}, pid : Nat]
        /\ shell \in [pc : {"idle", "piped", "forked", "read", "wait"}, pid : Nat]
    BY <1>1 DEF Init
  <2>3. procs \in [Pids -> Proc]
    BY <1>2, <1>3
  <2>4. QED
    BY <1>2, <2>1, <2>2, <2>3 DEF TypeOK
<1>5. PidsInTurn /\ TasksUnreaped /\ NewestEntry /\ NoStrangers
  BY <1>2, <1>3 DEF PidsInTurn, TasksUnreaped, NewestEntry, NoStrangers, Taken
<1>6. PidsKept /\ PluginsInUse
  BY <1>2 DEF PidsKept, RunKept, SpawnKept, HandlesKept, SessionsHandled, CommandKept, PluginsInUse
<1>7. Counted /\ SessionsAgree
  BY <1>2 DEF Counted, SessionsAgree
<1>8. QED
  BY <1>4, <1>5, <1>6, <1>7 DEF ChildrenInv

\* Every step keeps what the plugins know of their children.
LEMMA ChildrenStep ==
  ASSUME ChildrenInv, PidsApart(world), [Next]_vars
  PROVE  ChildrenInv'
<1>1. CASE Tasks
  BY <1>1, SubmitKeeps, DeinitKeeps, CancelKeeps, StatusKeeps, StopKeeps DEF Tasks
<1>2. CASE Runs
  BY <1>2, RunKeeps, WaitRunKeeps DEF Runs
<1>3. CASE Terminals
  BY <1>3, OpenKeeps, SpawnKeeps, RegisterKeeps, UndoKeeps, CloseKeeps, SessionStatusKeeps DEF Terminals
<1>4. CASE ShellSteps
  BY <1>4, CommandKeeps, ShellKeeps DEF ShellSteps
<1>5. CASE Ends
  BY <1>5, ExitKeeps DEF Ends
<1>6. CASE UNCHANGED vars
  <2>1. Pids' = Pids
    BY <1>6 DEF vars, Pids
  <2>2. TypeOK' /\ PidsInTurn' /\ TasksUnreaped' /\ NewestEntry' /\ NoStrangers'
    BY <1>6, <2>1, SMTT(60) DEF ChildrenInv, vars, TypeOK, PidsInTurn, TasksUnreaped, Own, NewestEntry, NoStrangers,
                      Taken, TasksApart
  <2>3. PidsKept' /\ PluginsInUse' /\ Counted' /\ SessionsAgree'
    BY <1>6, <2>1 DEF ChildrenInv, vars, PidsKept, RunKept, SpawnKept, HandlesKept, SessionsHandled,
                      CommandKept, Kept, Taken, PluginsInUse, Counted, SessionsAgree
  <2>4. QED
    BY <2>2, <2>3 DEF ChildrenInv
<1>7. CASE Holders
  BY <1>7, HoldersKeep
<1>8. QED
  BY <1>1, <1>2, <1>3, <1>4, <1>5, <1>6, <1>7 DEF Next

\* No step changes the world.
LEMMA WorldStays ==
  ASSUME [Next]_vars
  PROVE  world' = world
BY DEF Next, vars, Tasks, pmp_task_submit, pmp_task_deinit, pmp_task_cancel, pmp_task_status, pmp_stop,
       pmp_resume, Others, Runs, run_exec, WaitRun, Rest, Terminals, TermOpen, TermFork, TermRegister,
       TermUndo, term_close, term_status, Beside, ShellSteps, ShellPipe, ShellFork, ShellClose,
       ShellRead, ShellWait, Apart, Ends, Exit, Holders, Beget, HolderLeaves

\* The invariant of a system whose pids come round only where tasks are alone.
LEMMA ChildrenAlways ==
  ASSUME \A w \in Worlds : PidsApart(w)
  PROVE  Spec => [](ChildrenInv /\ PidsApart(world))
<1>1. Init => ChildrenInv /\ PidsApart(world)
  BY ChildrenStart DEF Init
<1>2. ChildrenInv /\ PidsApart(world) /\ [Next]_vars => (ChildrenInv /\ PidsApart(world))'
  <2>1. SUFFICES ASSUME ChildrenInv, PidsApart(world), [Next]_vars
                 PROVE  ChildrenInv' /\ PidsApart(world')
    BY DEF PidsApart
  <2>2. QED
    BY <2>1, ChildrenStep, WorldStays
<1>3. QED
  BY <1>1, <1>2, PTL DEF Spec

\* What PMP and TERMINAL know of their children is true of the kernel's table (pmp_task.c,
\* terminal_impl.c): a task that is reported as running or cancelled has its own process, and the
\* registered sessions are the open masters and the active handles.  Pids may come round only
\* where tasks are the only children (pmp_task.c:68 takes any child for one of its own).
THEOREM ChildrenStayKnown ==
  ASSUME \A w \in Worlds : PidsApart(w)
  PROVE  Spec => []ChildrenKnown
<1>1. Spec => [](ChildrenInv /\ PidsApart(world))
  BY ChildrenAlways
<1>2. ChildrenInv => ChildrenKnown
  BY DEF ChildrenInv, ChildrenKnown
<1>3. QED
  BY <1>1, <1>2, PTL

-----------------------------------------------------------------------------
\* A step of the kernel that sends no signal leaves every flag as it is or takes it away.
LEMMA FlagsFacts ==
  ASSUME TypeOK, NEW q \in Pids, procs' = Collected(q)
  PROVE  \A p \in Pids : procs'[p].sig => procs[p].sig
BY CollectFacts

\* Who is signalled by a step of PMP: the task that is being cancelled.
LEMMA TaskSignals ==
  ASSUME ChildrenInv, Tasks, NEW p \in Pids, procs'[p].sig, ~procs[p].sig
  PROVE  \E id \in DOMAIN tasks : /\ procs[p].of = <<"task", id>>
                                  /\ tasks[id].state = "RUNNING"
                                  /\ tasks'[id].state = "CANCELLED"
<1>1. TypeOK /\ PidsInTurn /\ TasksUnreaped /\ procs \in [Pids -> Proc]
      /\ \A id \in DOMAIN tasks : tasks[id] \in Task /\ tasks[id].pid \in Pids
  BY DEF ChildrenInv, TypeOK
<1>2. CASE pmp_task_submit
  <2>1. PICK kind \in {"task", "lost"}, n \in Nat : Fork(kind, n)
    <3>1. g_task_seq + 1 \in Nat
      BY <1>1, Sizes
    <3>2. QED
      BY <1>2, <3>1 DEF pmp_task_submit
  <2>2. \E x \in Pids : ~procs'[x].sig /\ \A q \in Pids \ {x} : procs'[q] = procs[q]
    BY <1>1, <2>1, ForkFacts
  <2>3. QED
    BY <2>2
<1>3. CASE pmp_task_deinit
  BY <1>3 DEF pmp_task_deinit, kernel
<1>4. ASSUME NEW id \in DOMAIN tasks, pmp_task_cancel(id)
      PROVE  /\ procs[p].of = <<"task", id>>
             /\ tasks[id].state = "RUNNING"
             /\ tasks'[id].state = "CANCELLED"
  <2>1. /\ procs' = Signalled(tasks[id].pid) /\ tasks[id].state = "RUNNING"
        /\ tasks' = [tasks EXCEPT ![id].state = "CANCELLED"] /\ tasks[id].pid \in Pids
    BY <1>1, <1>4 DEF pmp_task_cancel
  <2>2. p = tasks[id].pid
    BY <1>1, <2>1, SignalFacts
  <2>3. procs[p].of = <<"task", id>>
    BY <1>1, <2>1, <2>2 DEF TasksUnreaped, Own
  <2>4. tasks'[id].state = "CANCELLED"
    BY <1>1, <2>1 DEF Task
  <2>5. QED
    BY <2>1, <2>3, <2>4
<1>5. ASSUME NEW id \in DOMAIN tasks, pmp_task_status(id)
      PROVE  FALSE
  <2>1. PICK r \in Pids : procs' = Collected(r)
    BY <1>5 DEF pmp_task_status, task_reap
  <2>2. QED
    BY <1>1, <2>1, FlagsFacts
<1>6. ASSUME NEW id \in DOMAIN tasks, pmp_stop(id) \/ pmp_resume(id)
      PROVE  FALSE
  <2>1. PICK b \in BOOLEAN : procs' = [procs EXCEPT ![tasks[id].pid].stopped = b]
    BY <1>6 DEF pmp_stop, pmp_resume
  <2>2. PICK r : r = [procs[tasks[id].pid] EXCEPT !.stopped = b]
    OBVIOUS
  <2>3. r.sig = procs[tasks[id].pid].sig /\ procs' = [procs EXCEPT ![tasks[id].pid] = r]
    BY <1>1, <2>1, <2>2 DEF Proc
  <2>4. procs'[p].sig = procs[p].sig
    BY <1>1, <2>3
  <2>5. QED
    BY <2>4
<1>7. QED
  BY <1>2, <1>3, <1>4, <1>5, <1>6 DEF Tasks

\* Who is signalled by a step of TERMINAL: the session being closed, or the one that is being undone.
LEMMA SessionSignals ==
  ASSUME ChildrenInv, Terminals, NEW p \in Pids, procs'[p].sig, ~procs[p].sig
  PROVE  \/ \E n \in DOMAIN handles' : /\ procs[p].of = <<"term", n>>
                                       /\ handles'[n].state = "CLOSED"
         \/ procs[p].of = <<"term", g_seq + 1>> /\ term'.pc = "undo"
<1>1. TypeOK /\ PidsInTurn /\ PidsKept /\ procs \in [Pids -> Proc]
  BY DEF ChildrenInv, TypeOK
<1>2. CASE TermOpen
  BY <1>2 DEF TermOpen, kernel
<1>3. CASE TermFork
  <2>1. CASE UNCHANGED procs
    BY <2>1
  <2>2. CASE Fork("term", g_seq + 1)
    <3>1. g_seq + 1 \in Nat
      BY <1>1, Sizes
    <3>2. \E x \in Pids : ~procs'[x].sig /\ \A q \in Pids \ {x} : procs'[q] = procs[q]
      BY <1>1, <2>2, <3>1, ForkFacts
    <3>3. QED
      BY <3>2
  <2>3. QED
    BY <1>3, <2>1, <2>2 DEF TermFork, kernel
<1>4. CASE TermRegister
  <2>1. /\ procs' = Signalled(term.pid) /\ term' = [term EXCEPT !.pc = "undo"]
        /\ term.pc = "forked"
    BY <1>4 DEF TermRegister
  <2>2. /\ term.pid \in Pids
        /\ Taken(term.pid) => procs[term.pid].of \in {<<"term", g_seq + 1>>}
    BY <1>1, <2>1 DEF PidsKept, SpawnKept, Kept
  <2>3. p = term.pid /\ procs[p].st = "run"
    BY <1>1, <2>1, <2>2, SignalFacts
  <2>4. term'.pc = "undo"
    BY <1>1, <2>1 DEF TypeOK
  <2>5. QED
    BY <2>2, <2>3, <2>4 DEF Taken
<1>5. CASE TermUndo
  <2>1. procs' = Collected(term.pid) /\ term.pid \in Pids
    BY <1>1, <1>5 DEF TermUndo, PidsKept, SpawnKept, Kept
  <2>2. QED
    BY <1>1, <2>1, FlagsFacts
<1>6. ASSUME NEW n \in DOMAIN handles, term_close(n)
      PROVE  n \in DOMAIN handles' /\ procs[p].of = <<"term", n>> /\ handles'[n].state = "CLOSED"
  <2>1. PICK q \in Pids : q = handles[n].pid /\ (Taken(q) => procs[q].of \in {<<"term", n>>})
    BY <1>1 DEF PidsKept, HandlesKept, Kept
  <2>2. procs' = Collected(q) \/ procs' = Signalled(q)
    BY <1>6, <2>1 DEF term_close
  <2>3. procs' = Signalled(q)
    BY <1>1, <2>2, FlagsFacts
  <2>4. p = q /\ procs[p].st = "run"
    BY <1>1, <2>3, SignalFacts
  <2>5. handles' = [handles EXCEPT ![n].state = "CLOSED"]
        /\ handles[n] \in [pid : Pids, state : {"ACTIVE", "CLOSED"}]
    BY <1>1, <1>6 DEF term_close, TypeOK
  <2>6. n \in DOMAIN handles' /\ handles'[n].state = "CLOSED"
    BY <2>5
  <2>7. QED
    BY <2>1, <2>4, <2>6 DEF Taken
<1>7. ASSUME NEW n \in DOMAIN handles, term_status(n)
      PROVE  FALSE
  <2>1. procs' = Collected(sessions[n]) /\ sessions[n] \in Pids
    BY <1>1, <1>7 DEF term_status, PidsKept, SessionsHandled, HandlesKept, Kept
  <2>2. QED
    BY <1>1, <2>1, FlagsFacts
<1>8. QED
  BY <1>2, <1>3, <1>4, <1>5, <1>6, <1>7 DEF Terminals

\* The callers of run, the shell and the end of a process signal nobody.
LEMMA QuietSteps ==
  ASSUME ChildrenInv, Runs \/ ShellSteps \/ Ends \/ Holders \/ UNCHANGED vars, NEW p \in Pids, procs'[p].sig
  PROVE  procs[p].sig
<1>1. TypeOK /\ PidsInTurn /\ PidsKept /\ procs \in [Pids -> Proc]
  BY DEF ChildrenInv, TypeOK
<1>2. ASSUME NEW kind \in {"run", "shell"}, Fork(kind, births)
      PROVE  procs[p].sig
  <2>1. births \in Nat
    BY <1>1, Sizes
  <2>2. \E x \in Pids : ~procs'[x].sig /\ \A q \in Pids \ {x} : procs'[q] = procs[q]
    BY <1>1, <1>2, <2>1, ForkFacts
  <2>3. QED
    BY <2>2
<1>3. CASE Runs
  <2>1. CASE run_exec
    BY <1>2, <2>1 DEF run_exec
  <2>2. CASE WaitRun
    <3>1. runs.pid \in Pids
      BY <1>1, <2>2 DEF WaitRun, PidsKept, RunKept, Kept
    <3>2. procs' = Collected(runs.pid) \/ procs' = procs
      BY <2>2 DEF WaitRun
    <3>3. QED
      BY <1>1, <3>1, <3>2, FlagsFacts
  <2>3. QED
    BY <1>3, <2>1, <2>2 DEF Runs
<1>4. CASE ShellSteps
  <2>1. CASE ShellFork
    BY <1>2, <2>1 DEF ShellFork, kernel
  <2>2. CASE ShellWait
    <3>1. shell.pid \in Pids /\ procs' = Collected(shell.pid)
      BY <1>1, <2>2 DEF ShellWait, PidsKept, CommandKept, Kept
    <3>2. QED
      BY <1>1, <3>1, FlagsFacts
  <2>3. CASE ShellPipe \/ ShellClose \/ ShellRead
    BY <2>3 DEF ShellPipe, ShellClose, ShellRead, kernel
  <2>4. QED
    BY <1>4, <2>1, <2>2, <2>3 DEF ShellSteps
<1>5. CASE Ends
  <2>1. PICK q \in Pids, code \in Codes : Exit(q, code)
    BY <1>5 DEF Ends
  <2>2. PICK r : r = [procs[q] EXCEPT !.st = "zombie", !.code = code]
    OBVIOUS
  <2>3. r.sig = procs[q].sig /\ procs' = [procs EXCEPT ![q] = r]
    BY <1>1, <2>1, <2>2 DEF Exit, Proc
  <2>4. procs'[p].sig = procs[p].sig
    BY <1>1, <2>3
  <2>5. QED
    BY <2>4
<1>6. CASE UNCHANGED vars \/ Holders
  BY <1>6 DEF vars, Holders, Beget, HolderLeaves, kernel
<1>7. QED
  BY <1>3, <1>4, <1>5, <1>6

\* Only the process a caller meant is signalled (pmp_task_cancel, term_close, the way back in
\* term_spawn), because its pid has not gone to another child: neither to another task when pids come
\* round, nor to a child of another plugin where they do not.
THEOREM SignalsReachTheirs ==
  ASSUME \A w \in Worlds : PidsApart(w)
  PROVE  Spec => SignalsOwn
<1>1. ASSUME ChildrenInv, [Next]_vars, NEW p \in Pids, procs'[p].sig, ~procs[p].sig
      PROVE  \/ \E id \in DOMAIN tasks : /\ procs[p].of = <<"task", id>>
                                         /\ tasks[id].state = "RUNNING"
                                         /\ tasks'[id].state = "CANCELLED"
             \/ \E n \in DOMAIN handles' : /\ procs[p].of = <<"term", n>>
                                           /\ handles'[n].state = "CLOSED"
             \/ procs[p].of = <<"term", g_seq + 1>> /\ term'.pc = "undo"
  <2>1. Tasks \/ Terminals
    BY <1>1, QuietSteps DEF Next
  <2>2. QED
    BY <1>1, <2>1, TaskSignals, SessionSignals
<1>2. ChildrenInv /\ [Next]_vars =>
        [\A p \in Pids : procs'[p].sig /\ ~procs[p].sig =>
           \/ \E id \in DOMAIN tasks : /\ procs[p].of = <<"task", id>>
                                       /\ tasks[id].state = "RUNNING"
                                       /\ tasks'[id].state = "CANCELLED"
           \/ \E n \in DOMAIN handles' : /\ procs[p].of = <<"term", n>>
                                         /\ handles'[n].state = "CLOSED"
           \/ procs[p].of = <<"term", g_seq + 1>> /\ term'.pc = "undo"]_vars
  BY <1>1
<1>3. Spec => [](ChildrenInv /\ PidsApart(world))
  BY ChildrenAlways
<1>4. QED
  BY <1>2, <1>3, PTL DEF Spec, SignalsOwn

\* A task's verdict comes from its own process and from its exit code (pmp_task.c:68), however often
\* pids come round, unless a process without entry or of another plugin may get a task's old pid.
THEOREM VerdictsAreOwn ==
  ASSUME \A w \in Worlds : TasksApart(w)
  PROVE  Spec => TaskVerdict
<1>1. \A w \in Worlds : PidsApart(w)
  BY DEF TasksApart, PidsApart
<1>2. ASSUME ChildrenInv, [Next]_vars, NEW id \in DOMAIN tasks \cap DOMAIN tasks',
             tasks'[id] # tasks[id], tasks'[id].state # "CANCELLED"
      PROVE  /\ Own(id).st = "zombie" /\ Own(id).of = <<"task", id>>
             /\ tasks'[id].state = (IF Own(id).code = "zero" THEN "FINISHED" ELSE "FAILED")
  <2>1. TypeOK /\ NoStrangers /\ TasksApart(world)
    <3>1. TypeOK /\ NoStrangers
      BY <1>2 DEF ChildrenInv
    <3>2. world \in Worlds
      BY <3>1 DEF TypeOK
    <3>3. QED
      BY <3>1, <3>2
  <2>2. ASSUME NEW j \in DOMAIN tasks, pmp_task_status(j)
        PROVE  /\ Own(id).st = "zombie" /\ Own(id).of = <<"task", id>>
               /\ tasks'[id].state = (IF Own(id).code = "zero" THEN "FINISHED" ELSE "FAILED")
    <3>1. PICK r \in Pids : procs[r].st = "zombie" /\ tasks' = Updated(r)
      BY <2>2 DEF pmp_task_status, task_reap
    <3>2. tasks[id].pid = r
      BY <1>2, <3>1, UpdateFacts
    <3>3. procs[r].of[1] = "task"
      BY <2>1, <3>1, <3>2 DEF NoStrangers, Taken
    <3>4. /\ procs[r].of = <<"task", id>>
          /\ tasks'[id].state = (IF procs[r].code = "zero" THEN "FINISHED" ELSE "FAILED")
      BY <1>2, <3>1, <3>3, UpdateFacts
    <3>5. QED
      BY <3>1, <3>2, <3>4 DEF Own
  <2>3. ASSUME pmp_task_submit
        PROVE  FALSE
    <3>1. DOMAIN tasks \subseteq 1 .. g_task_seq /\ g_task_seq + 1 \notin DOMAIN tasks
      BY <2>1, Sizes DEF TypeOK
    <3>2. CASE UNCHANGED tasks
      BY <1>2, <3>2
    <3>3. CASE /\ g_task_seq' = g_task_seq + 1
               /\ tasks' = Added(tasks, g_task_seq',
                                 [pid |-> NextPid, state |-> "RUNNING", exit_status |-> "none"])
      <4>1. id # g_task_seq + 1
        BY <3>1
      <4>2. tasks'[id] = tasks[id]
        BY <3>3, <4>1 DEF Added
      <4>3. QED
        BY <1>2, <4>2
    <3>4. QED
      BY <2>3, <3>2, <3>3 DEF pmp_task_submit, pmp
  <2>4. ASSUME NEW j \in DOMAIN tasks, pmp_task_cancel(j)
        PROVE  FALSE
    <3>1. tasks' = [tasks EXCEPT ![j].state = "CANCELLED"] /\ tasks[j] \in Task
      BY <2>1, <2>4 DEF pmp_task_cancel, TypeOK
    <3>2. CASE id = j
      BY <1>2, <3>1, <3>2 DEF Task
    <3>3. CASE id # j
      BY <1>2, <3>1, <3>3
    <3>4. QED
      BY <3>2, <3>3
  <2>5. ~pmp_task_deinit
    BY DEF pmp_task_deinit
  <2>6. ~UNCHANGED tasks
    BY <1>2
  <2>7. Tasks
    BY <1>2, <2>6 DEF Next, vars, Runs, run_exec, WaitRun, Rest, Terminals, TermOpen, TermFork,
                      TermRegister, TermUndo, term_close, term_status, Beside, ShellSteps, ShellPipe,
                      ShellFork, ShellClose, ShellRead, ShellWait, Apart, Ends, Exit, Holders, Beget, HolderLeaves,
                      pmp
  <2>8. \A j \in DOMAIN tasks : ~pmp_stop(j) /\ ~pmp_resume(j)
    BY <2>6 DEF pmp_stop, pmp_resume, pmp
  <2>9. QED
    BY <2>2, <2>3, <2>4, <2>5, <2>7, <2>8 DEF Tasks
<1>3. ChildrenInv /\ [Next]_vars =>
        [\A id \in DOMAIN tasks \cap DOMAIN tasks' :
           tasks'[id] # tasks[id] /\ tasks'[id].state # "CANCELLED" =>
             /\ Own(id).st = "zombie" /\ Own(id).of = <<"task", id>>
             /\ tasks'[id].state = (IF Own(id).code = "zero" THEN "FINISHED" ELSE "FAILED")]_vars
  BY <1>2
<1>4. Spec => [](ChildrenInv /\ PidsApart(world))
  BY <1>1, ChildrenAlways
<1>5. QED
  BY <1>3, <1>4, PTL DEF Spec, TaskVerdict
=============================================================================

--------------------------- MODULE PluginBus_proofs ---------------------------
(* Theorems about PluginBus, for any plugins, protocols, boot order and     *)
(* contents of the scan paths, and whatever fails on the way; about the    *)
(* main program that drives it, the lock it runs under, and the reader of  *)
(* plugin.yml.                                                             *)
EXTENDS HwMain, HwLock, PluginYml, ListFacts, TLAPS

\* The inductive invariant, part by part.

\* A call of hw_plugin_start is under way.
Starting == pc \in {"check", "init", "register", "start"}

\* Where the calls stand: only a known plugin that is not running is started, the
\* boot loop is at an entry of its table, and nothing runs after the shutdown.
Stages ==
  /\ Starting => cur \in ToSet(plugins) /\ state[cur] # "STARTED" /\ boot <= Len(BootOrder)
  /\ pc = "boot" => boot # 0
  /\ pc \in {"idle", "shutdown"} => boot = 0
  /\ ~initialized => pc = "idle"

\* hw_bus_shutdown finds whatever is running in the list it has taken.
RunningListed ==
  \A p \in Plugins : Running(p) =>
    \/ initialized /\ pc # "shutdown" /\ Known(p)
    \/ pc = "shutdown" /\ p \in ToSet(todo)

\* The first k protocols a plugin provides.
First(p, k) == {Provides[p][i] : i \in 1 .. k}

\* A route is of the bus, of a plugin in service, or one that the hw_plugin_start
\* under way has just registered and can still withdraw.
RoutesOwned ==
  \A r \in routes :
    \/ r.plugin_id = BUS /\ r.protocol \in ToSet(Builtins) /\ r.implementation = "NULL"
    \/ /\ r.plugin_id \in Plugins /\ state[r.plugin_id] = "STARTED"
       /\ r.protocol \in ToSet(Provides[r.plugin_id])
    \/ r.plugin_id = cur /\ pc \in {"register", "start"} /\ r.protocol \in First(cur, n)

\* The first registration of p finds memory: start would take its failure for success.
FirstFits(p) == <<p, 0>> \notin NoMemory

\* The routes that must be there are there.
RoutesOffered ==
  /\ initialized => \A q \in ToSet(Builtins) : At(q, BUS) # {}
  /\ \A p \in Plugins : state[p] = "STARTED" /\ FirstFits(p) =>
       \A q \in ToSet(Provides[p]) : At(q, p) # {}
  /\ pc \in {"register", "start"} => \A q \in First(cur, n) : At(q, cur) # {}
  /\ pc = "start" /\ FirstFits(cur) => n = Len(Provides[cur])

\* For callers that leave an unloaded plugin alone: the ops of a plugin point into a
\* mapped object until it is unloaded, and neither such a caller nor the boot chain
\* starts an unloaded plugin.
OpsMapped ==
  /\ ~wild
  /\ \A r \in routes : r.implementation = "interface" => ops[r.plugin_id] /\ handle[r.plugin_id]
  /\ \A p \in Plugins : ops[p] =>
       /\ handle[p] \/ state[p] = "UNINSTALLED"
       /\ Known(p) \/ pc = "shutdown" \/ ~initialized
  /\ boot # 0 => \A p \in ToSet(plugins) : state[p] # "UNINSTALLED"
  /\ Starting => state[cur] # "UNINSTALLED"

\* What the checks at the beginning of hw_plugin_start have seen still holds.
Admitted ==
  pc \in {"init", "register", "start"} =>
    /\ ToSet(Requires[cur]) \subseteq Directory!Offered
    /\ ToSet(Conflicts[cur]) \cap Directory!Offered = {}

BusInv ==
  /\ TypeOK /\ Stages /\ RunningListed /\ RoutesOwned /\ RoutesOffered
  /\ ~Replug => OpsMapped
  /\ (\A p \in Plugins : FirstFits(p)) => Admitted

\* All protocols of a plugin are its first Len(Provides[p]) ones, and hw_plugin_start
\* registers one more at each step.
LEMMA FirstFacts ==
  ASSUME NEW p \in Plugins
  PROVE  /\ First(p, Len(Provides[p])) = ToSet(Provides[p])
         /\ First(p, 0) = {}
         /\ \A k \in 0 .. Len(Provides[p]) : First(p, k) \subseteq ToSet(Provides[p])
         /\ \A k \in 0 .. Len(Provides[p]) - 1 :
              First(p, k + 1) = First(p, k) \cup {Provides[p][k + 1]}
  BY BusAssumption, SMTT(60) DEF First, ToSet

\* plugin_unregister_provides leaves no route of p, whether all its protocols are
\* withdrawn or those that hw_plugin_start has registered so far.
LEMMA Withdrawn ==
  ASSUME BusInv, NEW p \in Plugins, NEW k,
         k = Len(Provides[p]) \/ (p = cur /\ pc = "register" /\ k = n)
  PROVE  Without(p, k) = {r \in routes : r.plugin_id # p}
<1>1. ASSUME NEW r \in routes, r.plugin_id = p PROVE r.protocol \in First(p, k)
  <2>1. /\ First(p, Len(Provides[p])) = ToSet(Provides[p])
        /\ n \in 0 .. Len(Provides[cur]) /\ p # BUS
    BY FirstFacts, BusAssumption DEF BusInv, TypeOK
  <2>2. First(p, n) \subseteq ToSet(Provides[p]) \/ p # cur
    BY <2>1, FirstFacts
  <2> QED BY <1>1, <2>1, <2>2 DEF BusInv, RoutesOwned, Stages, Starting
<1> QED BY <1>1 DEF Without, At, First

\* A plugin whose routes are all withdrawn may be in any state but STARTED.
LEMMA LeavesService ==
  ASSUME BusInv, NEW p \in Plugins, routes' = {r \in routes : r.plugin_id # p},
         \A q \in Plugins \ {p} : state'[q] = state[q], state'[p] # "STARTED",
         pc \in {"register", "start"} => p = cur,
         pc' \notin {"register", "start"}, UNCHANGED initialized
  PROVE  RoutesOwned' /\ RoutesOffered'
<1>1. RoutesOwned'
  BY DEF BusInv, RoutesOwned
<1>2. RoutesOffered'
  <2>1. p # BUS /\ \A q, u : u # p => At(q, u)' = At(q, u)
    BY BusAssumption DEF At
  <2> QED BY <2>1 DEF BusInv, RoutesOffered
<1> QED BY <1>1, <1>2

\* A step that touches no route and takes no plugin into or out of service.
LEMMA RoutesKept ==
  ASSUME BusInv, UNCHANGED <<routes, initialized>>,
         \A q \in Plugins : state'[q] = "STARTED" <=> state[q] = "STARTED",
         pc \notin {"register", "start"}, pc' \notin {"register", "start"}
  PROVE  RoutesOwned' /\ RoutesOffered'
<1>1. RoutesOwned'
  BY DEF BusInv, RoutesOwned
<1>2. RoutesOffered'
  BY DEF BusInv, RoutesOffered, At
<1> QED BY <1>1, <1>2

\* The protocols that ServiceDirectory counts as offered, in terms of the bus.
LEMMA OfferedFacts ==
  \A q : q \in Directory!Offered <=>
    q \in ToSet(Builtins) \/ \E p \in Plugins : state[p] = "STARTED" /\ q \in ToSet(Provides[p])
<1> DEFINE serving == {p \in Plugins : state[p] = "STARTED"}
<1>1. Directory!Offered = ToSet(Builtins) \cup UNION {ToSet(Provides[p]) : p \in serving}
  BY DEF Directory!Offered, Directory!ToSet, ToSet
<1> QED BY <1>1

\* hw_plugin_start returns: what becomes of everything but the routes and wild.
LEMMA Returned ==
  ASSUME BusInv, Starting, NEW s \in {"STARTED", "ERROR"}, Return(s), routes' \subseteq Route,
         UNCHANGED <<handle, ops>>, wild' \in BOOLEAN
  PROVE  /\ TypeOK' /\ Stages' /\ RunningListed' /\ Admitted'
         /\ UNCHANGED <<plugins, cur, todo, initialized>> /\ initialized
         /\ cur \in Plugins /\ state[cur] # "STARTED" /\ state'[cur] = s
         /\ \A q \in Plugins \ {cur} : state'[q] = state[q]
         /\ pc' \in {"idle", "boot"} /\ ~Starting' /\ (boot' # 0 => boot # 0)
<1>1. /\ UNCHANGED <<plugins, cur, todo, initialized>> /\ n' = 0
      /\ state' = [state EXCEPT ![cur] = s]
  BY DEF Return
<1>2. \/ boot = 0 /\ pc' = "idle" /\ boot' = 0
      \/ boot # 0 /\ pc' = "boot" /\ boot' = boot + 1
  BY DEF Return
<1>3. /\ cur \in Plugins /\ cur \in ToSet(plugins) /\ state[cur] # "STARTED"
      /\ initialized /\ boot \in Nat /\ boot <= Len(BootOrder)
      /\ state \in [Plugins -> States]
  BY BusAssumption, SMTT(60) DEF BusInv, TypeOK, Stages, Starting
<1>4. boot' \in 0 .. Len(BootOrder) + 1 /\ (boot' # 0 => boot # 0) /\ pc' \in {"idle", "boot"}
      /\ (pc' = "boot" => boot' # 0) /\ (pc' = "idle" => boot' = 0)
  BY <1>2, <1>3, BusAssumption, SMTT(60)
<1>5. state' \in [Plugins -> States] /\ n' \in 0 .. Len(Provides[cur'])
  BY <1>1, <1>3, BusAssumption DEF States
<1>6. TypeOK'
  BY <1>1, <1>4, <1>5 DEF BusInv, TypeOK, Steps
<1>7. Stages' /\ RunningListed'
  BY <1>1, <1>3, <1>4 DEF BusInv, Stages, Starting, RunningListed, Running, Known
<1> QED BY <1>1, <1>3, <1>4, <1>6, <1>7 DEF Admitted, Starting

\* hw_plugin_unload withdraws the plugin's routes before its object is unmapped,
\* also where it skips the stop: a plugin that is not running has none.
LEMMA Unloaded ==
  ASSUME BusInv, NEW p \in Plugins, hw_plugin_unload(p), UNCHANGED <<pc, initialized>>,
         pc \in {"idle", "shutdown"}
  PROVE  /\ routes' = {r \in routes : r.plugin_id # p}
         /\ RoutesOwned' /\ RoutesOffered'
<1>1. /\ state' = [state EXCEPT ![p] = "UNINSTALLED"] /\ state \in [Plugins -> States]
      /\ routes' = IF Running(p) THEN Without(p, Len(Provides[p])) ELSE routes
      /\ p # BUS
  BY BusAssumption DEF BusInv, TypeOK, hw_plugin_unload
<1>2. ~Running(p) => \A r \in routes : r.plugin_id # p
  BY <1>1 DEF BusInv, RoutesOwned, Running
<1>3. routes' = {r \in routes : r.plugin_id # p}
  BY <1>1, <1>2, Withdrawn
<1> QED BY <1>1, <1>3, LeavesService

\* hw_bus_init leaves the routes of the bus and nothing else.
LEMMA BusInitInv == Init => BusInv
<1> SUFFICES ASSUME Init PROVE BusInv
  OBVIOUS
<1> USE BusAssumption DEF Init
<1>1. cur \in Plugins
  OBVIOUS
<1>2. TypeOK
  <2>1. routes \subseteq Route
    <3>1. ToSet(Builtins) \subseteq Protocols
      BY DEF ToSet
    <3>2. \A q \in Protocols : RouteOf(q, BUS, "NULL") \in Route
      BY DEF RouteOf, Route, Impl
    <3> QED BY <3>1, <3>2
  <2>2. plugins \in Seq(Plugins) /\ IsInjective(plugins) /\ todo \in Seq(Plugins)
    BY DEF IsInjective
  <2>3. n \in 0 .. Len(Provides[cur]) /\ boot \in 0 .. Len(BootOrder) + 1
    BY <1>1
  <2> QED BY <1>1, <2>1, <2>2, <2>3 DEF TypeOK, States, Steps
<1>3. Stages /\ RunningListed /\ RoutesOwned
  BY DEF Stages, Starting, RunningListed, Running, RoutesOwned, RouteOf
<1>4. RoutesOffered /\ OpsMapped /\ Admitted
  <2>1. RoutesOffered
    <3>1. \A q \in ToSet(Builtins) : RouteOf(q, BUS, "NULL") \in At(q, BUS)
      BY DEF At, RouteOf
    <3> QED BY <3>1 DEF RoutesOffered
  <2>2. OpsMapped
    BY DEF OpsMapped, Starting, RouteOf, ToSet
  <2> QED BY <2>1, <2>2 DEF Admitted
<1> QED BY <1>2, <1>3, <1>4 DEF BusInv

\* Every step of the bus, of its callers and of the embedder keeps the invariant.
LEMMA BusStepInv == BusInv /\ [Next]_vars => BusInv'
<1> SUFFICES ASSUME BusInv, [Next]_vars PROVE BusInv'
  OBVIOUS
<1> USE DEF life, control, Known
<1>0. /\ TypeOK /\ Stages /\ RunningListed /\ RoutesOwned /\ RoutesOffered
      /\ ToSet(plugins) \subseteq Plugins
  BY DEF BusInv, TypeOK, ToSet
<1>1. ASSUME NEW b \in {0, 1}, hw_bus_scan(b),
             b = 1 => Replug \/ \A p \in ToSet(plugins) : state[p] # "UNINSTALLED"
      PROVE BusInv'
  <2>1. TypeOK'
    BY <1>0, <1>1, BusAssumption, SMTT(60) DEF TypeOK, Steps, hw_bus_scan, Idle
  <2>2. Stages' /\ RunningListed'
    BY <1>0, <1>1 DEF Stages, Starting, RunningListed, Running, hw_bus_scan, Idle
  <2>3. RoutesOwned' /\ RoutesOffered'
    BY <1>1, RoutesKept DEF hw_bus_scan, Idle
  <2>4. ~Replug => OpsMapped'
    BY <1>0, <1>1 DEF BusInv, OpsMapped, Starting, hw_bus_scan, Idle
  <2>5. Admitted'
    BY <1>1 DEF Admitted, hw_bus_scan
  <2> QED BY <2>1, <2>2, <2>3, <2>4, <2>5 DEF BusInv
<1>2. CASE scan_dir_rec
  <2> DEFINE p == Head(todo)
  <2>1. /\ p \in Plugins /\ Tail(todo) \in Seq(Plugins) /\ todo' = Tail(todo)
        /\ UNCHANGED <<handle, ops, routes, pc, cur, n, boot, initialized, wild>>
        /\ pc = "scan" /\ initialized
    BY <1>0, <1>2, WorkedOff DEF TypeOK, Stages, scan_dir_rec
  <2>2. CASE p \in ToSet(plugins)
    <3>1. UNCHANGED <<plugins, state>>
      BY <1>2, <2>2 DEF scan_dir_rec
    <3>2. TypeOK' /\ Stages' /\ RunningListed'
      BY <1>0, <2>1, <3>1 DEF TypeOK, Stages, Starting, RunningListed, Running
    <3>3. RoutesOwned' /\ RoutesOffered'
      BY <2>1, <3>1, RoutesKept
    <3>4. (~Replug => OpsMapped') /\ Admitted'
      BY <2>1, <3>1 DEF BusInv, OpsMapped, Starting, Admitted
    <3> QED BY <3>2, <3>3, <3>4 DEF BusInv
  <2>3. CASE p \notin ToSet(plugins)
    <3>1. plugins' = <<p>> \o plugins /\ state' = [state EXCEPT ![p] = "INSTALLED"]
      BY <1>2, <2>3 DEF scan_dir_rec
    <3>2. /\ plugins' \in Seq(Plugins) /\ IsInjective(plugins')
          /\ ToSet(plugins') = {p} \cup ToSet(plugins)
      BY <1>0, <2>1, <2>3, <3>1, Prepended DEF TypeOK
    <3>3. state[p] \notin {"STARTED", "LOADED"}
      BY <1>0, <2>1, <2>3 DEF RunningListed, Running
    <3>4. TypeOK' /\ Stages' /\ RunningListed'
      BY <1>0, <2>1, <3>1, <3>2, <3>3 DEF TypeOK, States, Stages, Starting, RunningListed, Running
    <3>5. RoutesOwned' /\ RoutesOffered'
      BY <1>0, <2>1, <3>1, <3>3, RoutesKept DEF TypeOK
    <3>6. (~Replug => OpsMapped') /\ Admitted'
      <4>1. p \in Plugins /\ state \in [Plugins -> States] /\ plugins \in Seq(Plugins)
        BY <1>0, <2>1 DEF TypeOK
      <4> QED BY <2>1, <2>3, <3>1, <3>2, <4>1, SMTT(60) DEF BusInv, OpsMapped, Starting, Admitted
    <3> QED BY <3>2, <3>4, <3>5, <3>6 DEF BusInv
  <2> QED BY <2>2, <2>3
<1>3. CASE ScanDone
  <2>1. TypeOK' /\ Stages' /\ RunningListed'
    BY <1>0, <1>3 DEF TypeOK, Steps, Stages, Starting, RunningListed, Running, ScanDone
  <2>2. RoutesOwned' /\ RoutesOffered'
    BY <1>3, RoutesKept DEF ScanDone
  <2>3. (~Replug => OpsMapped') /\ Admitted'
    BY <1>0, <1>3 DEF BusInv, Stages, OpsMapped, Starting, Admitted, ScanDone
  <2> QED BY <2>1, <2>2, <2>3 DEF BusInv
<1>4. ASSUME NEW p \in Plugins, pc \in {"idle", "boot"}, initialized, boot <= Len(BootOrder),
             p \in ToSet(plugins), state[p] # "STARTED", Replug \/ state[p] # "UNINSTALLED",
             StartCall(p), UNCHANGED boot
      PROVE BusInv'
  <2>1. TypeOK'
    BY <1>0, <1>4, BusAssumption, SMTT(60) DEF TypeOK, Steps, StartCall
  <2>2. Stages' /\ RunningListed'
    BY <1>0, <1>4 DEF Stages, Starting, RunningListed, Running, StartCall
  <2>3. RoutesOwned' /\ RoutesOffered'
    BY <1>4, RoutesKept DEF StartCall
  <2>4. ~Replug => OpsMapped'
    BY <1>4 DEF BusInv, OpsMapped, Starting, StartCall
  <2>5. Admitted'
    BY <1>4 DEF Admitted, StartCall
  <2> QED BY <2>1, <2>2, <2>3, <2>4, <2>5 DEF BusInv
<1>5. ASSUME Starting, Goto("init", state[cur], 0), pc = "check",
             check_deps(cur), ~HasConflict(cur), UNCHANGED <<handle, ops, routes, wild>>
      PROVE BusInv'
  <2>0. UNCHANGED <<plugins, state, cur, boot, todo, initialized>> /\ pc' = "init" /\ n' = 0
    BY <1>0, <1>5 DEF TypeOK, Goto
  <2>1. TypeOK'
    BY <1>0, <1>5, <2>0, BusAssumption DEF TypeOK, Steps
  <2>2. Stages' /\ RunningListed'
    BY <1>0, <1>5, <2>0 DEF Stages, Starting, RunningListed, Running
  <2>3. RoutesOwned' /\ RoutesOffered'
    BY <1>5, <2>0, RoutesKept
  <2>4. ~Replug => OpsMapped'
    BY <1>5, <2>0 DEF BusInv, OpsMapped, Starting
  <2>5. ASSUME \A q \in Plugins : FirstFits(q) PROVE Admitted'
    <3>1. ASSUME NEW q, Registered(q) PROVE q \in Directory!Offered
      <4>1. PICK r \in routes : r.protocol = q
        BY <3>1 DEF Registered
      <4> QED BY <1>0, <1>5, <4>1, OfferedFacts DEF RoutesOwned
    <3>2. ASSUME NEW q \in Directory!Offered PROVE Registered(q)
      <4>1. \E u \in Plugins \cup {BUS} : At(q, u) # {}
        <5>1. CASE q \in ToSet(Builtins)
          BY <1>0, <1>5, <5>1 DEF RoutesOffered, Stages
        <5>2. CASE q \notin ToSet(Builtins)
          BY <1>0, <2>5, <3>2, <5>2, OfferedFacts DEF RoutesOffered
        <5> QED BY <5>1, <5>2
      <4> QED BY <4>1 DEF Registered, At
    <3>3. ToSet(Requires[cur]) \subseteq Directory!Offered
      BY <1>5, <3>1 DEF check_deps
    <3>4. ToSet(Conflicts[cur]) \cap Directory!Offered = {}
      BY <1>5, <3>2 DEF HasConflict
    <3> QED BY <2>0, <3>3, <3>4 DEF Admitted, Directory!Offered
  <2> QED BY <2>1, <2>2, <2>3, <2>4, <2>5 DEF BusInv
<1>6. ASSUME Starting, Return("ERROR"), pc \in {"check", "init"},
             UNCHANGED <<handle, ops, routes>>,
             UNCHANGED wild \/ wild' = (wild \/ (ops[cur] /\ ~handle[cur]))
      PROVE BusInv'
  <2>1. wild' \in BOOLEAN /\ (~Replug => ~wild')
    BY <1>0, <1>6 DEF TypeOK, BusInv, OpsMapped
  <2>2. /\ TypeOK' /\ Stages' /\ RunningListed' /\ Admitted'
        /\ UNCHANGED <<plugins, cur, todo, initialized>> /\ initialized
        /\ cur \in Plugins /\ state[cur] # "STARTED" /\ state'[cur] = "ERROR"
        /\ \A q \in Plugins \ {cur} : state'[q] = state[q]
        /\ pc' \in {"idle", "boot"} /\ ~Starting' /\ (boot' # 0 => boot # 0)
    BY <1>0, <1>6, <2>1, Returned DEF TypeOK
  <2>3. RoutesOwned' /\ RoutesOffered'
    BY <1>6, <2>2, RoutesKept
  <2>4. ~Replug => OpsMapped'
    BY <1>0, <1>6, <2>1, <2>2 DEF BusInv, OpsMapped
  <2> QED BY <2>2, <2>3, <2>4 DEF BusInv
<1>7. ASSUME Starting, Goto("register", "LOADED", 0), pc = "init",
             UNCHANGED <<handle, ops, routes>>, wild' = (wild \/ (ops[cur] /\ ~handle[cur]))
      PROVE BusInv'
  <2>0. /\ UNCHANGED <<plugins, cur, boot, todo, initialized>> /\ pc' = "register" /\ n' = 0
        /\ state' = [state EXCEPT ![cur] = "LOADED"] /\ cur \in Plugins
        /\ state \in [Plugins -> States] /\ state[cur] # "STARTED"
    BY <1>0, <1>7 DEF TypeOK, Stages, Goto
  <2>1. TypeOK'
    BY <1>0, <1>7, <2>0, BusAssumption, SMTT(60) DEF TypeOK, Steps, States
  <2>2. Stages' /\ RunningListed'
    BY <1>0, <1>7, <2>0 DEF Stages, Starting, RunningListed, Running
  <2>3. RoutesOwned'
    BY <1>0, <1>7, <2>0 DEF RoutesOwned
  <2>4. RoutesOffered'
    BY <1>0, <1>7, <2>0, FirstFacts DEF RoutesOffered, At
  <2>5. ~Replug => OpsMapped'
    BY <1>0, <1>7, <2>0 DEF BusInv, OpsMapped, Starting
  <2>6. Admitted => Admitted'
    BY <1>7, <2>0, OfferedFacts DEF Admitted, Directory!Offered
  <2> QED BY <2>1, <2>2, <2>3, <2>4, <2>5, <2>6 DEF BusInv
<1>8. ASSUME Starting, pc = "register", n < Len(Provides[cur]), NEW impl \in Implementations(cur),
             routes' = WithRoute(RouteOf(Provides[cur][n + 1], cur, impl)),
             Goto("register", "LOADED", n + 1), UNCHANGED <<handle, ops>>,
             wild' = (wild \/ (ops[cur] /\ ~handle[cur]))
      PROVE BusInv'
  <2> PICK q, r : q = Provides[cur][n + 1] /\ r = RouteOf(q, cur, impl)
    OBVIOUS
  <2>a. /\ n \in Nat /\ Len(Provides[cur]) \in Nat /\ cur \in Plugins
        /\ Provides[cur] \in Seq(Protocols)
    BY <1>0, BusAssumption DEF TypeOK
  <2>b. n \in 0 .. Len(Provides[cur]) - 1 /\ q \in Protocols
    BY <1>8, <2>a
  <2>0. /\ UNCHANGED <<plugins, cur, boot, todo, initialized, pc>> /\ n' = n + 1
        /\ state' = [state EXCEPT ![cur] = "LOADED"] /\ cur \in Plugins
        /\ state \in [Plugins -> States] /\ state[cur] # "STARTED"
        /\ n \in 0 .. Len(Provides[cur]) - 1 /\ q \in Protocols
        /\ r.protocol = q /\ r.plugin_id = cur /\ r.implementation = impl
    BY <1>0, <1>8, <2>a, <2>b DEF TypeOK, Stages, Goto, RouteOf
  <2>1. TypeOK'
    <3>1. r \in Route /\ routes' = (routes \ At(q, cur)) \cup {r}
      BY <1>8, <2>0 DEF Route, RouteOf, Impl, Implementations, WithRoute
    <3>2. routes' \subseteq Route
      BY <1>0, <3>1 DEF TypeOK
    <3>3. n' \in 0 .. Len(Provides[cur'])
      BY <2>0, <2>a
    <3> QED BY <1>0, <1>8, <2>0, <3>2, <3>3 DEF TypeOK, States
  <2>2. Stages' /\ RunningListed'
    BY <1>0, <1>8, <2>0 DEF Stages, Starting, RunningListed, Running
  <2>3. routes' = (routes \ At(q, cur)) \cup {r} /\ First(cur, n + 1) = First(cur, n) \cup {q}
    BY <1>8, <2>0, FirstFacts DEF RouteOf, WithRoute
  <2>4. RoutesOwned'
    BY <1>0, <1>8, <2>0, <2>3 DEF RoutesOwned
  <2>5. RoutesOffered'
    <3>1. r \in At(q, cur)'
      BY <2>0, <2>3 DEF At
    <3>2. \A p, u : At(u, p) # {} => At(u, p)' # {}
      <4>1. \A p, u : p # cur \/ u # q => At(u, p) \subseteq At(u, p)'
        BY <2>3 DEF At
      <4> TAKE p, u
      <4>2. CASE p = cur /\ u = q
        BY <2>0, <2>3, <4>2 DEF At
      <4> QED BY <4>1, <4>2
    <3> QED BY <1>0, <1>8, <2>0, <2>3, <3>1, <3>2 DEF RoutesOffered
  <2>6. ~Replug => OpsMapped'
    <3>1. impl = "interface" => ops[cur]
      BY <1>8 DEF Implementations
    <3> QED BY <1>0, <1>8, <2>0, <2>3, <3>1 DEF BusInv, OpsMapped, Starting
  <2>7. Admitted => Admitted'
    BY <1>8, <2>0 DEF Admitted, Directory!Offered
  <2> QED BY <2>1, <2>2, <2>4, <2>5, <2>6, <2>7 DEF BusInv
<1>9. ASSUME Starting, pc = "register", n > 0, routes' = Without(cur, n), Return("ERROR"),
             UNCHANGED <<handle, ops>>, wild' = (wild \/ (ops[cur] /\ ~handle[cur]))
      PROVE BusInv'
  <2>1. routes' = {r \in routes : r.plugin_id # cur} /\ routes' \subseteq Route
    BY <1>0, <1>9, Withdrawn DEF TypeOK
  <2>2. wild' \in BOOLEAN /\ (~Replug => ~wild')
    BY <1>0, <1>9 DEF TypeOK, BusInv, OpsMapped
  <2>3. /\ TypeOK' /\ Stages' /\ RunningListed' /\ Admitted'
        /\ UNCHANGED <<plugins, cur, todo, initialized>> /\ initialized
        /\ cur \in Plugins /\ state[cur] # "STARTED" /\ state'[cur] = "ERROR"
        /\ \A q \in Plugins \ {cur} : state'[q] = state[q]
        /\ pc' \in {"idle", "boot"} /\ ~Starting' /\ (boot' # 0 => boot # 0)
    BY <1>0, <1>9, <2>1, <2>2, Returned
  <2>4. RoutesOwned' /\ RoutesOffered'
    BY <1>9, <2>1, <2>3, LeavesService
  <2>5. ~Replug => OpsMapped'
    BY <1>0, <1>9, <2>1, <2>2, <2>3 DEF BusInv, OpsMapped
  <2> QED BY <2>3, <2>4, <2>5 DEF BusInv
<1>10. ASSUME Starting, pc = "register", n = 0, NoRoom(0), Goto("start", "LOADED", 0),
              UNCHANGED <<handle, ops, routes>>, wild' = (wild \/ (ops[cur] /\ ~handle[cur]))
       PROVE BusInv'
  <2>0. /\ UNCHANGED <<plugins, cur, boot, todo, initialized, n>> /\ pc' = "start"
        /\ state' = [state EXCEPT ![cur] = "LOADED"] /\ cur \in Plugins
        /\ state \in [Plugins -> States] /\ state[cur] # "STARTED" /\ ~FirstFits(cur)
    BY <1>0, <1>10 DEF TypeOK, Stages, Goto, NoRoom, FirstFits
  <2>1. TypeOK'
    BY <1>0, <1>10, <2>0 DEF TypeOK, Steps, States
  <2>2. Stages' /\ RunningListed'
    BY <1>0, <1>10, <2>0 DEF Stages, Starting, RunningListed, Running
  <2>3. RoutesOwned'
    BY <1>0, <1>10, <2>0 DEF RoutesOwned
  <2>4. RoutesOffered'
    BY <1>0, <1>10, <2>0 DEF RoutesOffered, At, FirstFits
  <2>5. ~Replug => OpsMapped'
    BY <1>0, <1>10, <2>0 DEF BusInv, OpsMapped, Starting
  <2>6. Admitted => Admitted'
    BY <1>10, <2>0 DEF Admitted, Directory!Offered
  <2> QED BY <2>1, <2>2, <2>3, <2>4, <2>5, <2>6 DEF BusInv
<1>11. CASE RegisterDone
  <2>0. /\ UNCHANGED <<plugins, cur, boot, todo, initialized, n, handle, ops, routes, wild>>
        /\ pc = "register" /\ pc' = "start" /\ n = Len(Provides[cur])
        /\ state' = [state EXCEPT ![cur] = "LOADED"] /\ cur \in Plugins
        /\ state \in [Plugins -> States] /\ state[cur] # "STARTED"
    BY <1>0, <1>11 DEF TypeOK, Stages, Starting, RegisterDone, Goto
  <2>1. TypeOK'
    BY <1>0, <2>0 DEF TypeOK, Steps, States
  <2>2. Stages' /\ RunningListed'
    BY <1>0, <2>0 DEF Stages, Starting, RunningListed, Running
  <2>3. RoutesOwned'
    BY <1>0, <2>0 DEF RoutesOwned
  <2>4. RoutesOffered'
    BY <1>0, <2>0 DEF RoutesOffered, At
  <2>5. ~Replug => OpsMapped'
    BY <1>0, <2>0 DEF BusInv, OpsMapped, Starting
  <2>6. Admitted => Admitted'
    BY <2>0 DEF Admitted, Directory!Offered
  <2> QED BY <2>1, <2>2, <2>3, <2>4, <2>5, <2>6 DEF BusInv
<1>12. ASSUME Starting, pc = "start", Return("STARTED"), UNCHANGED <<handle, ops, routes>>,
              wild' = (wild \/ (ops[cur] /\ ~handle[cur]))
       PROVE BusInv'
  <2>1. wild' \in BOOLEAN /\ (~Replug => ~wild') /\ routes' \subseteq Route
    BY <1>0, <1>12 DEF TypeOK, BusInv, OpsMapped
  <2>2. /\ TypeOK' /\ Stages' /\ RunningListed' /\ Admitted'
        /\ UNCHANGED <<plugins, cur, todo, initialized>> /\ initialized
        /\ cur \in Plugins /\ state[cur] # "STARTED" /\ state'[cur] = "STARTED"
        /\ \A q \in Plugins \ {cur} : state'[q] = state[q]
        /\ pc' \in {"idle", "boot"} /\ ~Starting' /\ (boot' # 0 => boot # 0)
    BY <1>0, <1>12, <2>1, Returned
  <2>3. n \in 0 .. Len(Provides[cur])
    BY <1>0 DEF TypeOK
  <2>4. RoutesOwned'
    <3>1. First(cur, n) \subseteq ToSet(Provides[cur])
      BY <2>2, <2>3, FirstFacts
    <3> QED BY <1>0, <1>12, <2>2, <3>1 DEF RoutesOwned
  <2>5. RoutesOffered'
    <3>1. FirstFits(cur) => \A q \in ToSet(Provides[cur]) : At(q, cur) # {}
      BY <1>0, <1>12, <2>2, FirstFacts DEF RoutesOffered
    <3>2. \A q, u : At(q, u)' = At(q, u)
      BY <1>12 DEF At
    <3> QED BY <1>0, <1>12, <2>2, <3>1, <3>2 DEF RoutesOffered, FirstFits
  <2>6. ~Replug => OpsMapped'
    BY <1>0, <1>12, <2>1, <2>2 DEF BusInv, OpsMapped
  <2> QED BY <2>2, <2>4, <2>5, <2>6 DEF BusInv
<1>13. ASSUME Starting, pc = "start", Return("ERROR"), UNCHANGED <<handle, ops>>,
              routes' = Without(cur, Len(Provides[cur])),
              wild' = (wild \/ (ops[cur] /\ ~handle[cur]))
       PROVE BusInv'
  <2>1. routes' = {r \in routes : r.plugin_id # cur} /\ routes' \subseteq Route
    BY <1>0, <1>13, Withdrawn DEF TypeOK
  <2>2. wild' \in BOOLEAN /\ (~Replug => ~wild')
    BY <1>0, <1>13 DEF TypeOK, BusInv, OpsMapped
  <2>3. /\ TypeOK' /\ Stages' /\ RunningListed' /\ Admitted'
        /\ UNCHANGED <<plugins, cur, todo, initialized>> /\ initialized
        /\ cur \in Plugins /\ state[cur] # "STARTED" /\ state'[cur] = "ERROR"
        /\ \A q \in Plugins \ {cur} : state'[q] = state[q]
        /\ pc' \in {"idle", "boot"} /\ ~Starting' /\ (boot' # 0 => boot # 0)
    BY <1>0, <1>13, <2>1, <2>2, Returned
  <2>4. RoutesOwned' /\ RoutesOffered'
    BY <1>13, <2>1, <2>3, LeavesService
  <2>5. ~Replug => OpsMapped'
    BY <1>0, <1>13, <2>1, <2>2, <2>3 DEF BusInv, OpsMapped
  <2> QED BY <2>3, <2>4, <2>5 DEF BusInv
<1>14. ASSUME NEW p \in Plugins, hw_bus_stop(p) PROVE BusInv'
  <2>0. /\ pc = "idle" /\ initialized /\ p \in ToSet(plugins)
        /\ ~Replug => state[p] # "UNINSTALLED"
        /\ wild' = (wild \/ (ops[p] /\ ~handle[p])) /\ state \in [Plugins -> States]
        /\ state' = [state EXCEPT ![p] = "STOPPED"]
        /\ UNCHANGED <<plugins, handle, ops, control, initialized>>
    BY <1>0, <1>14 DEF hw_bus_stop, Idle, Usable, Call, TypeOK
  <2>1. routes' = {r \in routes : r.plugin_id # p}
    BY <1>14, Withdrawn DEF hw_bus_stop
  <2>2. TypeOK' /\ Stages' /\ RunningListed'
    BY <1>0, <2>0, <2>1 DEF TypeOK, States, Stages, Starting, RunningListed, Running
  <2>3. RoutesOwned' /\ RoutesOffered'
    BY <2>0, <2>1, LeavesService
  <2>4. (~Replug => OpsMapped') /\ Admitted'
    BY <1>0, <2>0, <2>1 DEF BusInv, Stages, OpsMapped, Starting, Admitted
  <2> QED BY <2>2, <2>3, <2>4 DEF BusInv
<1>15. ASSUME NEW p \in Plugins, hw_plugin_unload(p), ~Replug => state[p] # "UNINSTALLED",
              UNCHANGED <<pc, cur, n, boot, initialized>>, pc \in {"idle", "shutdown"},
              \/ pc = "idle" /\ UNCHANGED <<plugins, todo>>
              \/ pc = "shutdown" /\ plugins' = plugins /\ todo # <<>> /\ p = Head(todo)
                 /\ todo' = Tail(todo)
       PROVE BusInv'
  <2>0. /\ wild' = (wild \/ (ops[p] /\ ~handle[p])) /\ state \in [Plugins -> States]
        /\ handle \in [Plugins -> BOOLEAN] /\ ops \in [Plugins -> BOOLEAN]
        /\ handle' = [handle EXCEPT ![p] = FALSE] /\ UNCHANGED ops /\ boot = 0
        /\ state' = [state EXCEPT ![p] = "UNINSTALLED"] /\ plugins' = plugins
    BY <1>0, <1>15 DEF hw_plugin_unload, Call, TypeOK, Stages
  <2>1. /\ todo' \in Seq(Plugins)
        /\ (pc = "idle" /\ todo' = todo) \/ ToSet(todo) = {p} \cup ToSet(todo')
    <3>1. CASE pc = "idle"
      BY <1>0, <1>15, <3>1 DEF TypeOK
    <3>2. CASE pc = "shutdown"
      <4>1. todo \in Seq(Plugins) /\ todo # <<>>
        BY <1>0, <1>15, <3>2 DEF TypeOK
      <4>2. Tail(todo) \in Seq(Plugins) /\ ToSet(todo) = {Head(todo)} \cup ToSet(Tail(todo))
        BY <4>1, WorkedOff
      <4> QED BY <1>15, <3>2, <4>2
    <3> QED BY <1>15, <3>1, <3>2
  <2>2. routes' = {r \in routes : r.plugin_id # p} /\ RoutesOwned' /\ RoutesOffered'
    BY <1>15, Unloaded
  <2>3. TypeOK' /\ Stages' /\ RunningListed'
    BY <1>0, <1>15, <2>0, <2>1, <2>2 DEF TypeOK, States, Stages, Starting, RunningListed, Running
  <2>4. ~Replug => OpsMapped'
    <3>1. \A r \in routes : r.implementation = "interface" => r.plugin_id \in Plugins
      BY <1>0 DEF RoutesOwned, TypeOK
    <3> QED BY <1>0, <1>15, <2>0, <2>2, <3>1 DEF BusInv, OpsMapped, Starting
  <2>5. Admitted'
    BY <1>15 DEF Admitted
  <2> QED BY <2>2, <2>3, <2>4, <2>5 DEF BusInv
<1>16. ASSUME NEW p \in Plugins, hw_plugin_load_so(p) PROVE BusInv'
  <2>1. TypeOK' /\ Stages' /\ RunningListed'
    BY <1>0, <1>16 DEF TypeOK, Stages, Starting, RunningListed, Running, hw_plugin_load_so
  <2>2. RoutesOwned' /\ RoutesOffered'
    BY <1>16, RoutesKept DEF hw_plugin_load_so, Idle
  <2>3. (~Replug => OpsMapped') /\ Admitted'
    BY <1>0, <1>16 DEF BusInv, TypeOK, OpsMapped, Starting, Admitted, hw_plugin_load_so, Idle
  <2> QED BY <2>1, <2>2, <2>3 DEF BusInv
<1>17. ASSUME pc = "boot", boot <= Len(BootOrder), boot' = boot + 1,
              UNCHANGED <<plugins, life, pc, cur, n, todo, initialized, wild>>
       PROVE BusInv'
  <2>1. TypeOK' /\ Stages' /\ RunningListed'
    BY <1>0, <1>17, BusAssumption, SMTT(60) DEF TypeOK, Stages, Starting, RunningListed, Running
  <2>2. RoutesOwned' /\ RoutesOffered'
    BY <1>17, RoutesKept
  <2>3. (~Replug => OpsMapped') /\ Admitted'
    BY <1>0, <1>17 DEF BusInv, Stages, OpsMapped, Starting, Admitted
  <2> QED BY <2>1, <2>2, <2>3 DEF BusInv
<1>18. CASE BootDone
  <2>1. TypeOK' /\ Stages' /\ RunningListed'
    BY <1>0, <1>18, BusAssumption, SMTT(60) DEF TypeOK, Steps, Stages, Starting, RunningListed, Running, BootDone
  <2>2. RoutesOwned' /\ RoutesOffered'
    BY <1>18, RoutesKept DEF BootDone
  <2>3. (~Replug => OpsMapped') /\ Admitted'
    BY <1>0, <1>18 DEF BusInv, Stages, OpsMapped, Starting, Admitted, BootDone
  <2> QED BY <2>1, <2>2, <2>3 DEF BusInv
<1>19. CASE hw_bus_shutdown
  <2>0. plugins' = <<>> /\ ToSet(plugins') = {}
    BY <1>19 DEF hw_bus_shutdown, ToSet
  <2>1. TypeOK'
    BY <1>0, <1>19, <2>0 DEF TypeOK, Steps, IsInjective, hw_bus_shutdown
  <2>2. Stages' /\ RunningListed'
    BY <1>0, <1>19 DEF Stages, Starting, RunningListed, Running, hw_bus_shutdown, Idle
  <2>3. RoutesOwned' /\ RoutesOffered'
    BY <1>19, RoutesKept DEF hw_bus_shutdown, Idle
  <2>4. (~Replug => OpsMapped') /\ Admitted'
    BY <1>0, <1>19, <2>0 DEF BusInv, Stages, OpsMapped, Starting, Admitted, hw_bus_shutdown, Idle
  <2> QED BY <2>1, <2>2, <2>3, <2>4 DEF BusInv
<1>20. ASSUME ShutdownNext, ~Running(Head(todo)), UNCHANGED <<life, wild>> PROVE BusInv'
  <2>1. /\ Tail(todo) \in Seq(Plugins) /\ todo' = Tail(todo) /\ pc = "shutdown"
        /\ ToSet(todo) = {Head(todo)} \cup ToSet(todo')
        /\ UNCHANGED <<plugins, pc, cur, n, boot, initialized>>
    BY <1>0, <1>20, WorkedOff DEF TypeOK, ShutdownNext
  <2>2. TypeOK' /\ Stages' /\ RunningListed'
    BY <1>0, <1>20, <2>1 DEF TypeOK, Stages, Starting, RunningListed, Running
  <2>3. RoutesOwned' /\ RoutesOffered'
    BY <1>20, <2>1, RoutesKept
  <2>4. (~Replug => OpsMapped') /\ Admitted'
    BY <1>0, <1>20, <2>1 DEF BusInv, OpsMapped, Starting, Admitted
  <2> QED BY <2>2, <2>3, <2>4 DEF BusInv
<1>21. CASE ShutdownDone
  <2>1. \A p \in Plugins : state[p] # "STARTED" /\ ~Running(p)
    <3>1. ToSet(todo) = {}
      BY <1>21 DEF ShutdownDone, ToSet
    <3> QED BY <1>0, <1>21, <3>1 DEF RunningListed, Running, ShutdownDone
  <2>2. TypeOK' /\ Stages' /\ RunningListed'
    BY <1>0, <1>21, <2>1 DEF TypeOK, Steps, Stages, Starting, RunningListed, Running, ShutdownDone
  <2>3. RoutesOwned' /\ RoutesOffered'
    BY <1>21, <2>1 DEF RoutesOwned, RoutesOffered, ShutdownDone
  <2>4. (~Replug => OpsMapped') /\ Admitted'
    BY <1>0, <1>21 DEF BusInv, Stages, OpsMapped, Starting, Admitted, ShutdownDone
  <2> QED BY <2>2, <2>3, <2>4 DEF BusInv
<1>22. CASE UNCHANGED vars
  <2>1. TypeOK' /\ Stages' /\ RunningListed'
    BY <1>0, <1>22 DEF vars, TypeOK, Stages, Starting, RunningListed, Running
  <2>2. RoutesOwned' /\ RoutesOffered'
    BY <1>0, <1>22 DEF vars, RoutesOwned, RoutesOffered, At
  <2>3. (~Replug => OpsMapped') /\ (Admitted => Admitted')
    BY <1>22 DEF vars, BusInv, OpsMapped, Starting, Admitted, Directory!Offered
  <2> QED BY <2>1, <2>2, <2>3 DEF BusInv
<1>a. CASE \/ hw_bus_scan(0) \/ hw_bus_boot_chain \/ hw_bus_shutdown
  BY <1>1, <1>19, <1>a DEF hw_bus_boot_chain
<1>b. ASSUME NEW p \in Plugins, \/ hw_bus_load(p) \/ hw_bus_stop(p) \/ hw_bus_unload(p)
                                \/ hw_plugin_load_so(p)
      PROVE BusInv'
  <2>1. CASE hw_bus_load(p)
    BY <1>0, <1>4, <2>1, BusAssumption DEF hw_bus_load, Idle, Usable, Stages
  <2>2. CASE hw_bus_unload(p)
    BY <1>15, <2>2 DEF hw_bus_unload, Idle, Usable
  <2> QED BY <1>b, <1>14, <1>16, <2>1, <2>2
<1>c. CASE hw_plugin_start
  <2>1. CASE StartCheck
    BY <1>5, <1>6, <2>1 DEF StartCheck, Starting
  <2>2. CASE StartInit
    BY <1>6, <1>7, <2>2 DEF StartInit, Starting, Call
  <2>3. CASE plugin_register_provides
    BY <1>8, <1>9, <1>10, <2>3 DEF plugin_register_provides, Starting, Call
  <2>4. CASE StartStart
    BY <1>12, <1>13, <2>4 DEF StartStart, Starting, Call
  <2> QED BY <1>c, <1>11, <2>1, <2>2, <2>3, <2>4 DEF hw_plugin_start
<1>d. CASE BootNext
  <2>1. boot \in 1 .. Len(BootOrder) /\ initialized
    BY <1>0, <1>d, BusAssumption DEF TypeOK, Stages, BootNext
  <2>2. BootOrder[boot] \in Plugins
    BY <2>1, BusAssumption
  <2>3. ~Replug => \A p \in ToSet(plugins) : state[p] # "UNINSTALLED"
    BY <2>1 DEF BusInv, OpsMapped
  <2> QED BY <1>4, <1>17, <1>d, <2>1, <2>2, <2>3 DEF BootNext
<1>e. CASE ShutdownNext
  <2>1. Head(todo) \in Plugins
    BY <1>0, <1>e, WorkedOff DEF TypeOK, ShutdownNext
  <2> QED BY <1>15, <1>20, <1>e, <2>1 DEF ShutdownNext, Running
<1> QED
  BY <1>2, <1>3, <1>18, <1>21, <1>22, <1>a, <1>b, <1>c, <1>d, <1>e DEF Next, Step

\* What the bus keeps at every moment of every call (bus.c, loader.c).
THEOREM BusInvariant == Spec => []BusInv
  BY BusInitInv, BusStepInv, PTL DEF Spec

\* A route is only of a plugin in service or of the start under way.
LEMMA NoOrphans == BusInv => NoOrphanRoutes
  BY BusAssumption DEF BusInv, NoOrphanRoutes, ProvidedBy, At, RoutesOwned, AtRest

\* Whatever callback or allocation fails in hw_plugin_start and however its callers mix
\* stop, unload and load: a plugin that is not running has no route. No condition.
THEOREM BusLeavesNoOrphan == Spec => []NoOrphanRoutes
  BY NoOrphans, BusInvariant, PTL

\* The bus is sound at every moment for callers that leave a plugin alone after
\* hw_bus_unload and as far as no first registration runs out of memory: no route of a
\* plugin out of service, none missing of one in service, and nothing is reached through
\* a pointer into an unmapped .so.
THEOREM BusIsSound ==
  ASSUME ~Replug, \A p \in Plugins : FirstFits(p)
  PROVE  Spec => []BusSound
<1>1. BusInv => BusSound
  <2> SUFFICES ASSUME BusInv PROVE BusSound
    OBVIOUS
  <2>1. StartedServes
    BY DEF BusInv, StartedServes, ProvidedBy, RoutesOffered
  <2>2. ObjectsMapped
    BY DEF BusInv, ObjectsMapped, OpsMapped
  <2> QED BY <2>1, <2>2, NoOrphans DEF BusInv, BusSound
<1> QED BY <1>1, BusInvariant, PTL

\* A step changes the state of one plugin at most, and puts one into service at the
\* end of hw_plugin_start only.
LEMMA OnePlugin ==
  ASSUME BusInv, [Next]_vars
  PROVE  \/ UNCHANGED state
         \/ \E p \in Plugins, s \in States \ {"STARTED"} : state' = [state EXCEPT ![p] = s]
         \/ StartStart /\ state' = [state EXCEPT ![cur] = "STARTED"]
<1> USE DEF States
<1>1. cur \in Plugins /\ state \in [Plugins -> States]
  BY DEF BusInv, TypeOK
<1>2. CASE hw_plugin_start
  <2>1. CASE StartCheck
    <3>1. UNCHANGED state \/ state' = [state EXCEPT ![cur] = "ERROR"]
      BY <1>1, <2>1 DEF StartCheck, Goto, Return
    <3> QED BY <1>1, <3>1
  <2>2. CASE StartInit
    BY <1>1, <2>2 DEF StartInit, Goto, Return
  <2>3. CASE plugin_register_provides
    BY <1>1, <2>3 DEF plugin_register_provides, Goto, Return
  <2>4. CASE RegisterDone
    BY <1>1, <2>4 DEF RegisterDone, Goto
  <2>5. CASE StartStart
    BY <1>1, <2>5 DEF StartStart, Return
  <2> QED BY <1>2, <2>1, <2>2, <2>3, <2>4, <2>5 DEF hw_plugin_start
<1>3. CASE scan_dir_rec
  <2>1. Head(todo) \in Plugins
    BY <1>3, WorkedOff DEF BusInv, TypeOK, scan_dir_rec
  <2> QED BY <1>3, <2>1 DEF scan_dir_rec
<1>4. CASE ShutdownNext
  <2>1. Head(todo) \in Plugins
    BY <1>4, WorkedOff DEF BusInv, TypeOK, ShutdownNext
  <2> QED BY <1>4, <2>1 DEF ShutdownNext, hw_plugin_unload, life
<1>5. CASE ScanDone \/ BootDone \/ ShutdownDone \/ BootNext
  BY <1>5 DEF ScanDone, BootDone, ShutdownDone, BootNext, StartCall, life
<1>6. ASSUME NEW p \in Plugins, \/ hw_bus_load(p) \/ hw_bus_stop(p) \/ hw_bus_unload(p)
                                \/ hw_plugin_load_so(p)
      PROVE  UNCHANGED state \/ \E s \in States \ {"STARTED"} : state' = [state EXCEPT ![p] = s]
  BY <1>6 DEF hw_bus_load, StartCall, life, hw_bus_stop, hw_bus_unload, hw_plugin_unload,
     hw_plugin_load_so
<1>7. CASE hw_bus_scan(0) \/ hw_bus_boot_chain \/ hw_bus_shutdown \/ UNCHANGED vars
  BY <1>7 DEF hw_bus_boot_chain, hw_bus_scan, hw_bus_shutdown, life, vars
<1> QED BY <1>2, <1>3, <1>4, <1>5, <1>6, <1>7 DEF Next, Step

\* Every step of the bus is one of the directory's, or changes no service: what a
\* plugin enters service with was checked at the beginning of hw_plugin_start, and
\* nothing it relied on is withdrawn before it is started.
LEMMA DirectoryStep ==
  ASSUME \A p \in Plugins : FirstFits(p), BusInv, [Next]_vars
  PROVE  [Directory!Next]_{p \in Plugins : state[p] = "STARTED"}
<1> DEFINE serving == {p \in Plugins : state[p] = "STARTED"}
<1>1. cur \in Plugins /\ state \in [Plugins -> States]
  BY DEF BusInv, TypeOK
<1>2. CASE UNCHANGED state
  BY <1>2
<1>3. ASSUME NEW p \in Plugins, NEW s \in States \ {"STARTED"}, state' = [state EXCEPT ![p] = s]
      PROVE  [Directory!Next]_serving
  <2>1. serving' = serving \ {p}
    BY <1>1, <1>3
  <2>2. p \in serving => Directory!Leave(p)
    BY <2>1 DEF Directory!Leave
  <2> QED BY <2>1, <2>2 DEF Directory!Next
<1>4. CASE StartStart /\ state' = [state EXCEPT ![cur] = "STARTED"]
  <2> PICK p \in Plugins : p = cur
    BY <1>1
  <2>1. serving' = serving \cup {p} /\ p \notin serving /\ Admitted
    BY <1>1, <1>4 DEF BusInv, Stages, Starting, StartStart
  <2>2. /\ ToSet(Requires[p]) \subseteq Directory!Offered
        /\ ToSet(Conflicts[p]) \cap Directory!Offered = {}
    BY <1>4, <2>1 DEF Admitted, StartStart
  <2>3. Directory!Enter(p)
    BY <2>1, <2>2 DEF Directory!Enter, Directory!ToSet, ToSet
  <2> QED BY <2>3 DEF Directory!Next
<1> QED BY <1>2, <1>3, <1>4, OnePlugin

\* The bus keeps its promise to the plugins, ServiceDirectory, for every system of
\* plugins and every failing callback, as far as no first registration runs out of memory.
THEOREM BusKeepsDirectory ==
  ASSUME \A p \in Plugins : FirstFits(p)
  PROVE  Spec => KeepsDirectory
<1>1. Init => Directory!Init
  BY DEF Init, Directory!Init
<1>2. BusInv /\ [Next]_vars => [Directory!Next]_{p \in Plugins : state[p] = "STARTED"}
  BY DirectoryStep
<1> QED BY <1>1, <1>2, BusInvariant, PTL DEF Spec, KeepsDirectory, Directory!Spec

\* main leaves hw_bus_shutdown before it returns, and the shutdown has emptied the registry.
MainInv == BusInv /\ (~initialized => routes = {}) /\ (at = "exit" => ~initialized)

\* The bus does nothing any more once it has shut down.
LEMMA ShutDownRests ==
  ASSUME BusInv, ~initialized => routes = {}, [Next]_vars
  PROVE  (~initialized' => routes' = {}) /\ (~initialized => ~initialized')
<1>1. CASE initialized /\ ~ShutdownDone
  <2>1. initialized'
    BY <1>1 DEF Next, Step, hw_bus_scan, hw_bus_boot_chain, hw_bus_shutdown, hw_bus_load, StartCall,
       hw_bus_stop, hw_bus_unload, hw_plugin_load_so, scan_dir_rec, ScanDone, hw_plugin_start,
       StartCheck, StartInit, plugin_register_provides, RegisterDone, StartStart, Goto, Return,
       BootNext, BootDone, ShutdownNext, vars
  <2> QED BY <1>1, <2>1
<1>2. CASE ShutdownDone
  BY <1>2 DEF ShutdownDone
<1>3. CASE ~initialized
  <2>1. pc = "idle"
    BY <1>3 DEF BusInv, Stages
  <2>2. UNCHANGED vars
    BY <1>3, <2>1 DEF Next, Step, Idle, hw_bus_scan, hw_bus_boot_chain, hw_bus_shutdown, hw_bus_load,
       hw_bus_stop, hw_bus_unload, hw_plugin_load_so, scan_dir_rec, ScanDone, hw_plugin_start,
       StartCheck, StartInit, plugin_register_provides, RegisterDone, StartStart, BootNext,
       BootDone, ShutdownNext, ShutdownDone
  <2> QED BY <1>3, <2>2 DEF vars
<1> QED BY <1>1, <1>2, <1>3

\* main, between the signals, makes no step with the bus that the bus could not make,
\* and returns from its shutdown only.
LEMMA MainStepInv == MainInv /\ [MainNext]_mainVars => MainInv'
<1> SUFFICES ASSUME MainInv, [MainNext]_mainVars PROVE MainInv'
  OBVIOUS
<1>1. [Next]_vars
  BY DEF MainNext, MainStep, MainBoot, MainBus, MainArm, MainHandlers, MainTest, MainPause,
     MainShutdown, MainExit, Signal, Next, mainVars
<1>2. BusInv' /\ (~initialized' => routes' = {}) /\ (~initialized => ~initialized')
  BY <1>1, BusStepInv, ShutDownRests DEF MainInv
<1>3. at' = "exit" => ~initialized
  BY DEF MainInv, MainNext, MainStep, MainBoot, MainBus, MainArm, MainHandlers, MainTest, MainPause,
     MainShutdown, MainExit, Signal, Go, mainVars
<1> QED BY <1>2, <1>3 DEF MainInv

\* Whenever the signal comes and whatever failed during boot, the process that exits has
\* no plugin running and no route left (main.c, hw_bus_shutdown).
THEOREM MainExitsClean == MainSpec => []ExitClean
<1>1. MainInit => MainInv
  BY BusInitInv DEF MainInit, MainInv, Init
<1>2. MainInv => ExitClean
  BY DEF MainInv, ExitClean, BusInv, Stages, RunningListed, Running
<1> QED BY <1>1, <1>2, MainStepInv, PTL DEF MainSpec

\* The boot chain is under way.
InBoot == pc \in {"scan", "boot"} \/ Starting

\* While main boots: no plugin has callbacks, every plugin found has a place in the
\* table, the one being started is where the loop is, what is started had its
\* requirements met, and what the loop has gone past runs or cannot.
BootInv ==
  /\ \A p \in Plugins : ~ops[p]
  /\ at = "start" => pc = "idle" /\ plugins = <<>>
  /\ InBoot =>
       /\ boot # 0 /\ (pc = "scan" => boot = 1) /\ (Starting => cur = BootOrder[boot])
       /\ ToSet(plugins) \cup ToSet(todo) \subseteq ToSet(BootOrder)
       /\ \A p \in Plugins :
            state[p] = "STARTED" \/ (p = cur /\ pc \in {"init", "register", "start"}) =>
              check_deps(p)
       /\ \A i \in 1 .. boot - 1 :
            Known(BootOrder[i]) /\ check_deps(BootOrder[i]) => state[BootOrder[i]] = "STARTED"

\* What the boot loop has found out stays so when a step registers at most protocols of
\* the plugin it is at, and withdraws nothing.
LEMMA DepsKept ==
  ASSUME BusInv, BootInv, TableInOrder, Starting,
         \A q : Registered(q) => Registered(q)',
         \A q : Registered(q)' => Registered(q) \/ q \in ToSet(Provides[cur])
  PROVE  /\ \A p \in Plugins : check_deps(p) => check_deps(p)'
         /\ \A i \in 1 .. boot - 1 : check_deps(BootOrder[i])' <=> check_deps(BootOrder[i])
<1>1. \A p \in Plugins : check_deps(p) => check_deps(p)'
  BY DEF check_deps
<1>2. boot \in DOMAIN BootOrder /\ cur = BootOrder[boot] /\ boot \in Nat
  BY BusAssumption DEF BusInv, Stages, TypeOK, BootInv, InBoot
<1>3. ASSUME NEW i \in 1 .. boot - 1 PROVE check_deps(BootOrder[i])' <=> check_deps(BootOrder[i])
  <2>1. i \in DOMAIN BootOrder /\ i < boot /\ BootOrder[i] \in Plugins
    <3>1. BootOrder \in Seq(Plugins)
      BY BusAssumption
    <3>2. PICK m \in Nat : m = Len(BootOrder) /\ DOMAIN BootOrder = 1 .. m
      BY <3>1
    <3>3. i \in 1 .. m /\ i < boot
      BY <1>2, <1>3, <3>2
    <3> QED BY <3>1, <3>2, <3>3
  <2>2. ToSet(Requires[BootOrder[i]]) \cap ToSet(Provides[cur]) = {}
    <3>1. ~ boot < i
      BY <1>2, <2>1
    <3> QED BY <1>2, <2>1, <3>1 DEF TableInOrder
  <2> QED BY <2>1, <2>2, <1>1 DEF check_deps
<1> QED BY <1>1, <1>3

\* hw_plugin_start goes on, or returns: the plugin runs, or its requirements are not met.
LEMMA StartKeepsBoot ==
  ASSUME BusInv, BootInv, TableInOrder, hw_plugin_start, at' # "start" \/ at = "start"
  PROVE  BootInv'
<1>1. Starting /\ InBoot /\ cur \in Plugins /\ boot \in Nat /\ boot # 0 /\ ~MayFail(cur) /\ ~HasConflict(cur)
      /\ at # "start" /\ at' # "start" /\ cur = BootOrder[boot]
  <2>1. Starting
    BY DEF hw_plugin_start, StartCheck, StartInit, plugin_register_provides, RegisterDone, StartStart, Starting
  <2>2. cur \in Plugins /\ boot \in Nat
    BY DEF BusInv, TypeOK
  <2>3. Conflicts[cur] = <<>>
    BY <2>2 DEF TableInOrder
  <2> QED BY <2>1, <2>2, <2>3 DEF BootInv, InBoot, Starting, MayFail, HasConflict, ToSet
<1>2. plugin_register_provides => n = 0 /\ n + 1 \in 1 .. Len(Provides[cur])
  BY <1>1, BusAssumption, SMTT(60) DEF plugin_register_provides, TableInOrder, BusInv, TypeOK
<1>3. /\ \A q : Registered(q) => Registered(q)'
      /\ \A q : Registered(q)' => Registered(q) \/ q \in ToSet(Provides[cur])
  <2>1. CASE UNCHANGED routes
    BY <2>1 DEF Registered
  <2>2. CASE plugin_register_provides /\ ~UNCHANGED routes
    <3>1. PICK impl \in Implementations(cur) : routes' = WithRoute(RouteOf(Provides[cur][n + 1], cur, impl))
      BY <1>2, <2>2 DEF plugin_register_provides
    <3>2. Provides[cur][n + 1] \in ToSet(Provides[cur])
      <4>1. Provides[cur] \in Seq(Protocols)
        BY <1>1, BusAssumption
      <4>2. n + 1 \in DOMAIN Provides[cur]
        BY <4>1, <1>2, <2>2
      <4> QED BY <4>2 DEF ToSet
    <3>3. PICK x \in ToSet(Provides[cur]) : routes' = (routes \ At(x, cur)) \cup {RouteOf(x, cur, impl)}
      BY <3>1, <3>2 DEF WithRoute, RouteOf
    <3>4. \A r \in At(x, cur) : r.protocol = x
      BY DEF At
    <3>5. RouteOf(x, cur, impl).protocol = x /\ RouteOf(x, cur, impl) \in routes'
      BY <3>3 DEF RouteOf
    <3>6. \A r \in routes' : r \in routes \/ r.protocol = x
      BY <3>3, <3>5
    <3>7. \A r \in routes : r \in routes' \/ r.protocol = x
      BY <3>3, <3>4
    <3> HIDE DEF At, RouteOf
    <3> QED BY <3>5, <3>6, <3>7 DEF Registered
  <2> QED BY <2>1, <2>2, <1>1 DEF hw_plugin_start, StartCheck, StartInit, RegisterDone, StartStart, MayFail
<1>4. /\ \A p \in Plugins : check_deps(p) => check_deps(p)'
      /\ \A i \in 1 .. boot - 1 : check_deps(BootOrder[i])' <=> check_deps(BootOrder[i])
  BY <1>1, <1>3, DepsKept
<1>5. /\ UNCHANGED <<plugins, ops, cur, todo>>
      /\ \A p \in Plugins \ {cur} : state'[p] = state[p]
  BY DEF hw_plugin_start, StartCheck, StartInit, plugin_register_provides, RegisterDone, StartStart,
     Goto, Return, BusInv, TypeOK
<1>6. \/ /\ Starting' /\ pc' # "check" /\ boot' = boot /\ state'[cur] # "STARTED"
         /\ check_deps(cur)
      \/ /\ pc' = "boot" /\ boot' = boot + 1
         /\ \/ state'[cur] = "STARTED" /\ check_deps(cur)
            \/ state'[cur] # "STARTED" /\ ~check_deps(cur)' /\ Known(cur)
  <2>0. state \in [Plugins -> States] /\ state[cur] # "STARTED" /\ Known(cur)
        /\ (pc # "check" => check_deps(cur))
    BY <1>1 DEF BusInv, TypeOK, Stages, BootInv, Starting, Known
  <2>1. CASE StartCheck
    <3>1. UNCHANGED routes /\ pc = "check"
      BY <2>1 DEF StartCheck
    <3>2. check_deps(cur) <=> check_deps(cur)'
      BY <3>1, <1>5 DEF check_deps, Registered
    <3> QED BY <1>1, <2>0, <2>1, <3>2 DEF StartCheck, Goto, Return, Starting
  <2>2. CASE StartInit
    BY <1>1, <2>0, <2>2 DEF StartInit, Goto, Return, Starting
  <2>3. CASE plugin_register_provides
    BY <1>1, <1>2, <2>0, <2>3 DEF plugin_register_provides, Goto, Return, Starting
  <2>4. CASE RegisterDone
    BY <1>1, <2>0, <2>4 DEF RegisterDone, Goto, Return, Starting
  <2>5. CASE StartStart
    BY <1>1, <2>0, <2>5 DEF StartStart, Goto, Return, Starting
  <2> QED BY <2>1, <2>2, <2>3, <2>4, <2>5 DEF hw_plugin_start
<1>7. (\A i \in 1 .. boot - 1 :
        Known(BootOrder[i])' /\ check_deps(BootOrder[i])' => state'[BootOrder[i]] = "STARTED")
  <2> SUFFICES ASSUME NEW i \in 1 .. boot - 1, Known(BootOrder[i])', check_deps(BootOrder[i])'
               PROVE  state'[BootOrder[i]] = "STARTED"
    OBVIOUS
  <2>1. Known(BootOrder[i]) /\ check_deps(BootOrder[i])
    BY <1>4, <1>5 DEF Known
  <2>2. state[BootOrder[i]] = "STARTED"
    BY <2>1, <1>1 DEF BootInv
  <2>3. BootOrder[i] \in Plugins /\ BootOrder[i] # cur
    BY <2>1, <2>2, <1>1 DEF BusInv, Stages, TypeOK, Known, ToSet
  <2> QED BY <1>5, <2>2, <2>3
<1>8. \A p \in Plugins :
        state'[p] = "STARTED" \/ (p = cur /\ pc' \in {"init", "register", "start"}) => check_deps(p)'
  BY <1>1, <1>4, <1>5, <1>6 DEF BootInv, Starting
<1>9. \A i \in 1 .. boot' - 1 :
        Known(BootOrder[i])' /\ check_deps(BootOrder[i])' => state'[BootOrder[i]] = "STARTED"
  <2>1. boot' = boot \/ (boot' = boot + 1 /\ (check_deps(cur)' => state'[cur] = "STARTED"))
    BY <1>6
  <2>2. \A i \in 1 .. boot : i \in 1 .. boot - 1 \/ i = boot
    BY <1>1
  <2>3. boot' = boot + 1 => boot' - 1 = boot
    BY <1>1
  <2>4. CASE boot' = boot
    BY <2>4, <1>7
  <2>5. CASE boot' = boot + 1 /\ (check_deps(cur)' => state'[cur] = "STARTED")
    <3> SUFFICES ASSUME NEW i \in 1 .. boot' - 1, Known(BootOrder[i])', check_deps(BootOrder[i])'
                 PROVE  state'[BootOrder[i]] = "STARTED"
      OBVIOUS
    <3>1. CASE i \in 1 .. boot - 1
      BY <3>1, <1>7
    <3>2. CASE i = boot
      <4>1. check_deps(cur)'
        BY <1>1, <1>5, <3>2
      <4> QED BY <1>1, <2>5, <3>2, <4>1
    <3> QED BY <2>2, <2>3, <2>5, <3>1, <3>2
  <2> QED BY <2>1, <2>4, <2>5
<1>10. \A p \in Plugins : ~ops'[p]
  BY <1>5 DEF BootInv
<1>11. ToSet(plugins)' \cup ToSet(todo)' \subseteq ToSet(BootOrder)
  <2>1. ToSet(plugins) \cup ToSet(todo) \subseteq ToSet(BootOrder)
    BY <1>1, Zenon DEF BootInv
  <2>2. ToSet(plugins)' = ToSet(plugins) /\ ToSet(todo)' = ToSet(todo)
    BY <1>5, Zenon DEF ToSet
  <2>3. QED
    BY <2>1, <2>2, Zenon
<1> QED BY <1>1, <1>5, <1>6, <1>8, <1>9, <1>10, <1>11 DEF BootInv, InBoot, Starting

\* So does every other step of main, of the bus and of the signal handler.
LEMMA BootStep ==
  ASSUME BusInv, BootInv, TableInOrder, MainStep \/ Signal
  PROVE  BootInv'
<1>0. at' = "start" => at = "start"
  BY DEF MainStep, Signal, MainBoot, MainBus, MainArm, MainHandlers, MainTest, MainPause, MainShutdown, MainExit, Go
<1>1. CASE UNCHANGED vars
  <2>1. \A q : Registered(q)' <=> Registered(q)
    BY <1>1 DEF Registered, vars, life
  <2>2. \A p : check_deps(p)' <=> check_deps(p)
    BY <2>1 DEF check_deps
  <2>3. \A p : Known(p)' <=> Known(p)
    BY <1>1 DEF Known, vars
  <2>4. UNCHANGED <<plugins, state, ops, pc, cur, boot, todo>>
    BY <1>1 DEF vars
  <2> QED BY <1>0, <2>2, <2>3, <2>4, ZenonT(60) DEF BootInv, InBoot, Starting, ToSet
<1>2. CASE MainBoot
  <2>1. \A p \in Plugins : state[p] # "STARTED"
    BY <1>2 DEF MainBoot, Go, BootInv, BusInv, RunningListed, Running, Known, ToSet
  <2>2. todo' \in Listings /\ pc' = "scan" /\ boot' = 1 /\ UNCHANGED <<plugins, life>> /\ plugins = <<>> /\ at' # "start"
    BY <1>2 DEF MainBoot, Go, hw_bus_boot_chain, hw_bus_scan, BootInv
  <2>3. ToSet(plugins)' = {} /\ ToSet(todo)' \subseteq ToSet(BootOrder)
    BY <2>2 DEF TableInOrder, ToSet
  <2> QED BY <2>1, <2>2, <2>3 DEF BootInv, InBoot, Starting, life
<1>3. CASE MainShutdown
  <2>1. pc' = "shutdown" /\ UNCHANGED ops /\ at' # "start"
    BY <1>3 DEF MainShutdown, Go, hw_bus_shutdown, life
  <2> QED BY <2>1 DEF BootInv, InBoot, Starting
<1>4. CASE MainBus
  <2>0. at' = at /\ at # "start"
    BY <1>4 DEF MainBus
  <2>1. CASE hw_plugin_start
    BY <2>0, <2>1, StartKeepsBoot
  <2>2. CASE scan_dir_rec
    <3>0. pc = "scan" /\ boot = 1 /\ todo # <<>> /\ todo \in Seq(Plugins) /\ InBoot /\ state \in [Plugins -> States]
      BY <2>2 DEF scan_dir_rec, BootInv, InBoot, BusInv, TypeOK
    <3>1. UNCHANGED <<handle, ops, routes, pc, cur, n, boot>> /\ todo' = Tail(todo)
      BY <2>2 DEF scan_dir_rec
    <3>2. ToSet(todo)' \subseteq ToSet(todo) /\ Head(todo) \in ToSet(todo)
      BY <3>0, <3>1 DEF ToSet
    <3>3. ToSet(plugins)' \subseteq ToSet(plugins) \cup {Head(todo)}
      <4>1. plugins \in Seq(Plugins) /\ Head(todo) \in Plugins
        BY <3>0 DEF BusInv, TypeOK
      <4>2. CASE plugins' = plugins
        BY <4>2 DEF ToSet
      <4>3. CASE plugins' = <<Head(todo)>> \o plugins
        BY <4>1, <4>3, Prepended DEF ToSet
      <4> QED BY <2>2, <4>2, <4>3 DEF scan_dir_rec
    <3>4. \A p \in Plugins : state'[p] = "STARTED" => state[p] = "STARTED"
      BY <2>2, <3>0 DEF scan_dir_rec
    <3>5. \A p : check_deps(p)' <=> check_deps(p)
      BY <3>1 DEF check_deps, Registered
    <3> QED BY <2>0, <3>0, <3>1, <3>2, <3>3, <3>4, <3>5 DEF BootInv, InBoot, Starting
  <2>3. CASE ScanDone \/ BootNext
    <3>1. UNCHANGED <<plugins, life, todo>> /\ InBoot
      BY <2>3 DEF ScanDone, BootNext, StartCall, InBoot
    <3>2. \A p : check_deps(p)' <=> check_deps(p)
      BY <3>1 DEF check_deps, Registered, life
    <3>3. UNCHANGED <<plugins, state, ops, todo>> /\ boot \in Nat /\ boot # 0
      BY <3>1 DEF life, BusInv, TypeOK, BootInv
    <3>4. CASE ScanDone
      BY <2>0, <3>1, <3>2, <3>3, <3>4 DEF ScanDone, BootInv, InBoot, Starting, Known
    <3>5. CASE BootNext /\ pc' = "boot"
      <4>1. boot' = boot + 1 /\ (~Known(BootOrder[boot]) \/ state[BootOrder[boot]] = "STARTED") /\ pc = "boot"
        BY <3>5 DEF BootNext, StartCall
      <4> QED BY <2>0, <3>1, <3>2, <3>3, <3>5, <4>1 DEF BootInv, InBoot, Starting, Known
    <3>6. CASE BootNext /\ pc' # "boot"
      <4>1. pc' = "check" /\ cur' = BootOrder[boot] /\ UNCHANGED boot /\ pc = "boot"
        BY <3>6 DEF BootNext, StartCall
      <4> QED BY <2>0, <3>1, <3>2, <3>3, <3>6, <4>1 DEF BootInv, InBoot, Starting, Known
    <3> QED BY <2>3, <3>4, <3>5, <3>6
  <2>4. CASE BootDone \/ ShutdownDone \/ ShutdownNext
    <3>1. pc' \in {"idle", "shutdown"} /\ UNCHANGED ops
      BY <2>4 DEF BootDone, ShutdownDone, ShutdownNext, hw_plugin_unload, life
    <3> QED BY <2>0, <3>1 DEF BootInv, InBoot, Starting
  <2> QED BY <1>4, <2>1, <2>2, <2>3, <2>4 DEF MainBus, Step
<1> QED BY <1>1, <1>2, <1>3, <1>4 DEF MainStep, Signal, MainArm, MainHandlers, MainTest, MainPause, MainExit

\* When the loop is past the table, what runs is what can.
LEMMA BootEnds ==
  ASSUME BusInv, BootInv, TableInOrder
  PROVE  BootComplete
<1> DEFINE up == {p \in Plugins : state[p] = "STARTED"}
<1> SUFFICES ASSUME pc = "boot", boot > Len(BootOrder)
             PROVE  up = UNION {S \in SUBSET ToSet(plugins) : SelfSupporting(S)}
  BY DEF BootComplete
<1>0. /\ boot \in Nat /\ BootOrder \in Seq(Plugins) /\ ToSet(plugins) \subseteq Plugins /\ initialized
      /\ ToSet(plugins) \subseteq ToSet(BootOrder)
  <2>1. plugins \in Seq(Plugins) /\ initialized
    BY DEF BusInv, TypeOK, Stages
  <2>2. ToSet(plugins) \subseteq Plugins
    BY <2>1 DEF ToSet
  <2> QED BY <2>1, <2>2, BusAssumption, SMTT(60) DEF BusInv, TypeOK, BootInv, InBoot
<1>1. \A q : Registered(q) => q \in ToSet(Builtins) \/ \E p \in up : q \in ProvidedBy(p)
  <2> SUFFICES ASSUME NEW r \in routes PROVE r.protocol \in ToSet(Builtins) \/ \E p \in up : r.protocol \in ProvidedBy(p)
    BY DEF Registered
  <2> QED BY DEF BusInv, RoutesOwned, ProvidedBy, At
<1>2. up \in SUBSET ToSet(plugins) /\ SelfSupporting(up)
  <2>1. up \subseteq ToSet(plugins)
    BY DEF BusInv, RunningListed, Running, Known
  <2>2. ASSUME NEW p \in up PROVE check_deps(p)
    BY DEF BootInv, InBoot
  <2>3. ASSUME NEW p \in up, NEW q \in ToSet(Requires[p])
        PROVE  q \in ToSet(Builtins) \cup UNION {ProvidedBy(u) : u \in up}
    BY <2>2, <1>1 DEF check_deps
  <2>4. \A p \in up : Requires[p] # <<>>
    BY <2>2 DEF check_deps
  <2> HIDE DEF up
  <2> QED BY <2>1, <2>3, <2>4 DEF SelfSupporting
<1>3. ASSUME NEW S \in SUBSET ToSet(plugins), SelfSupporting(S), NEW p \in S PROVE p \in up
  <2>1. PICK i \in 1 .. boot - 1 : BootOrder[i] = p
    <3>1. p \in ToSet(BootOrder)
      BY <1>0, <1>3
    <3>2. PICK m \in Nat : m = Len(BootOrder) /\ DOMAIN BootOrder = 1 .. m
      BY <1>0
    <3>3. PICK i \in 1 .. m : BootOrder[i] = p
      BY <3>1, <3>2 DEF ToSet
    <3>4. i \in 1 .. boot - 1
      BY <1>0, <3>2, <3>3
    <3> QED BY <3>3, <3>4
  <2>2. \A q \in ToSet(Requires[p]) : Registered(q)
    <3> SUFFICES ASSUME NEW q \in ToSet(Requires[p]) PROVE Registered(q)
      OBVIOUS
    <3>1. q \in ToSet(Builtins) \/ \E u \in S : q \in ProvidedBy(u)
      BY <1>3 DEF SelfSupporting
    <3> QED BY <3>1, <1>0 DEF BusInv, RoutesOffered, Registered, At, ProvidedBy
  <2>3. check_deps(p) /\ Known(p) /\ p \in Plugins
    BY <1>0, <1>3, <2>2 DEF SelfSupporting, check_deps, Known
  <2> QED BY <2>1, <2>3 DEF BootInv, InBoot
<1> HIDE DEF up
<1> QED BY <1>2, <1>3

\* Where boot_order keeps the order of the plugins' requirements, as the table of this
\* repository does, the boot chain leaves running exactly the plugins that can run,
\* whichever are installed, in whatever order they are found and whenever a signal
\* comes; and main exits with nothing running and no route left (hw_bus_boot_chain,
\* hw_plugin_start, hw_bus_shutdown).
THEOREM MainIsSound ==
  ASSUME TableInOrder
  PROVE  MainSpec => []MainSound
<1>1. MainInit => MainInv /\ BootInv
  <2> SUFFICES ASSUME MainInit PROVE BootInv
    BY BusInitInv DEF MainInit, MainInv, Init
  <2> QED BY DEF MainInit, Init, BootInv, InBoot, Starting
<1>2. MainInv /\ BootInv /\ [MainNext]_mainVars => MainInv' /\ BootInv'
  <2> SUFFICES ASSUME MainInv, BootInv, [MainNext]_mainVars PROVE BootInv'
    BY MainStepInv
  <2>1. CASE MainNext
    BY <2>1, BootStep DEF MainNext, MainInv
  <2>2. CASE UNCHANGED mainVars
    BY <2>2 DEF mainVars, vars, life, BootInv, InBoot, Starting, check_deps, Registered, Known, ToSet
  <2> QED BY <2>1, <2>2
<1>3. MainInv /\ BootInv => MainSound
  BY BootEnds DEF MainSound, MainInv, ExitClean, BusInv, Stages, RunningListed, Running
<1> QED BY <1>1, <1>2, <1>3, PTL DEF MainSpec

-----------------------------------------------------------------------------
(* hwlock.c, for any set of threads and of lockers: the sections that      *)
(* hw_bus and the plugins enter are exclusive, also across the moment main *)
(* arms the lockers.                                                       *)

\* hw_locker_init establishes the invariant.
LEMMA LockBegins == LockInit => LockInv
BY LockAssumption DEF LockInit, LockInv, LockTypeOK, HoldersAgree, BootAlone, UnlocksOwnLock

\* Arming, locking and unlocking keep it, one step per operation.
LEMMA LockStep == LockInv /\ [LockNext]_lockVars => LockInv'
<1> SUFFICES ASSUME LockInv, [LockNext]_lockVars PROVE LockInv'
  OBVIOUS
<1> USE LockAssumption DEF LockInv, LockTypeOK, HoldersAgree, BootAlone, UnlocksOwnLock, RW, MTX
<1>1. CASE hw_locker_enable_parallel
  BY <1>1, ZenonT(60) DEF hw_locker_enable_parallel, InBody, HoldersOf
<1>2. ASSUME NEW t \in LockThreads, NEW k \in Lockers, hw_locker_rdlock(t, k) PROVE LockInv'
  <2> USE <1>2 DEF hw_locker_rdlock
  <2>1. LockTypeOK'
    BY DEF TakeShared, TakeExclusive
  <2>2. BootAlone'
    BY DEF Runs
  <2>3. CASE ~armed
    BY <2>1, <2>2, <2>3
  <2>4. CASE armed
    <3>1. HoldersOf(k)'
      <4>1. CASE Kind[k] = MTX
        BY <2>4, <4>1 DEF TakeExclusive, HoldersOf
      <4>2. CASE Kind[k] = RW
        BY <2>4, <4>2 DEF TakeShared, TakeExclusive, HoldersOf
      <4>3. QED
        BY <4>1, <4>2
    <3>2. ASSUME NEW j \in Lockers, j # k PROVE HoldersOf(j)'
      BY <2>4, <3>2, ZenonT(60) DEF TakeShared, TakeExclusive, HoldersOf
    <3>3. HoldersAgree'
      BY <3>1, <3>2
    <3>4. QED
      BY <2>1, <2>2, <2>4, <3>3
  <2>5. QED
    BY <2>3, <2>4
<1>3. ASSUME NEW t \in LockThreads, NEW k \in Lockers, hw_locker_wrlock(t, k) PROVE LockInv'
  <2> USE <1>3 DEF hw_locker_wrlock
  <2>1. LockTypeOK'
    BY DEF TakeShared, TakeExclusive
  <2>2. BootAlone'
    BY DEF Runs
  <2>3. CASE ~armed
    BY <2>1, <2>2, <2>3
  <2>4. CASE armed
    <3>1. HoldersOf(k)'
      <4>1. CASE Kind[k] = MTX
        BY <2>4, <4>1 DEF TakeExclusive, HoldersOf
      <4>2. CASE Kind[k] = RW
        BY <2>4, <4>2 DEF TakeShared, TakeExclusive, HoldersOf
      <4>3. QED
        BY <4>1, <4>2
    <3>2. ASSUME NEW j \in Lockers, j # k PROVE HoldersOf(j)'
      BY <2>4, <3>2 DEF TakeShared, TakeExclusive, HoldersOf
    <3>3. HoldersAgree'
      BY <3>1, <3>2
    <3>4. QED
      BY <2>1, <2>2, <2>4, <3>3
  <2>5. QED
    BY <2>3, <2>4
<1>4. ASSUME NEW t \in LockThreads, NEW k \in Lockers, hw_locker_unlock(t, k) PROVE LockInv'
  <2> USE <1>4 DEF hw_locker_unlock
  <2>1. LockTypeOK'
    OBVIOUS
  <2>2. BootAlone'
    OBVIOUS
  <2>3. UnlocksOwnLock'
    BY DEF HoldersOf
  <2>4. HoldersAgree'
    BY DEF HoldersOf
  <2>5. QED
    BY <2>1, <2>2, <2>3, <2>4
<1>5. CASE UNCHANGED lockVars
  BY <1>5 DEF lockVars, HoldersOf
<1>6. QED
  BY <1>1, <1>2, <1>3, <1>4, <1>5 DEF LockNext

\* The guard bodies, the pthread holders and the switch stay consistent in
\* every reachable state (hw_locker_rdlock, hw_locker_wrlock, hw_locker_unlock).
THEOREM LockInvariant == LockSpec => []LockInv
BY LockBegins, LockStep, PTL DEF LockSpec

\* HW_WRLOCK_GUARD excludes every other guard body of its locker, for any
\* number of threads and lockers and across hw_locker_enable_parallel.
THEOREM LockExclusion == LockSpec => []Exclusion
<1>1. LockInv => Exclusion
  BY LockAssumption DEF LockInv, LockTypeOK, HoldersAgree, HoldersOf, BootAlone, Exclusion, RW, MTX
<1>2. QED
  BY <1>1, LockInvariant, PTL

\* hw_locker_unlock releases only what the thread's own guard took.
THEOREM LockUnlocksOwn == LockSpec => []UnlocksOwnLock
<1>1. LockInv => UnlocksOwnLock
  BY DEF LockInv
<1>2. QED
  BY <1>1, LockInvariant, PTL

-----------------------------------------------------------------------------
(* The reader of plugin.yml.                                                 *)

\* A parsed file.
Parsed == [field : [Fields -> Words \cup {Blank}], list : [Proto -> Seq(Words)]]
\* A place in the document.
Uses == ({"field"} \X Fields) \cup ({"list"} \X Lists)
Spots == [base : {0, 2}, list : Lists \cup {Blank}, items : {0, 2, 4}, inItem : BOOLEAN,
          bare : BOOLEAN, used : SUBSET Uses]

\* What is kept of a list of the file.
Kept(words) == SubSeq(words, 1, Min({ListMax, Len(words)}))

\* The inductive invariant: the parser is in the section of the list the author is
\* in, as long as no item had a key without a value, and the base of the document
\* is never to the right of the section's header, so that its fields are read.
YmlInv ==
  /\ d \in Parsed /\ written \in Parsed /\ place \in Spots /\ lines \in Nat
  /\ section \in Lists \cup {Blank, "default"} /\ sec_indent \in {-1, 0, 2, 4, 6}
  /\ lines = 0 => section = Blank /\ place.list = Blank
  /\ section # Blank => place.base <= sec_indent
  /\ place.list # Blank => place.base <= place.items
  /\ place.inItem => place.list # Blank
  /\ place.list # Blank /\ ~place.bare => section = place.list /\ sec_indent = place.base
  /\ d.field = written.field
  /\ \A s \in Proto : d.list[s] = Kept(written.list[s])

\* The shorter of a list and its limit.
LEMMA KeptLength ==
  ASSUME NEW size \in Nat
  PROVE  Min({ListMax, size}) = IF ListMax < size THEN ListMax ELSE size
<1>1. ListMax \in Nat
  BY YmlAssumption
<1>2. CASE ListMax < size
  <2>1. Min({ListMax, size}) = ListMax
    BY <1>1, <1>2 DEF Min
  <2>2. QED
    BY <1>2, <2>1
<1>3. CASE ~ (ListMax < size)
  <2>1. Min({ListMax, size}) = size
    BY <1>1, <1>3 DEF Min
  <2>2. QED
    BY <1>3, <2>1
<1>4. QED
  BY <1>2, <1>3

\* add_str_list puts a word that is not empty at the end, while there is room.
LEMMA KeptGrows ==
  ASSUME NEW words \in Seq(Words), NEW v \in Words, v # Blank
  PROVE  Kept(Append(words, v)) = AddStr(Kept(words), v)
<1> DEFINE size == Len(words)
<1>1. /\ size \in Nat /\ ListMax \in Nat
      /\ Append(words, v) \in Seq(Words) /\ Len(Append(words, v)) = size + 1
      /\ \A k \in 1 .. size : Append(words, v)[k] = words[k]
      /\ Append(words, v)[size + 1] = v
  BY YmlAssumption
<1>2. CASE size < ListMax
  <2>1. Kept(words) = SubSeq(words, 1, size)
    <3>1. Min({ListMax, size}) = size
      BY <1>1, <1>2, KeptLength
    <3>2. QED
      BY <3>1 DEF Kept
  <2>2. SubSeq(words, 1, size) = words
    BY <1>1
  <2>3. Kept(Append(words, v)) = SubSeq(Append(words, v), 1, size + 1)
    <3>1. Min({ListMax, size + 1}) = size + 1
      BY <1>1, <1>2, KeptLength
    <3>2. QED
      BY <1>1, <3>1 DEF Kept
  <2>4. SubSeq(Append(words, v), 1, size + 1) = Append(words, v)
    BY <1>1
  <2>5. AddStr(words, v) = Append(words, v)
    BY <1>1, <1>2 DEF AddStr
  <2>6. QED
    BY <2>1, <2>2, <2>3, <2>4, <2>5
<1>3. CASE ~ (size < ListMax)
  <2>1. Kept(words) = SubSeq(words, 1, ListMax)
    <3>1. Min({ListMax, size}) = ListMax
      <4>1. Min({ListMax, size}) = IF ListMax < size THEN ListMax ELSE size
        BY <1>1, KeptLength
      <4>2. (IF ListMax < size THEN ListMax ELSE size) = ListMax
        BY <1>1, <1>3
      <4>3. QED
        BY <4>1, <4>2
    <3>2. QED
      BY <3>1 DEF Kept
  <2>2. Kept(Append(words, v)) = SubSeq(Append(words, v), 1, ListMax)
    <3>1. Min({ListMax, size + 1}) = ListMax
      BY <1>1, <1>3, KeptLength
    <3>2. QED
      BY <1>1, <3>1 DEF Kept
  <2>3. SubSeq(Append(words, v), 1, ListMax) = SubSeq(words, 1, ListMax)
    BY <1>1, <1>3
  <2>4. Len(Kept(words)) = ListMax
    BY <1>1, <1>3, <2>1
  <2>5. AddStr(Kept(words), v) = Kept(words)
    BY <1>1, <2>4 DEF AddStr
  <2>6. QED
    BY <2>1, <2>2, <2>3, <2>5
<1>4. QED
  BY <1>2, <1>3

\* Nothing has been read.
LEMMA YmlStarts == YmlInit => YmlInv
<1> SUFFICES ASSUME YmlInit PROVE YmlInv
  OBVIOUS
<1>1. Empty \in Parsed /\ \A s \in Proto : Empty.list[s] = <<>>
  BY DEF Empty, Parsed
<1>2. Kept(<<>>) = <<>>
  BY KeptLength, YmlAssumption DEF Kept
<1>3. place \in Spots
  BY DEF YmlInit, Spots
<1>4. QED
  BY <1>1, <1>2, <1>3 DEF YmlInit, YmlInv

\* The names of lists are none of the parser's words.
LEMMA ListNames ==
  ASSUME NEW s \in Lists
  PROVE  s # Blank /\ s # "plugin" /\ s # "default"
  BY YmlAssumption DEF Blank

\* Every form of line keeps it, in files whose lists end behind a bare key.
LEMMA YmlStep == ~MoreAfterBare /\ YmlInv /\ [YmlNext]_ymlVars => YmlInv'
<1> SUFFICES ASSUME ~MoreAfterBare, YmlInv, [YmlNext]_ymlVars PROVE YmlInv'
  OBVIOUS
<1>0. /\ d \in Parsed /\ written \in Parsed /\ place \in Spots /\ lines \in Nat
      /\ place.base \in {0, 2} /\ place.items \in {0, 2, 4}
  BY DEF YmlInv, Spots
<1>1. CASE Root
  <2>1. /\ place' = [place EXCEPT !.base = 2] /\ lines = 0 /\ lines' = lines + 1
        /\ UNCHANGED <<written, d>> /\ section' = Blank /\ sec_indent' = -1
    BY <1>1 DEF Root, NextLine, ReadHeader
  <2>2. /\ place'.base = 2 /\ place'.list = place.list /\ place'.items = place.items
        /\ place'.inItem = place.inItem /\ place'.bare = place.bare /\ place' \in Spots
    BY <1>0, <2>1 DEF Spots
  <2>3. QED
    BY <1>0, <2>1, <2>2 DEF YmlInv
<1>2. ASSUME NEW key \in Fields, NEW v \in Words, Field(key, v) PROVE YmlInv'
  <2>1. /\ place' = [place EXCEPT !.used = @ \cup {<<"field", key>>}, !.list = Blank, !.inItem = FALSE]
        /\ written' = [written EXCEPT !.field[key] = v] /\ lines' = lines + 1
        /\ UNCHANGED <<section, sec_indent>>
    BY <1>2 DEF Field, NextLine, ReadPair
  <2>2. ~InsideChild(place.base)
    BY <1>0 DEF YmlInv, InsideChild
  <2>3. d' = [d EXCEPT !.field[key] = v]
    BY <1>2, <2>2 DEF Field, ReadPair, SetTopField
  <2>4. /\ d'.list = d.list /\ written'.list = written.list /\ d'.field = written'.field
        /\ d' \in Parsed /\ written' \in Parsed
    BY <1>0, <2>1, <2>3 DEF Parsed, YmlInv
  <2>5. /\ place'.base = place.base /\ place'.list = Blank /\ place'.inItem = FALSE
        /\ place' \in Spots
    <3>1. <<"field", key>> \in Uses
      BY DEF Uses
    <3>2. QED
      BY <1>0, <2>1, <3>1 DEF Spots
  <2>6. QED
    BY <1>0, <2>1, <2>4, <2>5 DEF YmlInv
<1>3. ASSUME NEW s \in Lists, NEW shift \in {0, 2}, Section(s, shift) PROVE YmlInv'
  <2>1. /\ place' = [place EXCEPT !.used = @ \cup {<<"list", s>>}, !.list = s,
                       !.bare = FALSE, !.items = place.base + shift, !.inItem = FALSE]
        /\ UNCHANGED <<written, d>> /\ lines' = lines + 1
        /\ section' = s /\ sec_indent' = place.base
    BY <1>3, ListNames DEF Section, NextLine, ReadHeader
  <2>2. place.base + shift \in {0, 2, 4} /\ place.base <= place.base + shift
    BY <1>0
  <2>3. /\ place'.base = place.base /\ place'.list = s /\ place'.inItem = FALSE
        /\ place'.items = place.base + shift /\ place' \in Spots
    <3>1. <<"list", s>> \in Uses
      BY DEF Uses
    <3>2. QED
      BY <1>0, <2>1, <2>2, <3>1 DEF Spots
  <2>4. QED
    BY <1>0, <2>1, <2>2, <2>3 DEF YmlInv
<1>4. CASE NoConflicts
  <2>1. /\ place' = [place EXCEPT !.used = @ \cup {<<"list", "conflicts">>}, !.list = Blank,
                       !.inItem = FALSE]
        /\ "conflicts" \in Lists
        /\ UNCHANGED <<written, d>> /\ lines' = lines + 1
        /\ section' = Blank /\ sec_indent' = -1
    BY <1>4 DEF NoConflicts, NextLine, ReadEmptyList
  <2>2. /\ place'.base = place.base /\ place'.list = Blank /\ place'.inItem = FALSE
        /\ place' \in Spots
    <3>1. <<"list", "conflicts">> \in Uses
      BY <2>1 DEF Uses
    <3>2. QED
      BY <1>0, <2>1, <3>1 DEF Spots
  <2>3. QED
    BY <1>0, <2>1, <2>2 DEF YmlInv
<1>5. ASSUME NEW v \in Words, NEW map \in BOOLEAN, Item(v, map) PROVE YmlInv'
  <2>1. /\ place.list # Blank /\ ~place.bare /\ lines' = lines + 1
        /\ place' = [place EXCEPT !.inItem = map]
        /\ UNCHANGED <<section, sec_indent>>
    BY <1>5 DEF Item, NextLine, ReadItem
  <2>2. section = place.list /\ section \in Lists
    BY <1>0, <2>1 DEF YmlInv, Spots
  <2>3. /\ place'.base = place.base /\ place'.list = place.list /\ place'.items = place.items
        /\ place'.bare = place.bare /\ place' \in Spots
    BY <1>0, <2>1 DEF Spots
  <2>4. /\ d' \in Parsed /\ written' \in Parsed /\ d'.field = written'.field
        /\ \A s \in Proto : d'.list[s] = Kept(written'.list[s])
    <3>1. CASE section \in Proto /\ v # Blank
      <4>1. /\ d' = [d EXCEPT !.list[section] = AddStr(@, v)]
            /\ written' = [written EXCEPT !.list[section] = Append(@, v)]
        BY <1>5, <2>2, <3>1 DEF Item, ReadItem
      <4>2. /\ d.list \in [Proto -> Seq(Words)] /\ written.list \in [Proto -> Seq(Words)]
            /\ d.field = written.field /\ \A s \in Proto : d.list[s] = Kept(written.list[s])
        BY <1>0 DEF Parsed, YmlInv
      <4>3. /\ d'.field = d.field /\ written'.field = written.field
            /\ d'.list = [d.list EXCEPT ![section] = AddStr(@, v)]
            /\ written'.list = [written.list EXCEPT ![section] = Append(@, v)]
        BY <1>0, <4>1 DEF Parsed
      <4>4. /\ AddStr(d.list[section], v) \in Seq(Words)
            /\ Append(written.list[section], v) \in Seq(Words)
        BY <3>1, <4>2 DEF AddStr
      <4>5. d' \in Parsed /\ written' \in Parsed
        BY <1>0, <4>1, <4>4 DEF Parsed
      <4>6. Kept(Append(written.list[section], v)) = AddStr(Kept(written.list[section]), v)
        BY <3>1, <4>2, KeptGrows
      <4>7. ASSUME NEW s \in Proto PROVE d'.list[s] = Kept(written'.list[s])
        BY <3>1, <4>2, <4>3, <4>6
      <4>8. QED
        BY <4>2, <4>3, <4>5, <4>7
    <3>2. CASE section \notin Proto
      <4>1. d' = d /\ written' = written
        BY <1>5, <2>2, <3>2 DEF Item, ReadItem
      <4>2. QED
        BY <4>1 DEF YmlInv
    <3>3. CASE section \in Proto /\ v = Blank
      <4>1. /\ d' = [d EXCEPT !.list[section] = @] /\ written' = written
        BY <1>5, <2>2, <3>3 DEF Item, ReadItem, AddStr
      <4>2. d' = d
        BY <1>0, <4>1 DEF Parsed
      <4>3. QED
        BY <4>1, <4>2 DEF YmlInv
    <3>4. QED
      BY <3>1, <3>2, <3>3
  <2>5. QED
    BY <1>0, <2>1, <2>3, <2>4 DEF YmlInv
<1>6. ASSUME NEW key \in Fields, NEW v \in Words, Subkey(key, v) PROVE YmlInv'
  <2>1. /\ place.inItem /\ ~place.bare /\ lines' = lines + 1
        /\ UNCHANGED <<place, written, section, sec_indent>>
    BY <1>6 DEF Subkey, NextLine, ReadPair
  <2>2. section # Blank /\ sec_indent = place.base /\ place.base <= place.items
    BY <1>0, <2>1 DEF YmlInv
  <2>3. InsideChild(place.items + 2)
    BY <1>0, <2>2 DEF InsideChild
  <2>4. d' = d
    BY <1>6, <2>3 DEF Subkey, ReadPair
  <2>5. QED
    BY <1>0, <2>1, <2>2, <2>4 DEF YmlInv
<1>7. CASE BareSubkey
  <2>1. /\ place' = [place EXCEPT !.bare = TRUE] /\ place.inItem
        /\ UNCHANGED <<written, d>> /\ lines' = lines + 1
        /\ section' = "default" /\ sec_indent' = place.items + 2
    BY <1>7 DEF BareSubkey, NextLine, ReadHeader
  <2>2. /\ place'.base = place.base /\ place'.list = place.list /\ place'.items = place.items
        /\ place'.inItem = place.inItem /\ place'.bare /\ place' \in Spots
    BY <1>0, <2>1 DEF Spots
  <2>3. place.list # Blank /\ place.base <= place.items
    BY <2>1 DEF YmlInv
  <2>4. place.items + 2 \in {2, 4, 6} /\ place.base <= place.items + 2
    BY <1>0, <2>3
  <2>5. QED
    BY <1>0, <2>1, <2>2, <2>3, <2>4 DEF YmlInv
<1>8. CASE UNCHANGED ymlVars
  BY <1>8 DEF YmlInv, ymlVars
<1>9. QED
  BY <1>1, <1>2, <1>3, <1>4, <1>5, <1>6, <1>7, <1>8 DEF YmlNext

\* What the parser has is what the file says.
LEMMA YmlReads == YmlInv => ParsedAsWritten
<1> SUFFICES ASSUME YmlInv PROVE ParsedAsWritten
  OBVIOUS
<1>1. /\ d.field \in [Fields -> Words \cup {Blank}]
      /\ \A s \in Proto : written.list[s] \in Seq(Words) /\ d.list[s] = Kept(written.list[s])
  BY DEF YmlInv, Parsed
<1>2. ASSUME NEW s \in Proto PROVE Len(d.list[s]) <= ListMax
  <2>1. Len(written.list[s]) \in Nat /\ ListMax \in Nat
    BY <1>1, YmlAssumption
  <2>2. Min({ListMax, Len(written.list[s])}) \in 0 .. Len(written.list[s])
        /\ Min({ListMax, Len(written.list[s])}) <= ListMax
    BY <2>1, KeptLength
  <2>3. QED
    BY <1>1, <2>1, <2>2 DEF Kept
<1>3. QED
  BY <1>1, <1>2 DEF ParsedAsWritten, YmlTypeOK, YmlInv, Kept

\* The parser finds what the file says, for files of any length in which no list
\* goes on behind a key without a value (yml.c, hw_yml_parse_plugin).
THEOREM ParsedRight == ~MoreAfterBare => (YmlSpec => []ParsedAsWritten)
<1>1. ASSUME ~MoreAfterBare PROVE YmlSpec => []ParsedAsWritten
  <2>1. YmlInv /\ [YmlNext]_ymlVars => YmlInv'
    BY <1>1, YmlStep
  <2>2. QED
    BY <2>1, YmlStarts, YmlReads, PTL DEF YmlSpec
<1>2. QED
  BY <1>1
=============================================================================

------------------------------ MODULE PluginBus ------------------------------
(***************************************************************************)
(* bus.c and loader.c: the plugin list, the plugin life cycle and the boot *)
(* chain, over the route list of metaproto.c.  The bus is driven by one    *)
(* thread (main, or an embedder); a call of hw_plugin_start is a sequence  *)
(* of steps because each of its callbacks and allocations may fail, and    *)
(* what was done before must then be undone.                               *)
(*                                                                         *)
(* The plugins' callbacks are external code: they succeed or, if           *)
(* CallbacksFail, may return an error.  hw_plugin_load_so is exported by   *)
(* bus.h and called by no code of the bus: EmbedderLoads says whether the  *)
(* surrounding program calls it.                                           *)
(***************************************************************************)
EXTENDS Integers, SequencesExt

CONSTANTS Plugins,        \* plugin ids
          Protocols,      \* protocol names
          Provides,       \* plugin -> sequence of protocols
          Requires,       \* plugin -> sequence of protocols
          Conflicts,      \* plugin -> sequence of protocols
          Builtins,       \* protocols registered by hw_bus_init, in order
          BootOrder,      \* the table boot_order
          Listings,       \* possible contents of the scan paths, in readdir order
          EmbedderLoads,  \* hw_plugin_load_so is called by the embedder
          CallbacksFail,  \* init and start may return an error
          NoMemory,       \* pairs <<p, k>>: calloc of p's route number k + 1 may fail
          Replug          \* callers use a plugin again after hw_bus_unload

BUS == "bus"              \* plugin_id of the built-in routes

ASSUME BusAssumption ==
  /\ BUS \notin Plugins /\ Plugins # {}
  /\ Provides \in [Plugins -> Seq(Protocols)]
  /\ Requires \in [Plugins -> Seq(Protocols)]
  /\ Conflicts \in [Plugins -> Seq(Protocols)]
  /\ Builtins \in Seq(Protocols)
  /\ BootOrder \in Seq(Plugins)
  /\ \A l \in Listings : l \in Seq(Plugins)
  /\ NoMemory \subseteq Plugins \X Nat
  /\ {EmbedderLoads, CallbacksFail, Replug} \subseteq BOOLEAN

VARIABLES plugins,      \* the plugin list, head first
          state,        \* p->state
          handle,       \* p->handle is not NULL: the .so is mapped
          ops,          \* p->ops was filled in from the .so
          routes,       \* METAPROTO's routes (their order is MetaProto's subject)
          pc, cur, n,   \* the step of hw_plugin_start, its plugin, provides done
          boot,         \* loop index of hw_bus_boot_chain, 0 outside
          todo,         \* entries hw_bus_scan or hw_bus_shutdown has still to treat
          initialized,  \* bus->initialized
          wild          \* a callback was called in an unmapped .so

vars == <<plugins, state, handle, ops, routes, pc, cur, n, boot, todo, initialized,
          wild>>
life == <<state, handle, ops, routes>>
control == <<pc, cur, n, boot, todo>>

States == {"UNINSTALLED", "INSTALLED", "LOADED", "STARTED", "STOPPED", "ERROR"}
Impl == {"NULL", "descriptor", "interface"}
Route == [protocol : Protocols, plugin_id : Plugins \cup {BUS}, implementation : Impl]
Steps == {"idle", "scan", "boot", "check", "init", "register", "start", "shutdown"}

TypeOK ==
  /\ plugins \in Seq(Plugins) /\ IsInjective(plugins)
  /\ state \in [Plugins -> States]
  /\ handle \in [Plugins -> BOOLEAN]
  /\ ops \in [Plugins -> BOOLEAN]
  /\ routes \subseteq Route
  /\ pc \in Steps
  /\ cur \in Plugins
  /\ n \in 0 .. Len(Provides[cur])
  /\ boot \in 0 .. Len(BootOrder) + 1
  /\ todo \in Seq(Plugins)
  /\ initialized \in BOOLEAN
  /\ wild \in BOOLEAN

RouteOf(q, p, impl) == [protocol |-> q, plugin_id |-> p, implementation |-> impl]

\* hw_bus_init: the built-in protocols.
\* A plugin that is not in the list has no descriptor; its state is a filler.
Init ==
  /\ plugins = <<>> /\ todo = <<>>
  /\ state = [p \in Plugins |-> "UNINSTALLED"]
  /\ handle = [p \in Plugins |-> FALSE]
  /\ ops = [p \in Plugins |-> FALSE]
  /\ routes = {RouteOf(q, BUS, "NULL") : q \in ToSet(Builtins)}
  /\ pc = "idle" /\ cur = (CHOOSE p \in Plugins : TRUE) /\ n = 0 /\ boot = 0
  /\ initialized = TRUE /\ wild = FALSE

-----------------------------------------------------------------------------
(* The registry as the bus uses it (MetaProto models its own steps).       *)

Registered(q) == \E r \in routes : r.protocol = q
At(q, p) == {r \in routes : r.protocol = q /\ r.plugin_id = p}

\* hw_metaproto_register, without a failing allocation: a route of the same
\* protocol and plugin is overwritten.
WithRoute(r) == (routes \ At(r.protocol, r.plugin_id)) \cup {r}

\* plugin_unregister_provides for the first k provided protocols.
Without(p, k) == routes \ UNION {At(Provides[p][i], p) : i \in 1 .. k}

\* A callback of p runs: in the mapped .so, or through a dangling pointer.
Call(p) == wild' = (wild \/ (ops[p] /\ ~handle[p]))
MayFail(p) == CallbacksFail /\ ops[p]

-----------------------------------------------------------------------------
(* hw_bus_scan.                                                            *)

Idle == pc = "idle" /\ initialized
Known(p) == p \in ToSet(plugins)
Usable(p) == Known(p) /\ (Replug \/ state[p] # "UNINSTALLED")

\* hw_bus_scan, called by itself or first thing in hw_bus_boot_chain.
\* It reads whatever the scan paths hold at that moment.
hw_bus_scan(b) ==
  /\ Idle
  /\ todo' \in Listings
  /\ pc' = "scan" /\ boot' = b
  /\ UNCHANGED <<plugins, life, cur, n, initialized, wild>>

\* scan_dir_rec for the next entry: a plugin id met before is skipped, a new
\* one goes to the head of the list.  An unreadable plugin.yml or a failing
\* allocation is the same as a directory without the entry.
scan_dir_rec ==
  /\ pc = "scan" /\ todo # <<>>
  /\ LET p == Head(todo) IN
     \/ Known(p) /\ UNCHANGED <<plugins, state>>
     \/ /\ ~Known(p)
        /\ plugins' = <<p>> \o plugins
        /\ state' = [state EXCEPT ![p] = "INSTALLED"]
  /\ todo' = Tail(todo)
  /\ UNCHANGED <<handle, ops, routes, pc, cur, n, boot, initialized, wild>>

ScanDone ==
  /\ pc = "scan" /\ todo = <<>>
  /\ pc' = IF boot = 0 THEN "idle" ELSE "boot"
  /\ UNCHANGED <<plugins, life, cur, n, boot, todo, initialized, wild>>

-----------------------------------------------------------------------------
(* hw_plugin_start, step by step.                                          *)

StartCall(p) ==
  /\ pc' = "check" /\ cur' = p /\ n' = 0
  /\ UNCHANGED <<plugins, life, todo, initialized, wild>>

\* Mutant: the boot loop does not go on to the next plugin after a start.
ReturnRetries(s) ==
  /\ state' = [state EXCEPT ![cur] = s]
  /\ pc' = IF boot = 0 THEN "idle" ELSE "boot"
  /\ n' = 0
  /\ UNCHANGED <<plugins, cur, boot, todo, initialized>>

\* hw_plugin_start returns, to the caller or to the loop of the boot chain.
Return(s) ==
  /\ state' = [state EXCEPT ![cur] = s]
  /\ pc' = IF boot = 0 THEN "idle" ELSE "boot"
  /\ boot' = IF boot = 0 THEN 0 ELSE boot + 1
  /\ n' = 0
  /\ UNCHANGED <<plugins, cur, todo, initialized>>

Goto(step, s, k) ==
  /\ pc' = step /\ n' = k
  /\ state' = [state EXCEPT ![cur] = s]
  /\ UNCHANGED <<plugins, cur, boot, todo, initialized>>

\* hw_bus_load: a running plugin is left alone.
hw_bus_load(p) ==
  /\ Idle /\ Usable(p) /\ state[p] # "STARTED"
  /\ StartCall(p) /\ UNCHANGED boot

\* hw_metaproto_check_deps: an empty requires list is a NULL array, refused
\* with EINVAL; otherwise every required protocol has a route.
check_deps(p) == Requires[p] # <<>> /\ \A q \in ToSet(Requires[p]) : Registered(q)
HasConflict(p) == \E q \in ToSet(Conflicts[p]) : Registered(q)

\* Mutant: the conflict test is gone.
StartCheckNoConflicts ==
  /\ pc = "check"
  /\ \/ check_deps(cur) /\ Goto("init", state[cur], 0)
     \/ ~check_deps(cur) /\ Return("ERROR")
  /\ UNCHANGED <<handle, ops, routes, wild>>

StartCheck ==
  /\ pc = "check"
  /\ \/ check_deps(cur) /\ ~HasConflict(cur) /\ Goto("init", state[cur], 0)
     \/ (~check_deps(cur) \/ HasConflict(cur)) /\ Return("ERROR")
  /\ UNCHANGED <<handle, ops, routes, wild>>

\* hw_plugin_inject_runtime and ops.init.
StartInit ==
  /\ pc = "init"
  /\ Call(cur)
  /\ Goto("register", "LOADED", 0) \/ (MayFail(cur) /\ Return("ERROR"))
  /\ UNCHANGED <<handle, ops, routes>>

\* The implementation pointer of a route: what get_interface returns, or the
\* plugin's own descriptor when there is no get_interface or it returns NULL.
Implementations(p) == IF ops[p] THEN {"interface", "descriptor"} ELSE {"descriptor"}

\* A new route is needed and cannot be allocated.
NoRoom(k) == <<cur, k>> \in NoMemory /\ At(Provides[cur][k + 1], cur) = {}

\* plugin_register_provides, one protocol.  A failing allocation returns
\* minus the number registered so far, which hw_plugin_start rolls back; if
\* it is the first, that number is 0 and start takes it for success.
plugin_register_provides ==
  /\ pc = "register" /\ n < Len(Provides[cur])
  /\ \/ /\ \E impl \in Implementations(cur) :
             routes' = WithRoute(RouteOf(Provides[cur][n + 1], cur, impl))
        /\ Goto("register", "LOADED", n + 1)
     \/ /\ n > 0 /\ NoRoom(n)
        /\ routes' = Without(cur, n)
        /\ Return("ERROR")
     \/ /\ n = 0 /\ NoRoom(n)
        /\ UNCHANGED routes
        /\ Goto("start", "LOADED", 0)
  /\ Call(cur)
  /\ UNCHANGED <<handle, ops>>

RegisterDone ==
  /\ pc = "register" /\ n = Len(Provides[cur])
  /\ Goto("start", "LOADED", n)
  /\ UNCHANGED <<handle, ops, routes, wild>>

\* ops.start; on failure all the plugin's routes are withdrawn.
StartStart ==
  /\ pc = "start"
  /\ Call(cur)
  /\ \/ Return("STARTED") /\ UNCHANGED routes
     \/ /\ MayFail(cur)
        /\ routes' = Without(cur, Len(Provides[cur]))
        /\ Return("ERROR")
  /\ UNCHANGED <<handle, ops>>

hw_plugin_start ==
  StartCheck \/ StartInit \/ plugin_register_provides \/ RegisterDone \/ StartStart

-----------------------------------------------------------------------------
(* Stop, unload, boot, shutdown.                                           *)

\* hw_bus_stop: whatever state the plugin is in.
hw_bus_stop(p) ==
  /\ Idle /\ Usable(p)
  /\ Call(p)
  /\ routes' = Without(p, Len(Provides[p]))
  /\ state' = [state EXCEPT ![p] = "STOPPED"]
  /\ UNCHANGED <<plugins, handle, ops, control, initialized>>

Running(p) == state[p] \in {"STARTED", "LOADED"}

\* Mutant: dlclose before destroy.
UnloadDlcloseFirst(p) ==
  /\ wild' = (wild \/ ops[p])
  /\ routes' = IF Running(p) THEN Without(p, Len(Provides[p])) ELSE routes
  /\ handle' = [handle EXCEPT ![p] = FALSE]
  /\ state' = [state EXCEPT ![p] = "UNINSTALLED"]
  /\ UNCHANGED ops

\* hw_plugin_unload: stop if running, destroy, dlclose.  p->ops keeps its
\* pointers into the .so.
hw_plugin_unload(p) ==
  /\ Call(p)
  /\ routes' = IF Running(p) THEN Without(p, Len(Provides[p])) ELSE routes
  /\ handle' = [handle EXCEPT ![p] = FALSE]
  /\ state' = [state EXCEPT ![p] = "UNINSTALLED"]
  /\ UNCHANGED ops

hw_bus_unload(p) ==
  /\ Idle /\ Usable(p)
  /\ hw_plugin_unload(p)
  /\ UNCHANGED <<plugins, control, initialized>>

\* hw_plugin_load_so, called by an embedder: dlopen and take over the ops.
\* Every failing path leaves the descriptor as it was.
hw_plugin_load_so(p) ==
  /\ Idle /\ EmbedderLoads /\ Known(p) /\ ~handle[p]
  /\ handle' = [handle EXCEPT ![p] = TRUE]
  /\ ops' = [ops EXCEPT ![p] = TRUE]
  /\ UNCHANGED <<plugins, state, routes, control, initialized, wild>>

\* One turn of the loop of hw_bus_boot_chain.
BootNext ==
  /\ pc = "boot" /\ boot <= Len(BootOrder)
  /\ LET p == BootOrder[boot] IN
     \/ /\ ~Known(p) \/ state[p] = "STARTED"
        /\ boot' = boot + 1
        /\ UNCHANGED <<plugins, life, pc, cur, n, todo, initialized, wild>>
     \/ Known(p) /\ state[p] # "STARTED" /\ StartCall(p) /\ UNCHANGED boot

BootDone ==
  /\ pc = "boot" /\ boot > Len(BootOrder)
  /\ pc' = "idle" /\ boot' = 0
  /\ UNCHANGED <<plugins, life, cur, n, todo, initialized, wild>>

\* hw_bus_shutdown takes the whole list, then treats one plugin after the
\* other, then empties the registry.
hw_bus_shutdown ==
  /\ Idle
  /\ pc' = "shutdown" /\ todo' = plugins /\ plugins' = <<>>
  /\ UNCHANGED <<life, cur, n, boot, initialized, wild>>

ShutdownNext ==
  /\ pc = "shutdown" /\ todo # <<>>
  /\ LET p == Head(todo) IN
     \/ Running(p) /\ hw_plugin_unload(p)
     \/ ~Running(p) /\ UNCHANGED <<life, wild>>
  /\ todo' = Tail(todo)
  /\ UNCHANGED <<plugins, pc, cur, n, boot, initialized>>

ShutdownDone ==
  /\ pc = "shutdown" /\ todo = <<>>
  /\ routes' = {} /\ initialized' = FALSE /\ pc' = "idle"
  /\ UNCHANGED <<plugins, state, handle, ops, cur, n, boot, todo, wild>>

\* hw_bus_boot_chain: hw_bus_scan, then the loop.
hw_bus_boot_chain ==
  /\ Replug \/ \A p \in ToSet(plugins) : state[p] # "UNINSTALLED"
  /\ hw_bus_scan(1)

\* What the bus does by itself inside a call.
Step ==
  \/ scan_dir_rec \/ ScanDone
  \/ hw_plugin_start
  \/ BootNext \/ BootDone
  \/ ShutdownNext \/ ShutdownDone

Next ==
  \/ hw_bus_scan(0) \/ hw_bus_boot_chain \/ hw_bus_shutdown
  \/ \E p \in Plugins : \/ hw_bus_load(p) \/ hw_bus_stop(p) \/ hw_bus_unload(p)
                        \/ hw_plugin_load_so(p)
  \/ Step

Spec == Init /\ [][Next]_vars

\* Fairness: the bus is one thread and none of its steps waits for another,
\* so a call that has begun goes on.
FairSpec == Spec /\ WF_vars(Step)

-----------------------------------------------------------------------------
(* Properties.                                                             *)

AtRest == pc = "idle" /\ initialized
ProvidedBy(p) == {q \in ToSet(Provides[p]) : At(q, p) # {}}

\* A plugin that is not running offers nothing: whichever callback or
\* allocation failed half way through hw_plugin_start, and however stop and
\* unload follow each other, no route of it stays in the registry.
NoOrphanRoutes ==
  \A p \in Plugins : (AtRest \/ p # cur) /\ state[p] # "STARTED" => ProvidedBy(p) = {}

\* A plugin that hw_plugin_start reported as started offers every protocol it
\* declares.  It needs the first registration of a plugin not to fail: start
\* takes the -0 that plugin_register_provides then returns for success.
StartedServes ==
  \A p \in Plugins : state[p] = "STARTED" => ProvidedBy(p) = ToSet(Provides[p])

\* Nothing is reached through a pointer into an unmapped .so: a route whose
\* implementation is an interface of a .so is only in the registry while the
\* .so is mapped (hw_plugin_unload unregisters before dlclose, in every state
\* it can be called in), and no callback is called after dlclose.  The latter
\* needs callers that leave a plugin alone after hw_bus_unload.
ObjectsMapped ==
  /\ \A r \in routes : r.implementation = "interface" => handle[r.plugin_id]
  /\ ~wild

\* The bus keeps its promise to the plugins (ServiceDirectory): the checks at
\* the beginning of hw_plugin_start still hold when the plugin enters
\* service several steps later.
Directory ==
  INSTANCE ServiceDirectory WITH serving <- {p \in Plugins : state[p] = "STARTED"}
KeepsDirectory == Directory!Spec

\* Every call returns, whatever fails on the way: the boot chain goes past a
\* plugin that cannot start, a shutdown past one that is not running.
CallsReturn == pc # "idle" ~> pc = "idle"

\* A set of plugins that can run together on the protocols in the registry.
SelfSupporting(S) ==
  \A p \in S : /\ Requires[p] # <<>>
              /\ ToSet(Requires[p]) \subseteq
                   ToSet(Builtins) \cup UNION {ProvidedBy(q) : q \in S}

\* The table boot_order is a right order for the plugins' declarations: when
\* the boot chain ends, exactly those discovered plugins run whose
\* requirements are, directly and indirectly, met by the registry.  A plugin
\* placed before one it needs would be left in ERROR for good.
BootComplete ==
  pc = "boot" /\ boot > Len(BootOrder) =>
    {p \in Plugins : state[p] = "STARTED"} =
      UNION {S \in SUBSET ToSet(plugins) : SelfSupporting(S)}

\* The bus at any moment, in the middle of every start, stop and unload: no route
\* left of a plugin out of service, none missing of a plugin that is started, and
\* no pointer into an unmapped object.
BusSound == TypeOK /\ NoOrphanRoutes /\ StartedServes /\ ObjectsMapped
=============================================================================

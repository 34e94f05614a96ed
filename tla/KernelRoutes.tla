---------------------------- MODULE KernelRoutes ----------------------------
(***************************************************************************)
(* The table of protocols in the kernel module (hwrun_core.c), which every *)
(* process reaches through ioctl (kctl.c), and hw_bus_resolve_ex (bus.c),  *)
(* which asks the kernel when METAPROTO has no route and hands out one     *)
(* static route, the same for every answer.                                *)
(*                                                                         *)
(* kctl.c cuts the name of a protocol that does not fit its field.         *)
(* Versions and names of providers fit and are not empty, and names that   *)
(* other modules of the kernel would use fit too (the repository has no    *)
(* such module).                                                           *)
(***************************************************************************)
EXTENDS Callers

CONSTANTS Protocols,    \* names of protocols, whole and cut
          CutName,      \* what of a name fits a field
          Providers, ProtoVersions

NoText == ""
ASSUME KernelAssumption ==
  /\ CutName \in [Protocols -> Protocols]
  /\ \A p \in Protocols : CutName[CutName[p]] = CutName[p]

KernelEntry == [protocol : Protocols, version : ProtoVersions, provider : Providers]
NoEntry == [protocol |-> NoText, version |-> NoText, provider |-> NoText]

VARIABLES device,       \* the module is loaded
          entries,      \* hwrun_protocols, the kernel's table
          local,        \* protocols METAPROTO has a route for
          g_kernel_route,       \* version and plugin_id of the static route
          at,           \* where each thread is in hw_bus_resolve_ex
          want, d,      \* what it asked for, and the kernel's answer
          mixed         \* history: threads whose use of the route met another's

kernelVars == <<device, entries, local, g_kernel_route, at, want, d, mixed>>

ResolveSteps == {"idle", "opened", "clear", "version", "provider", "holds"}
\* From the memset to the end of the use of the route.
UsesRoute(t) == at[t] \in {"version", "provider", "holds"}

KernelTypeOK ==
  /\ device \in BOOLEAN /\ entries \subseteq KernelEntry /\ local \subseteq Protocols
  /\ g_kernel_route \in [version : ProtoVersions \cup {NoText}, plugin_id : Providers \cup {NoText}]
  /\ at \in [Threads -> ResolveSteps] /\ want \in [Threads -> Protocols]
  /\ d \in [Threads -> KernelEntry \cup {NoEntry}] /\ mixed \subseteq Threads

KernelInit ==
  /\ device \in BOOLEAN /\ entries = {} /\ local = {}
  /\ g_kernel_route = [version |-> NoText, plugin_id |-> NoText]
  /\ at = [t \in Threads |-> "idle"] /\ want \in [Threads -> Protocols]
  /\ d = [t \in Threads |-> NoEntry] /\ mixed = {}

-----------------------------------------------------------------------------
(* The kernel module.  Its mutex makes each operation one step.            *)

\* Mutant: a provider looks for itself only.
RegisterOwn(p, v, q) ==
  /\ device /\ \A e \in entries : e.protocol # p \/ e.provider # q
  /\ entries' = entries \cup {[protocol |-> CutName[p], version |-> v, provider |-> q]}
  /\ UNCHANGED <<device, local, g_kernel_route, at, want, d, mixed>>

\* hwrun_protocol_register, with the name and the field it is copied to.
hwrun_protocol_register(p, v, q) ==
  /\ device /\ \A e \in entries : e.protocol # p
  /\ entries' = entries \cup {[protocol |-> CutName[p], version |-> v, provider |-> q]}
  /\ UNCHANGED <<device, local, g_kernel_route, at, want, d, mixed>>

\* hwrun_protocol_unregister: the entry of this provider.
hwrun_protocol_unregister(p, q) ==
  /\ device
  /\ \E e \in entries :
       e.protocol = p /\ e.provider = q /\ entries' = entries \ {e}
  /\ UNCHANGED <<device, local, g_kernel_route, at, want, d, mixed>>

\* hwrun_core_init and hwrun_core_exit; a module whose device is open stays.
\* The table goes with the module, not with the processes that filled it.
ModuleLoads ==
  /\ ~device /\ device' = TRUE
  /\ UNCHANGED <<entries, local, g_kernel_route, at, want, d, mixed>>
ModuleExits ==
  /\ device /\ \A t \in Threads : at[t] # "opened"
  /\ device' = FALSE /\ entries' = {}
  /\ UNCHANGED <<local, g_kernel_route, at, want, d, mixed>>

-----------------------------------------------------------------------------
(* The bus.                                                                *)

\* A plugin registers or takes back its route in METAPROTO.
LocalChange(p) ==
  /\ local' = IF p \in local THEN local \ {p} ELSE local \cup {p}
  /\ UNCHANGED <<device, entries, g_kernel_route, at, want, d, mixed>>

Resolving(t, step) == at' = [at EXCEPT ![t] = step]

\* hw_bus_resolve finds nothing and the device can be opened; otherwise the call
\* returns at once.
ResolveMisses(t, p) ==
  /\ at[t] = "idle" /\ p \notin local /\ device
  /\ want' = [want EXCEPT ![t] = p]
  /\ Resolving(t, "opened")
  /\ UNCHANGED <<device, entries, local, g_kernel_route, d, mixed>>

\* hwrun_kctl_protocol_resolve with the name cut, and the device closed.  The
\* answer has the version and the provider, its protocol is left empty.
ResolveInKernel(t) ==
  /\ at[t] = "opened"
  /\ \/ \E e \in entries :
          /\ e.protocol = CutName[want[t]]
          /\ d' = [d EXCEPT ![t] = e]
          /\ Resolving(t, "clear")
     \/ /\ \A e \in entries : e.protocol # CutName[want[t]]
        /\ Resolving(t, "idle") /\ UNCHANGED d
  /\ UNCHANGED <<device, entries, local, g_kernel_route, want, mixed>>

\* memset; whoever uses the route now shares it.
ClearRoute(t) ==
  /\ at[t] = "clear"
  /\ g_kernel_route' = [version |-> NoText, plugin_id |-> NoText]
  /\ LET others == {u \in Threads : UsesRoute(u)} IN
     mixed' = IF others = {} THEN mixed \ {t} ELSE mixed \cup others \cup {t}
  /\ Resolving(t, "version")
  /\ UNCHANGED <<device, entries, local, want, d>>

FillVersion(t) ==
  /\ at[t] = "version"
  /\ g_kernel_route' = [g_kernel_route EXCEPT !.version = d[t].version]
  /\ Resolving(t, "provider")
  /\ UNCHANGED <<device, entries, local, want, d, mixed>>

\* The provider, and the call returns a pointer to the route.
FillProvider(t) ==
  /\ at[t] = "provider"
  /\ g_kernel_route' = [g_kernel_route EXCEPT !.plugin_id = d[t].provider]
  /\ Resolving(t, "holds")
  /\ UNCHANGED <<device, entries, local, want, d, mixed>>

\* The caller has no more use for the route.
LetGo(t) ==
  /\ at[t] = "holds"
  /\ Resolving(t, "idle") /\ d' = [d EXCEPT ![t] = NoEntry] /\ mixed' = mixed \ {t}
  /\ UNCHANGED <<device, entries, local, g_kernel_route, want>>

KernelNext ==
  \/ \E p \in Protocols, q \in Providers :
       \/ \E v \in ProtoVersions : hwrun_protocol_register(CutName[p], v, q)
       \/ hwrun_protocol_unregister(CutName[p], q)
  \/ ModuleLoads \/ ModuleExits
  \/ \E p \in Protocols : LocalChange(p)
  \/ \E t \in Threads :
       \/ \E p \in Protocols : ResolveMisses(t, p)
       \/ ResolveInKernel(t) \/ ClearRoute(t) \/ FillVersion(t) \/ FillProvider(t) \/ LetGo(t)

KernelSpec == KernelInit /\ [][KernelNext]_kernelVars

-----------------------------------------------------------------------------
\* One provider at most for a name that processes can ask for.
EntriesUnique == \A e, f \in entries : e.protocol = f.protocol => e = f

\* Whoever holds the static route and has shared it with nobody reads in it what
\* the kernel answered for the name it had asked for, whatever is registered,
\* removed or resolved by then.
RouteDescribes ==
  \A t \in Threads : at[t] = "holds" /\ t \notin mixed =>
    /\ g_kernel_route = [version |-> d[t].version, plugin_id |-> d[t].provider]
    /\ d[t].protocol = CutName[want[t]]

\* The kernel's table and the route made of it.
KernelRoutesSound == KernelTypeOK /\ EntriesUnique /\ RouteDescribes
=============================================================================

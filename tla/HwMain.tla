------------------------------- MODULE HwMain -------------------------------
(***************************************************************************)
(* main() of main.c without a CLI command, the way the bus runs as PID 1   *)
(* or as a service: boot chain, arm the locks, install the signal handler, *)
(* wait in pause() for a termination signal, shut down.  The handler runs  *)
(* between any two steps of main.                                          *)
(***************************************************************************)
EXTENDS PluginBus

CONSTANT Pid1           \* the process is PID 1: signals without handler are ignored

ASSUME MainAssumption == Pid1 \in BOOLEAN

VARIABLES at,           \* where main is
          g_stop        \* set by on_term_signal

mainVars == <<vars, at, g_stop>>

Places == {"start", "boot", "handlers", "test", "enter", "pause", "stop", "shutdown",
           "exit", "killed"}

MainInit == Init /\ at = "start" /\ g_stop = FALSE

Go(from, to) == at = from /\ at' = to

MainBoot == Go("start", "boot") /\ hw_bus_boot_chain /\ UNCHANGED g_stop

\* The bus works through the boot chain or the shutdown.
MainBus == at \in {"boot", "shutdown"} /\ Step /\ UNCHANGED <<at, g_stop>>

\* hw_locker_enable_parallel, then the calls of sigaction.
MainArm == Go("boot", "handlers") /\ pc = "idle" /\ UNCHANGED <<vars, g_stop>>
MainHandlers == Go("handlers", "test") /\ UNCHANGED <<vars, g_stop>>

\* The condition of the while loop is read, then pause() suspends main.
MainTest ==
  /\ \/ ~g_stop /\ Go("test", "enter")
     \/ g_stop /\ Go("test", "stop")
  /\ UNCHANGED <<vars, g_stop>>

MainPause == Go("enter", "pause") /\ UNCHANGED <<vars, g_stop>>

\* Mutant: main returns without hw_bus_shutdown.
ExitAtOnce == Go("stop", "exit") /\ UNCHANGED <<vars, g_stop>>

MainShutdown == Go("stop", "shutdown") /\ hw_bus_shutdown /\ UNCHANGED g_stop
MainExit == Go("shutdown", "exit") /\ ~initialized /\ UNCHANGED <<vars, g_stop>>

\* Mutant: the handler does not wake pause().
SignalNoWake ==
  /\ at \notin {"exit", "killed"}
  /\ g_stop' = TRUE
  /\ UNCHANGED <<vars, at>>

\* SIGTERM or SIGINT.  With the handler installed it sets g_stop and ends a
\* pause() that has begun; before, the default action applies.
Signal ==
  /\ at \notin {"exit", "killed"}
  /\ \/ /\ at \in {"start", "boot", "handlers"}
        /\ at' = IF Pid1 THEN at ELSE "killed"
        /\ UNCHANGED g_stop
     \/ /\ at \notin {"start", "boot", "handlers"}
        /\ g_stop' = TRUE
        /\ at' = IF at = "pause" THEN "test" ELSE at
  /\ UNCHANGED vars

MainStep == MainBoot \/ MainBus \/ MainArm \/ MainHandlers \/ MainTest \/ MainPause
            \/ MainShutdown \/ MainExit
MainNext == MainStep \/ Signal

MainSpec == MainInit /\ [][MainNext]_mainVars

\* Fairness: main goes on whenever it is not suspended in pause().
MainFairSpec == MainSpec /\ WF_mainVars(MainStep)

-----------------------------------------------------------------------------
\* The table boot_order names every plugin that may be found, and a plugin stands
\* behind those that provide what it requires; no plugin declares a conflict or
\* provides more than one protocol.
TableInOrder ==
  /\ \A l \in Listings : ToSet(l) \subseteq ToSet(BootOrder)
  /\ \A p \in Plugins : Conflicts[p] = <<>> /\ Len(Provides[p]) <= 1
  /\ \A i, k \in DOMAIN BootOrder :
       ToSet(Requires[BootOrder[i]]) \cap ToSet(Provides[BootOrder[k]]) # {} => k < i

\* A process that exits has left no plugin running and no route behind,
\* whenever the signal came and whatever failed during boot.
ExitClean ==
  at = "exit" => routes = {} /\ \A p \in Plugins : state[p] \notin {"STARTED", "LOADED"}

\* The life of the process: what can run is running when boot ends, and nothing is
\* when the process has ended.
MainSound == BootComplete /\ ExitClean

\* A termination signal that finds main suspended in pause(), or before the test of the
\* loop, ends the process: pause() returns, the loop sees g_stop and the bus shuts down.
TermHeard ==
  /\ (g_stop /\ at = "test") ~> (at = "exit")
  /\ [](at = "pause" /\ ~g_stop => (<>g_stop => <>(at = "exit")))

\* The comment above the loop has it so for any signal: "pause() suspends, after the return
\* on a signal g_stop is checked, graceful exit".
TermExits == g_stop ~> at = "exit"

=============================================================================

---------------------------- MODULE MCProcesses ----------------------------
(* Tasks alone in a pid space that comes round, and tasks beside the other  *)
(* plugins without reuse.                                                   *)
EXTENDS Processes

ThreeWorlds ==
  {[pids |-> 2, forks |-> 4, plugins |-> {"pmp"}, nomem |-> FALSE],
   [pids |-> 3, forks |-> 3, plugins |-> {"pmp", "terminal"}, nomem |-> TRUE],
   [pids |-> 3, forks |-> 3, plugins |-> {"pmp", "runner", "shell"}, nomem |-> FALSE]}
=============================================================================

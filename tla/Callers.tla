------------------------------ MODULE Callers ------------------------------
(* The threads that call a plugin's operations, and whether the calls these *)
(* operations make of the system (files, commands, memory) may fail.        *)

CONSTANTS Threads, Faults

ASSUME CallersAssumption == Threads # {} /\ Faults \in BOOLEAN
=============================================================================

------------------------------ MODULE MCStorage ------------------------------
(* Model-checking instances of Storage.                                     *)
EXTENDS Storage

CONSTANTS t1, t2

\* The directory /data/b lies inside /data.
MCInside == [p \in Paths |-> IF p = "/data" THEN {"/data/b"} ELSE {}]

\* One caller with nested directories and every failure; two callers.
MCWorlds ==
  {[callers |-> {t1}, paths |-> Paths, fails |-> TRUE],
   [callers |-> {t1, t2}, paths |-> {"/data"}, fails |-> FALSE]}
=============================================================================

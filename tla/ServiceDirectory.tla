-------------------------- MODULE ServiceDirectory --------------------------
(***************************************************************************)
(* What the component bus promises its plugins: a plugin enters service    *)
(* only while every protocol it requires is offered and none it conflicts  *)
(* with is, and it may leave service at any time.  Offered protocols are   *)
(* the bus's own and those of the plugins in service.                      *)
(***************************************************************************)
EXTENDS SequencesExt

CONSTANTS Plugins,      \* plugin ids
          Provides,     \* plugin -> sequence of protocols
          Requires,     \* plugin -> sequence of protocols
          Conflicts,    \* plugin -> sequence of protocols
          Builtins      \* sequence of the protocols the bus offers itself

VARIABLE serving        \* the plugins in service

Offered == ToSet(Builtins) \cup UNION {ToSet(Provides[p]) : p \in serving}

Init == serving = {}

Enter(p) ==
  /\ p \notin serving
  /\ ToSet(Requires[p]) \subseteq Offered
  /\ ToSet(Conflicts[p]) \cap Offered = {}
  /\ serving' = serving \cup {p}

Leave(p) == p \in serving /\ serving' = serving \ {p}

Next == \E p \in Plugins : Enter(p) \/ Leave(p)

Spec == Init /\ [][Next]_serving
=============================================================================

CONSTANT Worlds <- ThreeWorlds
SPECIFICATION FairSpec
INVARIANTS ChildrenKnown
PROPERTIES TaskVerdict SignalsOwn ShellReturns
CHECK_DEADLOCK FALSE

CONSTANT Worlds <- ThreeWorlds
SPECIFICATION Spec
PROPERTIES RunReturnsCode
CHECK_DEADLOCK FALSE

CONSTANTS
  t1 = t1
  t2 = t2
  Threads = {t1, t2}
  Volumes = {"a", "b"}
  Names = {"s"}
  Paths = {"/data", "/data/b"}
  Inside <- MCInside
  Contents = {"x"}
  Worlds <- MCWorlds
SPECIFICATION Spec
INVARIANTS StorageSound
PROPERTIES ReadonlyKept
CHECK_DEADLOCK FALSE

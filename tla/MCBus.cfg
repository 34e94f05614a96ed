CONSTANTS
  boots = boots
  a = a
  b = b
  c = c
  t1 = t1
  t2 = t2
  git = git
  hap = hap
  LockThreads <- MCLockThreads
  Main = boots
  Lockers = {"meta", "log"}
  Kind <- MCKind
  Threads = {t1, t2}
  Plugins <- MCPlugins
  Owner <- MCOwner
  Protocols = {"GIT"}
  Versions = {"1.0", "1.1"}
  Subscribers = {"w"}
  Callbacks = {"cb"}
  SnapMax = 2
  Setters = {t1, t2}
  KeyOrder <- MCKeyOrder
  Watchers <- MCWatchers
  Values = {"a"}
  SetMax = 3
  WatchMax = 2
  NotifyMax = 2
  GitFails = TRUE
SPECIFICATION BusSpec
INVARIANTS Exclusion UnlocksOwnLock RegistrySound ViewsCurrent  GuardBalanced
PROPERTIES NotifyReturns

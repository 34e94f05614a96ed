CONSTANTS
  Plugins <- MCPlugins
  Protocols <- MCProtocols
  Provides <- MCProvides
  Requires <- MCRequires
  Conflicts <- MCConflicts
  Builtins <- MCBuiltins
  BootOrder <- MCBootOrder
  Listings <- MCListings
  EmbedderLoads = TRUE
  CallbacksFail = TRUE
  NoMemory <- MCNoMemory
  Replug = FALSE
SPECIFICATION FairSpec
INVARIANTS BusSound
PROPERTIES KeepsDirectory CallsReturn
CHECK_DEADLOCK FALSE

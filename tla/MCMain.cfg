CONSTANTS
  Plugins <- BootPlugins
  Protocols <- BootProtocols
  Provides <- BootProvides
  Requires <- BootRequires
  Conflicts <- BootConflicts
  Builtins <- BootBuiltins
  BootOrder <- boot_order
  Listings <- BootListings
  EmbedderLoads = FALSE
  CallbacksFail = FALSE
  NoMemory <- BootNoMemory
  Replug = FALSE
  Pid1 = TRUE
SPECIFICATION MainFairSpec
INVARIANTS MainSound
PROPERTIES TermHeard
CHECK_DEADLOCK FALSE

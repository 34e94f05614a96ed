CONSTANTS
  Threads = {t1}
  Faults = TRUE
  Dirs = {"d1", "d2"}
  MaxBytes = 2
  SegMax = 4
  Worlds <- MCWorlds
  SeqMax = 8
  Paths = {"p1", "p2"}
  Texts <- MCTexts
  Chunk = 2
  Ratio = 2
  FirstCap = 2
  Word = 256
  Lengths = {0, 1, 16, 17, 112, 128, 240, 255}
  Caps = {0, 16, 32, 64, 127, 143, 255}
  Fields = {"version", "type"}
  Lists = {"provides", "requires", "conflicts", "params"}
  Words = {"a", "blank"}
  ListMax = 2
  MaxLines = 7
  MoreAfterBare = FALSE
  Names = {"n1", "n2"}
  Written <- MCWritten
  MaxSessions = 2
  MaxBuf = 3
  Lines <- MCLines
  Definitions <- MCDefinitions
  Settings <- MCSettings
  HistoryMax = 3
  AliasMax = 2
  MaxTyped = 4
  Events <- MCEvents
  PathCalls <- MCPathCalls
  Cwd <- MCCwd
  DepthMax = 5
  BufferMax = 10
  GlobPatterns <- MCPatterns
  GlobTexts <- MCGlobTexts
  Versions <- MCVersions
  Images <- MCImages
  Handles = {"h1", "h2"}
  HeadMax = 6
  PhMax = 3
  NamesCap = 12
  NameMax = 5
  MaxLoads = 3
SPECIFICATION Spec
PROPERTY CutStreamsReturn
CHECK_DEADLOCK FALSE

CONSTANTS
  Threads = {t1, t2}
  Roles = {"admin", "user"}
  Subjects = {"u"}
  Actions = {"fs.read", "fs.*"}
  Asked = {"fs.read", "fs.write"}
  ActionGlobs <- MCActionGlobs
  Patterns <- MCPatterns
  Trim <- MCTrim
  Globs <- MCGlobs
  Targets = {"/home/a", "/etc"}
  ANY = ""
  Paths = {"default", "other"}
  DEFAULT = "default"
  PermMax = 1
  WriteFails = TRUE
  ChangeMax = 4
SPECIFICATION Spec
INVARIANTS PolicyReloads NoDangling AckedDurable
CHECK_DEADLOCK FALSE

CONSTANTS
  Threads = {t1, t2}
  Faults = TRUE
  Users = {"u1", "u2"}
  Accounts <- MCAccounts
  Passwords = {"p1", "p2"}
  Requests = {"fs.write", "key.sign", "key.gen", "other"}
  Matrix <- MCMatrix
  Covers <- MCCovers
  MaxTable = 2
  KeyAlgos = {"rsa-2048"}
  Data = {"d"}
  MaxKeys = 2
  Fds = {0, 1, 2}
  Cap = 2
  StatsCap = 2
  Families <- MCFamilies
  Files = {"f"}
  Tags = {"v1"}
  MaxCalls = 3
  Protocols = {"p", "long", "longer"}
  CutName <- MCCutName
  Providers = {"q1", "q2"}
  ProtoVersions = {"1"}
  ParamKeys <- MCKeys
  ParamValues <- MCValues
SPECIFICATION Spec
SYMMETRY Symmetric
INVARIANTS TableDurable SignaturesVerify TableSound ChangesAnnounced
INVARIANTS KernelRoutesSound ParamsPersist
PROPERTY RestartKeepsRights
CHECK_DEADLOCK FALSE

SPECIFICATION Spec
CONSTANTS
  Procs = {p1}
  Callers = {"a", "b"}
  Home <- OneProcess
  People = {"alice", "bob"}
  Issuers = {"alice"}
  NoOne = "no one"
  Bindings = {"b1"}
  Ttls = {0}
  MaxUses = {0}
  MaxTime = 0
  MaxSeq = 1
  FileBackend = TRUE
  Reloads = TRUE
  WritesFail = TRUE
INVARIANTS FourEyes

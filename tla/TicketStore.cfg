SPECIFICATION Spec
CONSTANTS
  Procs = {p1}
  Callers = {"a", "b"}
  Home <- OneProcess
  People = {"alice", "bob"}
  Issuers = {"alice"}
  NoOne = "no one"
  Bindings = {"b1"}
  Ttls = {0}
  MaxUses = {0}
  MaxTime = 1
  MaxSeq = 2
  FileBackend = TRUE
  Reloads = FALSE
  WritesFail = FALSE
INVARIANTS TypeOK NeverOverconsumed RejectedNeverGranted IssuedOnce

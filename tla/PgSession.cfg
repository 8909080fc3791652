\* One session of either configuration, any order of messages an ordinary
\* client sends.
SPECIFICATION Spec
CONSTANTS
    Stmts = {""}
    Portals = {"", "p"}
    Kind <- KindOf
    NumRows = 3
    MaxFrames = 2
    Clients <- Ordinary
CHECK_DEADLOCK FALSE
INVARIANTS UnitsAnswered DescribeFresh
PROPERTIES RowsOwn PagesContinue

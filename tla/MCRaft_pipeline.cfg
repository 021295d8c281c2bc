\* longer logs: proposals between a request and its answer
SPECIFICATION Spec
CONSTANTS
    Server = {s1, s2, s3}
    Value = {v1}
    NoOp = NoOp
    Nil = Nil
    MaxTerm = 2
    MaxLogLen = 3
    MaxInFlight = 1
    MaxRestarts = 0
    MaxSaveFailures = 0
VIEW View
SYMMETRY Symmetry
INVARIANTS
    LogMatching
    MatchIndexHolds

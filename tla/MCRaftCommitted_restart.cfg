\* a crash at any point, and what was committed before it
SPECIFICATION SpecCommitted
CONSTANTS
    Server = {s1, s2, s3}
    Value = {v1}
    NoOp = NoOp
    Nil = Nil
    MaxTerm = 2
    MaxLogLen = 2
    MaxInFlight = 1
    MaxRestarts = 1
    MaxSaveFailures = 0
VIEW ViewCommitted
SYMMETRY Symmetry
INVARIANTS
    StateMachineSafety
PROPERTIES
    TermAndVoteKept
    ImplementsReplicatedLog

\* three terms, one RPC in flight: successive leaders with conflicting logs
SPECIFICATION Spec
CONSTANTS
    Server = {s1, s2, s3}
    Value = {v1}
    NoOp = NoOp
    Nil = Nil
    MaxTerm = 3
    MaxLogLen = 0
    MaxInFlight = 1
    MaxRestarts = 0
    MaxSaveFailures = 0
VIEW View
SYMMETRY Symmetry
INVARIANTS
    LeaderCompleteness
    StateMachineSafety

\* one failed save, then a restart of the server that failed
SPECIFICATION Spec
CONSTANTS
    Server = {s1, s2, s3}
    Value = {v1}
    NoOp = NoOp
    Nil = Nil
    MaxTerm = 1
    MaxLogLen = 0
    MaxInFlight = 1
    MaxRestarts = 1
    MaxSaveFailures = 1
VIEW View
SYMMETRY Symmetry
INVARIANTS
    AcknowledgedTermKept

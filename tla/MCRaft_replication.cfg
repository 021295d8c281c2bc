\* two terms, two RPCs in flight: delayed and repeated AppendEntries
SPECIFICATION Spec
CONSTANTS
    Server = {s1, s2, s3}
    Value = {v1}
    NoOp = NoOp
    Nil = Nil
    MaxTerm = 2
    MaxLogLen = 1
    MaxInFlight = 2
    MaxRestarts = 0
    MaxSaveFailures = 0
VIEW View
SYMMETRY Symmetry
INVARIANTS
    TypeOK
PROPERTIES
    CommittedStaysInLog

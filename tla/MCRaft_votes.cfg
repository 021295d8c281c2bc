\* one term, two restarts, one failed save: nobody votes twice
SPECIFICATION Spec
CONSTANTS
    Server = {s1, s2, s3}
    Value = {v1}
    NoOp = NoOp
    Nil = Nil
    MaxTerm = 1
    MaxLogLen = 0
    MaxInFlight = 2
    MaxRestarts = 2
    MaxSaveFailures = 1
VIEW View
SYMMETRY Symmetry
INVARIANTS
    ElectionSafety
    VoteOnDisk
    VotesAgree

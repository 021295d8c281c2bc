\* two crashes and a failed file operation, log appends never torn
SPECIFICATION Spec
CONSTANTS
    c1 = c1
    c2 = c2
    c3 = c3
    c4 = c4
    c5 = c5
    NoOp = NoOp
    LeaderLog <- TwoLeaders
    Threshold = 2
    MaxCrashes = 2
    MaxTorn = 0
    MaxFailures = 1
INVARIANTS
    TypeOK
    AppliedIsVisible
    SnapshotExact
    RestartsConsistent
    AckedSurvives
PROPERTY ImplementsStateMachine

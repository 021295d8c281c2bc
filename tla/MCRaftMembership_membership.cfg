\* three servers and one that joins; one change at a time
SPECIFICATION Spec
CONSTANTS
    s1 = s1
    s2 = s2
    s3 = s3
    s4 = s4
    Nil = Nil
    Server = {s1, s2, s3, s4}
    Bootstrap <- OneJoins
    Joins <- Joining
    MaxTerm = 2
    MaxChanges = 2
    MaxInFlight = 1
VIEW View
SYMMETRY SymmetryOfThree
INVARIANTS
    TypeOK
    ConfigInForce
    ElectionSafety
    LeaderCompleteness
    LeadersAreMembers

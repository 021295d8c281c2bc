\* four servers, two leaders that change the configuration
SPECIFICATION Spec
CONSTANTS
    s1 = s1
    s2 = s2
    s3 = s3
    s4 = s4
    Nil = Nil
    Server = {s1, s2, s3, s4}
    Bootstrap <- AllFour
    Joins = {}
    MaxTerm = 3
    MaxChanges = 2
    MaxInFlight = 1
VIEW View
SYMMETRY SymmetryOfFour
INVARIANT ElectionSafety

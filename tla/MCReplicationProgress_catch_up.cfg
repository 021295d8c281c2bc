\* two calls at a time, of which one is lost; two failed file operations;
\* one restart
SPECIFICATION Spec
CONSTANTS
    Callers = {g1, g2}
    Starts <- PassingStarts
    Term = 3
    Threshold = 2
    MaxIndex = 4
    MaxLost = 1
    MaxFailures = 2
    MaxRestarts = 1
INVARIANTS
    TypeOK
    CommittedAgrees
    CountedIsHeld
PROPERTY CatchesUp


\* four requests, two of them at a time, one failure
SPECIFICATION Spec
CONSTANTS
    r1 = r1
    r2 = r2
    u1 = u1
    u2 = u2
    e1 = e1
    t1 = t1
    Nil = Nil
    Slot = {r1, r2}
    User = {u1, u2}
    Email = {e1}
    Tag = {t1}
    MaxRequests = 4
    MaxFailures = 1
SYMMETRY Symmetry
CHECK_DEADLOCK FALSE
INVARIANTS
    TypeOK
    IndexedLinksExist
    CreatedLinksListed
    CountsMatch
    DeletedLeavesNothing
    AccountsResolve

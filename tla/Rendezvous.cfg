\* The one-argument barrier, parties coming and going.
SPECIFICATION Spec
CONSTANTS
    Party = {p1, p2, p3}
    MaxMeetings = 2
SYMMETRY Symmetry
INVARIANTS
    TypeOK
    QueuedExact
PROPERTY LeavesOnlyWhenFull
\* Parties stop meeting at the bound, or wait for one that has stopped.
CHECK_DEADLOCK FALSE

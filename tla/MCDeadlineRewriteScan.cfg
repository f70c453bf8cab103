\* A scan applied across a change of policy.
SPECIFICATION MCSpec
CONSTANTS
    p1 = p1
    p2 = p2
    Procs = {p1, p2}
    Slices = {1, 2}
    Limit = 2
    Ahead <- SameClocks
    Spread = 0
    MaxChanges = 2
    MaxEvents = 1
INVARIANT
    NothingSupersededUnsaid

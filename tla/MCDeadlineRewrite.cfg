\* Two replicas, two slices, clocks that agree; prompt and not.
SPECIFICATION MCSpec
CONSTANTS
    p1 = p1
    p2 = p2
    Procs = {p1, p2}
    Slices = {1, 2}
    Limit = 2
    Ahead <- SameClocks
    Spread = 0
    MaxChanges = 3
    MaxEvents = 1
INVARIANTS
    TypeOK
    OneRewriteAtATime
    SupersededAreOwed
PROPERTIES
    NeverPutsBack
    ChangesArrive

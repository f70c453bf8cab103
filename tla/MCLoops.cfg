\* A day of the catch-up, and a condition that comes, goes and comes again; it
\* may be said to nobody and nothing more may happen.
SPECIFICATION MCSpec
CONSTANTS
    Procs = {"p1", "p2", "p3"}
    Ahead <- OneClockAhead
    Spread = 1
    Products = {1, 2}
    Day = 3
    MaxBacklog = 2
    MaxEvents = 3
    Watchers = {"w1", "w2"}
    Carriers = {"c1", "c2"}
    People = {"ana", "ben"}
    Tries = 2
    MaxChanges = 3
    MaxMishaps = 1
CHECK_DEADLOCK FALSE
INVARIANTS
    TypeOK
    NotifyTypeOK
    EndIsSaidOnce
    NobodySendsBeside
PROPERTIES
    OneCatchUpADay
    OneOpeningIsSaidOnce
    EveryProductIsSwept
    WhatIsOpenIsSaid

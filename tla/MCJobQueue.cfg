\* Two replicas whose clocks differ: one job fought over, or two in turn.
SPECIFICATION MCSpec

CONSTANTS
    Jobs = {1, 2}
    Workers = {"w1", "w2"}
    MaxAttempts = 2
    MaxBacklog = 2
    ClaimTimeout = 2
    Heartbeat = 1
    MaxHold = 3
    Backoff = 1
    PostponeDelay = 1
    Spread = 1
    MaxEvents = 2
    Ahead <- OneClockAhead

INVARIANTS
    TypeOK
    AttemptsInRange
    SettlesByItsClaim
    TakenOnlyFromTheSilent
    ReportsAreTrue
PROPERTIES
    DoneIsFinal
    KeepsThePromise
    EveryJobEnds

\* A branch on SQLite with one reader: reads fail, uploads roll back, jobs are put back.
SPECIFICATION FairSpec
CONSTANTS
    early = early
    late = late
    argued = argued
    rival = rival
    r1 = r1
    r2 = r2
    u1 = u1
    u2 = u2
    Submissions = {early, late, argued}
    BuiltAt <- MCBuiltAt
    Inventory <- MCInventory
    Senders = {u1}
    Readers = {r1}
    Moves = TRUE
    MaxAttempts = 2
    MaxScans = 3
    MaxJobs = 5
    Hazards = {"read fails", "requeue", "rolled back"}
    MaxEvents = 1
    Serial = TRUE
CHECK_DEADLOCK FALSE
INVARIANTS NewestIsShown
PROPERTIES AppliedStands ForwardOnly TakenIsAnswered

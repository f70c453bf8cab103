\* A tag on SQLite with two readers and every hazard.
SPECIFICATION Spec
CONSTANTS
    early = early
    late = late
    argued = argued
    rival = rival
    r1 = r1
    r2 = r2
    u1 = u1
    u2 = u2
    Submissions = {early, late}
    BuiltAt <- MCBuiltAt
    Inventory <- MCInventory
    Senders = {u1}
    Readers = {r1, r2}
    Moves = FALSE
    MaxAttempts = 2
    MaxScans = 3
    MaxJobs = 4
    Hazards = {"read fails", "recovery fails", "crash", "shutdown", "takeover", "answer lost", "rolled back", "requeue"}
    MaxEvents = 1
    Serial = TRUE
CHECK_DEADLOCK FALSE
SYMMETRY Alike
INVARIANTS TypeOK RowsNameAScan
PROPERTIES IdentifiersInOrder StandingIsNotReplaced

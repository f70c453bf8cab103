\* A process that dies after letting a branch scan's documents go.
SPECIFICATION Spec
CONSTANTS
    early = early
    late = late
    argued = argued
    rival = rival
    r1 = r1
    r2 = r2
    u1 = u1
    u2 = u2
    Submissions = {early, late}
    BuiltAt <- MCBuiltAt
    Inventory <- MCInventory
    Senders = {u1}
    Readers = {r1}
    Moves = TRUE
    MaxAttempts = 2
    MaxScans = 3
    MaxJobs = 5
    Hazards = {"crash"}
    MaxEvents = 1
    Serial = TRUE
CHECK_DEADLOCK FALSE
SYMMETRY Alike
PROPERTIES AppliedStands

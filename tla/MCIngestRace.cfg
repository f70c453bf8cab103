\* Two uploads in flight at once on a server.
SPECIFICATION Spec
CONSTANTS
    early = early
    late = late
    argued = argued
    rival = rival
    r1 = r1
    r2 = r2
    u1 = u1
    u2 = u2
    Submissions = {early, late}
    BuiltAt <- MCBuiltAt
    Inventory <- MCInventory
    Senders = {u1, u2}
    Readers = {r1}
    Moves = FALSE
    MaxAttempts = 1
    MaxScans = 2
    MaxJobs = 2
    Hazards = {}
    MaxEvents = 0
    Serial = FALSE
CHECK_DEADLOCK FALSE
SYMMETRY Alike
INVARIANTS NewestIsShown

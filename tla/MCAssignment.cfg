\* A deployment may have no rule left and nothing more that happens.
SPECIFICATION MCSpec
CONSTANTS
    p1 = p1
    p2 = p2
    lib = lib
    app = app
    kernel = kernel
    web = web
    Procs = {p1, p2}
    Findings = {lib, app}
    Matches <- Both
    Team <- ToEach
    People = {}
    Batch = 1
    MaxBacklog = 1
    MaxAttempts = 2
    MaxEvents = 2
INVARIANT TypeOK
PROPERTIES
    RuleTakesNothing
    FirstMatchWins
    WorkIsPlaced
CHECK_DEADLOCK FALSE

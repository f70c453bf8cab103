---------------------------- MODULE MCAssignment ----------------------------
\* An instance of Assignment, as a deployment begins to sweep: of two findings
\* one is there and the other may yet arrive, and of two rules, which name both
\* of them and the second one, the first is in force.
EXTENDS Assignment

CONSTANTS lib, app, kernel, web

Both == <<{lib, app}, {app}>>
ToEach == <<kernel, web>>

MCInit ==
    /\ Init
    /\ reading = Parties
    /\ finding[lib] = "open" /\ finding[app] = "absent"
    /\ rule[1] = "in force"

MCSpec == MCInit /\ [][Next]_vars /\ Fairness
=============================================================================

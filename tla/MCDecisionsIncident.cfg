\* An incident and an agreement at once, each reading a snapshot.
SPECIFICATION Spec
CONSTANTS
    People = {ann, bob}
    Places = {lib}
    Sessions = {s1, s2}
    Engines = {"snapshot"}
    MaxDecisions = 1
    MaxWords = 1
    MaxVersion = 1
SYMMETRY Symmetry
INVARIANTS
    NotExploitedAndDismissed

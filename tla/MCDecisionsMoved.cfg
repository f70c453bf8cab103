\* Rows set aside between an approver's two reads.
SPECIFICATION Spec
CONSTANTS
    People = {ann, bob}
    Places = {lib, app}
    Sessions = {s1, s2}
    Engines = {"statements"}
    MaxDecisions = 2
    MaxWords = 1
    MaxVersion = 1
SYMMETRY Symmetry
INVARIANTS
    RestsOnAnAgreement

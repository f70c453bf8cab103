SPECIFICATION MCSpec
CONSTANTS
    People = {ann, bob, cho}
    Places = {lib, app}
    Sessions = {s1, s2}
    Engines = {"serial", "snapshot", "statements"}
    MaxDecisions = 2
    MaxWords = 3
    MaxVersion = 2
SYMMETRY Symmetry
INVARIANTS
    TypeOK
    AgreedByAnother
    SerialKeepsTheRecord
    OneAnswerAtAPlace
    InForceIsAgreed
PROPERTIES
    EndedStandsOnlyRevised
    SentBackIsNotAgreed

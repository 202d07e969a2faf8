SPECIFICATION Spec
CONSTANTS
    v1 = v1
    v2 = v2
    Values <- MCValues
    None = None
    MaxCommands = 4
SYMMETRY MCSymmetry
INVARIANTS
    FallbackExact
    ReadsExact
PROPERTIES
    NeverGrantedTwice

SPECIFICATION FairSpec
CONSTANTS
    Operators = {"op1", "op2"}
    Names = {"qwen"}
    None = None
    Commands <- TwoTerminals
INVARIANTS
    TypeOK
    OnlyValidServed
    ReloadServesLoaded
    ReloadWaitsForBoth
PROPERTY CommandsEnd

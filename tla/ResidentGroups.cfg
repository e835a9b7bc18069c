SPECIFICATION Spec
CONSTANTS
    Models = {a, b, c}
    Names = {a, b, c, typo}
    Groups = {g, h}
    Default = Default
INVARIANTS
    OneTwoNodeModel
    RefusedForCause
CHECK_DEADLOCK FALSE

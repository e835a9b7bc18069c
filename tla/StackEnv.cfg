SPECIFICATION Spec
CONSTANT MaxTroubles = 2
INVARIANT TypeOK
INVARIANT SetValuesSurvive
INVARIANT DatabaseOpens
INVARIANT StartApplies
INVARIANT KeysAgree

SPECIFICATION DocSpec

CONSTANTS
    Genesis <- MCGenesis
    GenesisLength <- MCGenesisLength
    Point <- MCPoint
    NotAPoint = NotAPoint
    PointOf <- MCPointOf
    Compressed <- MCCompressed
    Items <- MCItems
    Nothing = Nothing
    Draft <- MCDraft
    Networks <- MCNetworks
    OtherText <- MCOtherText
    KeyComponents <- MCKeyComponents
    Altered <- MCAltered

INVARIANTS
    ReadIdIsRequested

CHECK_DEADLOCK FALSE

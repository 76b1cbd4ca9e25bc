CONSTANTS
    ExpBits = 3
    ManBits = 8
    FExpBits = 2
    FManBits = 4
    CompareInputs <- MC_CompareInputs
    HexInputs <- MC_HexInputs
    ParseInputs <- MC_ParseInputs
    NotANumber = NotANumber
    NFE = NFE
SPECIFICATION Spec
INVARIANTS
    ParseDoubleExact

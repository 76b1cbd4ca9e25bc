CONSTANTS
    NotANumber = NotANumber
    NFE = NFE
    IntInputs <- MC_IntInputs
    ShortInputs <- MC_ShortInputs
SPECIFICATION Spec
INVARIANT
    ShortStringConstructorKeepsValue

CONSTANTS
    o1 = o1
    o2 = o2
    o3 = o3
    i1 = i1
    i2 = i2
    i3 = i3
    NullPtr = NullPtr
    corrEmpty = corrEmpty
    corrC = corrC
    NotANumber = NotANumber
    NFE = NFE
    IntInputs <- MC_IntInputs
    ShortInputs <- MC_ShortInputs
SPECIFICATION DecafSpec
SYMMETRY CommandSymmetry
INVARIANTS
    NarrowingExact
    ReverseBytesSwaps
    ClassifiersExact
    CompareIsTotalOrder
    HexStringDenotesValue
    DataInputTypeOK
    DecodesMatchReference
    EqualsIsEquivalence
PROPERTIES
    CopyEstablishesEquality

SPECIFICATION Spec
CONSTANTS
    MaxWord = 31
    SigStruct = 1
    KeyStruct = 1
    KbHeader = 4
    KbSigAt = 1
    KbChkAt = 2
    KbKeyAt = 3
    PreHeader = 5
    PreHeader20 = 4
    PreSigAt = 1
    SubkeyAt = 2
    BodySigAt = 3
    ChecksumSize = 1
    NumAlgorithms = 2
    SigLen <- MCSigLen
    KeyExtra = 1
    Fields = {0, 1, 3, 5, 9, 31}
    Sizes = {0, 3, 9, 14, 22, 31}
INVARIANTS
    TypeOK
    ReadsInside
    AcceptedIsSigned
    MadeIsAccepted
    PartsApart
    VInv
CHECK_DEADLOCK FALSE

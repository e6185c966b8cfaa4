\* one byte more than a multiple of MSS
SPECIFICATION Spec
CONSTANTS
    MSS = 3
    bytesToTransfer = 4
    MaxNumber = 16
    Base = 10
    Letter = 99
    DigitAt = {2}
    InitialSSTHRESH = 7
    SlotBytes = 4
    WindowBound = 24
    Text <- NumeralText
    Source <- File
INVARIANTS
    ReceivedIsWhole
CHECK_DEADLOCK FALSE

\* slots as the code allocates them, with no room for file bytes
SPECIFICATION Spec
CONSTANTS
    MSS = 3
    bytesToTransfer = 9
    MaxNumber = 16
    Base = 10
    Letter = 99
    DigitAt = {}
    SlotBytes = 0
    InitialSSTHRESH = 7
    WindowBound = 27
    Text <- NumeralText
    Source <- File
INVARIANT SegmentsKeepTheirBytes
CHECK_DEADLOCK FALSE

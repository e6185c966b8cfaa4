\* a file that begins with 0, so that a late segment 1 reads as number 10
SPECIFICATION Spec
CONSTANTS
    MSS = 3
    bytesToTransfer = 11
    MaxNumber = 16
    Base = 10
    Letter = 99
    DigitAt = {1}
    InitialSSTHRESH = 7
    SlotBytes = 4
    WindowBound = 27
    Text <- NumeralText
    Source <- File
INVARIANTS
    DelaysKeepOrder
CHECK_DEADLOCK FALSE

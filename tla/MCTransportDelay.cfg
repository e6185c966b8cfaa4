\* an ack that comes after the first receive timeout
SPECIFICATION Spec
CONSTANTS
    MSS = 3
    bytesToTransfer = 8
    MaxNumber = 16
    Base = 10
    Letter = 99
    DigitAt = {2, 7}
    InitialSSTHRESH = 7
    SlotBytes = 4
    WindowBound = 27
    Text <- NumeralText
    Source <- File
INVARIANTS
    SurvivesDelays
CHECK_DEADLOCK FALSE

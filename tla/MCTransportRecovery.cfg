\* a timeout in fast recovery, then another triple duplicate
SPECIFICATION Spec
CONSTANTS
    MSS = 3
    bytesToTransfer = 14
    MaxNumber = 16
    Base = 10
    Letter = 99
    DigitAt = {2, 7}
    InitialSSTHRESH = 7
    SlotBytes = 4
    WindowBound = 27
    Text <- NumeralText
    Source <- File
INVARIANTS
    SurvivesRecovery
CHECK_DEADLOCK FALSE

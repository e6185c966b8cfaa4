\* a file of nine bytes, whose last ack has two digits
SPECIFICATION FairSpec
CONSTANTS
    MSS = 3
    bytesToTransfer = 9
    MaxNumber = 16
    Base = 10
    Letter = 99
    DigitAt = {2, 7}
    InitialSSTHRESH = 7
    SlotBytes = 4
    WindowBound = 16
    Text <- NumeralText
    Source <- File
PROPERTIES
    EveryTransferEnds
CHECK_DEADLOCK FALSE

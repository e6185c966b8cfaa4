\* messages lost for good, and fairness
SPECIFICATION FairSpec
CONSTANTS
    MSS = 3
    bytesToTransfer = 6
    MaxNumber = 16
    Base = 10
    Letter = 99
    DigitAt = {2, 7}
    InitialSSTHRESH = 7
    SlotBytes = 4
    WindowBound = 22
    Text <- NumeralText
    Source <- File
PROPERTIES
    FinDelivered
    TransferEnds
    SenderFinishes
CHECK_DEADLOCK FALSE

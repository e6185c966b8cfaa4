\* base 10, so that the numerals of one transfer have one and two digits; the
\* file has digits in every byte but the first
SPECIFICATION Spec
CONSTANTS
    MSS = 3
    bytesToTransfer = 14
    MaxNumber = 16
    Base = 10
    Letter = 99
    DigitAt = {2, 3, 4, 5, 6, 7, 8, 9, 10, 11, 12, 13, 14}
    InitialSSTHRESH = 7
    SlotBytes = 4
    WindowBound = 27
    Text <- NumeralText
    Source <- File
INVARIANTS
    TypeOK
    AckSound
    SegmentsNameTheirBytes
    IndexInBounds
    NeverConfused
    PrefixDelivered
    FinishedMeansDelivered
    DuplicatesCounted
PROPERTIES
    AcksAdvance
    IsStream
CHECK_DEADLOCK FALSE

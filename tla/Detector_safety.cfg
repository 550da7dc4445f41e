SPECIFICATION FairSpec
CONSTANTS
    Frames <- FadingFrames
    MaxFrames = 2
    MaxLate = 1
    MaxTime = 5
INVARIANTS
    TypeOK
    EventAccounting
    ScoreBracketed
    ImageOfOwnOrLaterEvent
    ScanCountsBrightPixels
    AtMostOneEventAfterStop
PROPERTIES
    EveryEventRecorded
    BlindForever
CHECK_DEADLOCK FALSE

SPECIFICATION Spec
CONSTANTS
    Frames <- RacingFrames
    MaxFrames = 2
    MaxLate = 0
    MaxTime = 10
INVARIANTS
    ReadsInBounds
    ThresholdPaidByEvents
CHECK_DEADLOCK FALSE

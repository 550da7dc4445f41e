SPECIFICATION FairSpec
CONSTANTS
    d1 = d1
    d2 = d2
    n1 = n1
    n2 = n2
    NoDetection = NoDetection
    Devices <- OneDevice
    Detections <- OneDetection
    DeviceOf <- LoneDetection
    KeyOf <- LoneKey
    MaxFaults = 2
    CrashInAck = TRUE
PROPERTIES
    ViewNeverShrinks
CHECK_DEADLOCK FALSE

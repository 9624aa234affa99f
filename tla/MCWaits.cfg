CONSTANTS
    Callers = {c1, c2}
    Checkin = Checkin
    MaxSeq = 3
    MaxEpoch = 2
    MaxInbox = 1
    PushSeqs = {1, 2}
    MaxAttempts = 6
    MaxFaults = 4
    Baked = 1
    Delays = {2, 3}
SPECIFICATION PartSpec
INVARIANTS OwnReply UpMeansAccepted PendingExact WillTryAgain
PROPERTIES CallsSettle PluginComesUp DetectionsAreTimed
CHECK_DEADLOCK FALSE

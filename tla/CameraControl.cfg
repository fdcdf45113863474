CONSTANTS
    w1 = w1
    w2 = w2
    w3 = w3
    Clients = {w1, w2, w3}
    Saved = {w1, w2}
    Null = Null
    MaxConnections = 2
    RecvRoom = 1
    Messages <- McMessages
    Restored <- McRestored
    Setters <- McSetters
    SavedTargets = {1}
    Users = {w1}
    MaxSent = 2
    MaxClosed = 1
    MaxBusy = 2
SPECIFICATION Spec
INVARIANTS CameraInStep ThresholdsOfOneMessage ReplyFirst
CHECK_DEADLOCK FALSE
PROPERTY AdmittedOrBlocked

CONSTANTS
    h1 = h1
    h2 = h2
    Hosts = {h1, h2}
    Port <- OwnPorts
    Phase <- Phases
    UsecsPerMsec = 3
    MAX_CLIENTS = 1
    max_samples = 2
    max_round_trip_usecs = 3
    Unset = Unset
    MaxTime = 5
    MaxInFlight = 2
    MaxSamplesSeen = 3
SPECIFICATION Spec
INVARIANTS OwnClient ConnectedHasClock OffsetSound PredictionSound
PROPERTY ConstructorReturns
CHECK_DEADLOCK FALSE

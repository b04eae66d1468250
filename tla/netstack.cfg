\* One flow; each end sends enough to fill both buffers on its way.
CONSTANTS
    MaxUnits = 2
    HighWater = 1
    TcpBuf = 1
SPECIFICATION FairSpec
INVARIANTS EofMeansAllSent FinMeansAllReceived
PROPERTIES GuestEndReachesTheReader ExternalEndReachesTheGuest
           FinishedFlowsAreReaped

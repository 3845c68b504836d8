SPECIFICATION MCSpec
CONSTANTS
    TruckIds = {t1, t2, t3}
    Sockets <- MCSockets
    NumTrucks = 3
    MaxTrucks = 4
    Commands = {status, leave}
    MaxCommands = 4
    LeaderMessages <- MCLeaderMessages
    Jitter <- MCJitter
    JoinSpeed = 20
    MaxMessages = 1
INVARIANTS
    TMTypeOK
    OrdersContiguous
    BehindIsTheRestOfTheLine
    CQTypeOK
    NoLostWakeup
    NothingLostOrReordered
    StopDrains
    SCTypeOK
    BackwardsOnlyIfTold
PROPERTIES
    SocketIsStable
    ImplementsPlatoonOrder
    QueuedCommandsHandled
    ImplementsCommandFifo
    RepeatedEmergencySlowsDown

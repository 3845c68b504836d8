SPECIFICATION Spec
CONSTANTS
    TruckIds = {t1, t2}
    Sockets <- MCSockets
    NumTrucks = 3
    MaxTrucks = 2
    Requests <- MCRequests
    Rejections <- MCRejections
    Workloads <- ReusedSocketLoads
    InitSpeed = 77
    InitBrake = 1
INVARIANTS
    SendReachesAddressee

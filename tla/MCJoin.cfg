SPECIFICATION Spec
CONSTANTS
    TruckIds = {t1, t2}
    Sockets <- MCSockets
    NumTrucks = 2
    MaxTrucks = 2
    Requests <- MCRequests
    Rejections <- MCRejections
    Workloads <- JoinLoads
    InitSpeed = 77
    InitBrake = 1
SYMMETRY TruckSymmetry
INVARIANTS
    TypeOK
    NoGhostTruck
    PlatoonCapacity
PROPERTIES
    RemovalIsItsOwn
    ImplementsMembership
    EmergencyLatched

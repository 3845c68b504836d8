SPECIFICATION FairSpec
CONSTANTS
    TruckIds = {t1}
    Sockets <- MCSockets
    NumTrucks = 3
    MaxTrucks = 1
    Requests <- MCRequests
    Rejections <- MCRejections
    Workloads <- PostponeLoads
    InitSpeed = 77
    InitBrake = 1
PROPERTIES
    PostponedLeaveResumes

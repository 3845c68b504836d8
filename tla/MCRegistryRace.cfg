SPECIFICATION RRSpec
CONSTANTS
    TruckIds = {t1, t2, t3}
    Sockets <- MCSockets
    NumTrucks = 3
    MaxTrucks = 3
INVARIANTS
    AddedIsRegistered
CHECK_DEADLOCK FALSE

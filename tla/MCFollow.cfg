SPECIFICATION FairFTSpec
CONSTANTS
    MaxConns = 2
    MAX_RESEND_MESS = 2
    Setups <- MCSetups
INVARIANTS
    FTTypeOK
    OperatesAsMember
    OperatesConnected
    ThreadsServeTheSession
PROPERTIES
    LossIsRecovered
    LeaderEndIsNoticed
    ImplementsMembership
CHECK_DEADLOCK FALSE

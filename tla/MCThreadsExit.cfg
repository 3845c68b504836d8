SPECIFICATION FTSpec
CONSTANTS
    MaxConns = 1
    MAX_RESEND_MESS = 1
    Setups <- ExitSetups
INVARIANTS
    ThreadsExitBeforeLeaving
CHECK_DEADLOCK FALSE

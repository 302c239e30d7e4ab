SPECIFICATION FairSpec
CONSTANTS
    Apps = {"app"}
    MaxLives = 2
INVARIANTS
    SocketUsedWhileOpen
    StopIsFinal

    
CHECK_DEADLOCK FALSE

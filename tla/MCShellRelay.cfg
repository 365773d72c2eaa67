SPECIFICATION FairSpec
CONSTANTS
    Scripts <- MCScripts
    SafeServer = TRUE
    SafeClient = TRUE
    Windows = TRUE
    Resizes = 1
    MaxChunk = 2
    SockCap = 20
    PtyCap = 2
    ChanCap = 2
    MaxMessage = 40
CHECK_DEADLOCK FALSE
INVARIANTS BytesIntact
PROPERTIES ExitEndsSession DisconnectKillsChild

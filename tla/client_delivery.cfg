\* Every failure, with the callbacks on the threads they have in the SDK. The
\* last chunk is a short one.
CONSTANTS
    start_addr = 3
    last_addr = 10
    UPLOAD_CHUNK = 2
    Conns = {c1, c2}
    NoConn = NoConn
    Nul = Nul
    Junk = Junk
    Erased = Erased
    Keys = {"list", "upload"}
    Faults <- AnyFault
    OnWorkQueue = {"button_handler", "disconnected"}
SPECIFICATION FairSpec
INVARIANTS
    OffsetInStep
    FinishedMeansStored
PROPERTIES
    UploadEnds
    KeepsReconnecting

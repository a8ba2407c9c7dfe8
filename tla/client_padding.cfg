\* Nothing fails; the last chunk of the slot is a short one.
CONSTANTS
    start_addr = 3
    last_addr = 8
    UPLOAD_CHUNK = 2
    Conns = {c1, c2}
    NoConn = NoConn
    Nul = Nul
    Junk = Junk
    Erased = Erased
    Keys = {"list", "upload"}
    Faults = {}
    OnWorkQueue = {"button_handler", "disconnected"}
SPECIFICATION FairSpec
CHECK_DEADLOCK FALSE
INVARIANTS
    NulNotSent

\* Nothing fails and the buttons are handled on the work queue, as in the SDK.
\* The program may come to rest for good: that is what the run is about.
CONSTANTS
    start_addr = 3
    last_addr = 8
    UPLOAD_CHUNK = 2
    Conns = {c1, c2}
    NoConn = NoConn
    Nul = Nul
    Junk = Junk
    Erased = Erased
    Keys = {"list", "upload"}
    Faults = {}
    OnWorkQueue = {"button_handler", "disconnected"}
SPECIFICATION FairSpec
CHECK_DEADLOCK FALSE
PROPERTIES
    PressUploads

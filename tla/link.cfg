\* Two connection objects on either board: one may still be closing while the
\* next is in use. No key is pressed.
CONSTANTS
    start_addr = 0
    last_addr = 1
    UPLOAD_CHUNK = 1
    Conns = {c1, c2}
    NoConn = NoConn
    Nul = Nul
    Junk = Junk
    Erased = Erased
    Keys = {}
    Faults <- EveryLinkFault
    OnWorkQueue = {"button_handler", "disconnected"}
    Objs = {o1, o2}
SPECIFICATION FairLinkSpec
INVARIANTS
    ComposedTypeOK
    ServerNotForgotten
    ClientNotIdle
PROPERTIES
    Reconnects

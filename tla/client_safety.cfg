\* Every failure, every interleaving. The slot is a whole number of chunks, so
\* that the upload ends with the chunk that has no byte left to send.
CONSTANTS
    start_addr = 3
    last_addr = 9
    UPLOAD_CHUNK = 2
    Conns = {c1, c2}
    NoConn = NoConn
    Nul = Nul
    Junk = Junk
    Erased = Erased
    Keys = {"list", "upload", "test", "confirm"}
    Faults <- AnyFault
    OnWorkQueue = {}
SPECIFICATION Spec
INVARIANTS
    TypeOK
    OneToken
    PeerHoldsPrefix
    OneConnection
PROPERTIES
    LostForGood
    ImplementsTransfer
SYMMETRY
    ConnsAlike

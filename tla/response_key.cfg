\* A peer whose answers may start with another key of two letters.
CONSTANTS
    h1 = h1
    h2 = h2
    Hashes = {h1, h2}
    ZeroHash = ZeroHash
    BufSize = 14
    PartSizes = {5, 9, 14, 20}
    UploadAnswers <- MCOtherKeys
    ListAnswers <- MCListAnswers
    BytesAtRc = "other"
SPECIFICATION Spec
PROPERTIES
    RcKeyRequired

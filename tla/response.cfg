\* A buffer for two images of a listing; one of the peers lists four.
CONSTANTS
    h1 = h1
    h2 = h2
    Hashes = {h1, h2}
    ZeroHash = ZeroHash
    BufSize = 14
    PartSizes = {5, 9, 14, 20}
    UploadAnswers <- MCUploadAnswers
    ListAnswers <- MCListAnswers
    BytesAtRc = "other"
SPECIFICATION Spec
INVARIANTS
    TypeOK
PROPERTIES
    TokenForSuccessOnly
    HashesFollowListing

\* Two images take turns in the client's slot; only one confirms itself.
CONSTANTS
    a = a
    b = b
    Factory = Factory
    ZeroHash = ZeroHash
    NoImage = NoImage
    Images <- TwoImages
    SelfConfirming <- OnlyA
SPECIFICATION Spec
INVARIANTS
    TypeOK
    RunsWhatWasListed
    HashIsCurrent

\* One update, which confirms itself.
CONSTANTS
    a = a
    b = b
    Factory = Factory
    ZeroHash = ZeroHash
    NoImage = NoImage
    Images <- OnlyA
    SelfConfirming <- OnlyA
SPECIFICATION Spec
PROPERTIES
    WontRevert

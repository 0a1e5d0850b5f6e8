SPECIFICATION Spec
CONSTANTS
    Handle = {"strict", "detached"}
    Config <- ConfigOf
    Key = {"a", "b"}
    Own = "own"
    Incoming = "theirs"
    Big = "big"
    Files <- SomeFiles
    HmacKey = {"k1", "k2"}
    NoKey = "no key"
INVARIANTS
    TrailerSignsItsBody
    SavedFileVerifies
    CacheIsOnDisk

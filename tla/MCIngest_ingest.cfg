CONSTANTS
    Names <- MCNames
    NodeIds = {"a", "b", "c", "p0", "p1", "p2"}
    BadWords = {"bad"}
    Digits <- MCDigits
    KeyOrder <- MCKeyOrder
    UnsafeWords = {"unsafe"}
    SecretWords = {"secret"}
    LongWords = {"long"}
    Topics = {"v", "w"}
    Segments <- MCNone
    ImportOf <- MCNone
    VersionOf <- MCNone
    Shelf <- MCNone
    Inputs <- MCInputs
    Calls <- MCCalls
    FileRanges = {"lines"}
    IdAt <- MCIdAt
SPECIFICATION Spec
INVARIANTS
    WrittenFileIsValid
    EveryMemberIsKept
CHECK_DEADLOCK FALSE

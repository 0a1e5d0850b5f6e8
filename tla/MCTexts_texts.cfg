CONSTANTS
    Names <- MCNames
    NodeIds = {"a", "b", "c", "d"}
    BadWords = {"bad"}
    Digits <- MCDigits
    KeyOrder <- MCKeyOrder
    Documents <- MCDocuments
    Chunks <- MCChunks
SPECIFICATION Spec
INVARIANTS
    AgreesWithBatch
    EventsTellTheFile
    FmtKeepsTheFile
CHECK_DEADLOCK FALSE

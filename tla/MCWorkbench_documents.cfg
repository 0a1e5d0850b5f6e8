CONSTANTS
    Names <- MCNames
    NodeIds <- MCIds
    BadWords = {"bad"}
    Digits <- MCDigits
    KeyOrder <- MCKeyOrder
    UnsafeWords = {"unsafe"}
    SecretWords = {"secret"}
    LongWords = {"long"}
    Topics = {"k", "l"}
    Segments <- MCSegments
    ImportOf <- MCImportOf
    VersionOf <- MCVersionOf
    Shelf <- MCShelf
    LowerOf <- MCLowerOf
    ProseWindow = 3
    Matching <- MCMatching
    SegmentOf <- MCSegmentOf
    WordsIn <- MCWordsIn
    Stops = {"."}
    SummaryWords = 2
    WholeOf <- MCWholeOf
    DotZero <- MCDotZero
    ScalarAs <- MCScalarAs
    Versions <- MCVersions
    Levels <- MCLevels
    RuleChoices <- MCRuleChoices
    RuleFiles <- MCRuleFiles
    Loads <- MCLoads
    Markdown <- MCMarkdown
    Ranks <- MCRanks
    Tables <- MCCalm
    Memories <- MCMemories
SPECIFICATION Spec
INVARIANTS
    RepairsSettle
    CyclesAgree
    DebugLoadIsClosed
    DifferencesAreTold
    CompiledFilesReadBack
    SidecarsReadBack
    JsonReadsBack
    DependenciesLead
PROPERTIES
    RewritesKeepTheNodes
CONSTRAINT RunFiles

SPECIFICATION FairSpec
CONSTANTS
    Case = {1, 2, 3}
    PathOf <- Shared
    Answers <- SomeAnswers
    Concurrency = 2
    Normalize = TRUE
    Suites <- Whole
    MaxSuites = 2
INVARIANTS
    PermitsAddUp
    ReportTellsTheSuite
    ReplayRepeatsRecording
PROPERTIES
    SuitesEnd

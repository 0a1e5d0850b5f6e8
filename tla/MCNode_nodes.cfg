SPECIFICATION FairSpec
CONSTANTS
    Node = {1, 2, 3, 4}
    Depends <- Diamond
    Blocks <- DiamondBlocks
    Checks <- DiamondChecks
    Upserts <- DiamondUpserts
    AgentContext <- DiamondContexts
    File = {"f", "g"}
    SizeOf <- Length
    Timeout = 2
    Concurrency = 2
    MaxAttempts = 2
INVARIANTS
    CompletedEditsSurvive
    EditsAtMostOncePerAttempt
    ContextSeesDependencies
    PassedChecksStillHold
PROPERTIES
    
    AgentsReturn
CHECK_DEADLOCK FALSE

SPECIFICATION Spec
CONSTANTS
    Node = {1, 2, 3}
    Imported = {}
    Proc = {1, 2}
    Plans <- ChainPlans
    Writers <- NoNodes
    Commands <- SharedCommands
    Imports <- NoNodes
    Crashes = TRUE
    IoErrors = FALSE
INVARIANTS
    FailureContained

SPECIFICATION Spec
CONSTANTS
    Node = {1, 2, 3, 4}
    Imported = {}
    Proc = {1}
    Plans <- DiamondPlans
    Writers <- AllWriters
    Commands <- SettleCommands
    Imports <- NoNodes
    Crashes = FALSE
    IoErrors = FALSE
INVARIANTS
    RunSettlesEveryNode
    CompletedNodesAreRemembered

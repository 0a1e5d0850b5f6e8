SPECIFICATION FairSpec
CONSTANTS
    Node = {1, 2, 3, 4}
    Imported = {}
    Proc = {1}
    Plans <- GrowingPlans
    Writers <- NoNodes
    Commands <- SafeCommands
    Imports <- Backups
    Crashes = TRUE
    IoErrors = TRUE
INVARIANTS
    DependencyOrder
PROPERTIES
    TransitionsAreLegal
    CommandsEnd
    ImplementsLifecycle

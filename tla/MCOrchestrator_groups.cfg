SPECIFICATION Spec
CONSTANTS
    Node = {1, 2, 3, 4}
    Imported = {}
    File <- Tree
    Groups = {1, 2, 3}
    Groupings <- SomeGroupings
    Targets <- AnyTarget
    Crashes = TRUE
INVARIANTS
    RequiredGroupsWentFirst
    DependenciesWentFirst
PROPERTIES
    NothingSettledIsStarted
    ExitZeroLeavesNothingToRun

SPECIFICATION Spec
CONSTANTS
    Proc = {1, 2}
    File = {"a", "b"}
    FileOf <- OwnFile
    Key = {"k"}
    Effects <- SomeEffects
    MaxTime = 2
PROPERTIES
    ProjectMemoryIsDurable
    NoStaleEntryReturns

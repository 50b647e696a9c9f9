SPECIFICATION Spec
CONSTANTS
    Readers = {"a", "b"}
    Size = 4
    MaxFrames = 11
INVARIANTS
    WindowIsLatest
    WaiterHasNothing
PROPERTY ImplementsQueue

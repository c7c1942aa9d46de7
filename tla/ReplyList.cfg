SPECIFICATION ListsSpec
CONSTANTS
    MaxXid = 4
    MaxLen = 5
INVARIANTS
    FrontExact
    AgreesWithWindow
PROPERTIES
    ImplementsWindow

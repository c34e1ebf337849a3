\* Two functions, four frames, two exceptions
SPECIFICATION Spec
CONSTANTS
    Function = {"main", "f"}
    Main = "main"
    Codes = {1, 2}
    Tables <- MCTables
    Body = 2
    CallSize = 2
    MaxFrames = 4
    MaxRaises = 2
INVARIANTS
    TypeOK
    InnermostHandler
    StaysInTables
PROPERTIES
    CleanedBeforeLeft
    RaiseEnds

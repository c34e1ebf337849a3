\* A loop in the body of a loop
SPECIFICATION Spec
CONSTANTS
    Function = {"main", "init"}
    Externs = {}
    Variadic = {}
    VaInit = "init"
    Globals = {"main"}
    Constructs = {"while"}
    MaxNodes = 2
    MaxArms = 0
    LexicalBreaks = TRUE
    NestedLoops = TRUE
INVARIANTS CurrentLoop

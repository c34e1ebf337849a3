\* One loop at a time
SPECIFICATION Spec
CONSTANTS
    Function = {"main", "init"}
    Externs = {}
    Variadic = {}
    VaInit = "init"
    Globals = {"main"}
    Constructs = {"use", "if", "while", "switch", "break", "continue", "return"}
    MaxNodes = 4
    MaxArms = 1
    LexicalBreaks = TRUE
    NestedLoops = FALSE
INVARIANTS
    TypeOK
    PhiMatchesPredecessors
    NothingAfterBranch
    SealedFunctions

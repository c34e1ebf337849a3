\* Functions generated inside one another, nested loops, break anywhere
SPECIFICATION Spec
CONSTANTS
    Function = {"main", "print", "init", "extern"}
    Externs = {"extern"}
    Variadic = {"print"}
    VaInit = "init"
    Globals = {"main", "print"}
    Constructs = {"use", "block", "call", "while", "break", "continue", "switch", "fallthrough"}
    MaxNodes = 2
    MaxArms = 1
    LexicalBreaks = FALSE
    NestedLoops = TRUE
INVARIANTS
    LoopTargets
    FunctionsApart
PROPERTIES
    GeneratesLazily
    BreakLeavesInnermostLoop

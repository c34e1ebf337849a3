\* One included file, and all kinds of tokens
SPECIFICATION Spec
CONSTANTS
    Files = {"main", "inc"}
    Main = "main"
    Letters = {"a"}
    Digits = {"0"}
    Symbols = {"<", "="}
    Keywords <- MCKeywords
    MaxAsks = 1
    MaxText = 5
INVARIANTS
    TypeOK
    EveryCharOnce
    LookAheadUndone
    OperatorSpelled
PROPERTIES
    ReadingEnds

\* Expressions of up to six nodes; one that is generated, or that the bound leaves
\* unfinished, stops
SPECIFICATION Spec
CONSTANTS
    Functions = {"f", "print", "printf"}
    Members = {"print"}
    Variadic = {"print", "printf"}
    Externs = {"printf"}
    Parameters <- MCParameters
    IntBits = {1, 2, 5}
    FloatBits = {2, 5}
    Short = 2
    Long = 5
    Precision = 2
    Values = {1, 2, 5, 15}
    Modifiers <- MCSuffixes
    MaxNodes = 6
    MaxLiterals = 1
    MaxArgs = 2
INVARIANTS
    TypeOK
    CallsAsWritten
    AddressAfterValue
    VariadicCount
    LiteralKept
CHECK_DEADLOCK FALSE

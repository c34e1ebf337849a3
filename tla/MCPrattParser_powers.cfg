\* An operator of every kind
SPECIFICATION Spec
CONSTANTS
    Operators = {"dot", "plus", "compare_lt", "logical_and", "assign",
                 "logical_not", "call", "subscript"}
    MaxTokens = 7
INVARIANTS
    TypeOK
    SourceOrder
    TighterOperator
PROPERTIES
    Terminates

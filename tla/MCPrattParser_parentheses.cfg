\* A comparison in parentheses as the operand of another
SPECIFICATION Spec
CONSTANTS
    Operators = {"dot", "plus", "compare_lt", "logical_and", "assign",
                 "logical_not", "call", "subscript"}
    MaxTokens = 7
INVARIANTS
    ParenthesesSeparate

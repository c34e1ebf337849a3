\* Every switch has two arms
SPECIFICATION Spec
CONSTANTS
    Name = {"x", "y"}
    MaxFunctions = 2
    MaxNodes = 4
    Arms = {2}
INVARIANTS
    OuterScopesKept

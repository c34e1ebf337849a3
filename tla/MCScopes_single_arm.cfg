\* Every switch has exactly one arm
SPECIFICATION Spec
CONSTANTS
    Name = {"x", "y"}
    MaxFunctions = 2
    MaxNodes = 4
    Arms = {1}
INVARIANTS
    TypeOK
    OuterScopesKept
    NamesResolved
PROPERTIES
    ScopesRestored

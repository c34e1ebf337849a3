CONSTANTS
  Files = {"main", "a", "b"}
  Main = "main"
  Missing = {"nowhere"}
  SpaceNames = {"x"}
  FunctionNames = {"f", "x"}
  TypeNames = {"x"}
  MaxConstructs = 5
SPECIFICATION Spec
INVARIANTS
  TypeOK
  ReadOnceToEnd
  AttributesLocal
PROPERTIES
  NamesKept

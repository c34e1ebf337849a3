CONSTANTS
  Scalars = {"i32"}
  Structs = {"Pair"}
  Written = {"i32", "ptr"}
  Lengths = {3}
  MaxTypes = 5
  MaxNames = 3
  MaxDims = 1
  MaxParts = 2
  MaxArgs = 0
  MaxArity = 2
SPECIFICATION Spec
INVARIANTS
  TypeOK
  InstancesUnique
  TemplatesFit
  CodegenOnce
PROPERTIES
  MeaningKept

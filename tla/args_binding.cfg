SPECIFICATION Spec
CONSTANTS
  None = None
  Families <- AllFamilies
  AddedKinds <- OperandKinds
  Additions <- AllAdditions
  MaxOperands = 7
  MaxOps = 2
  MaxPatterns = 1
  OperandSettings <- AllOperandSettings
  OpSettings <- AllOpSettings
  Handles = {h1}
CONSTRAINT OneGraph
VIEW Objects
INVARIANTS TypeOK ReadsRightVariants
PROPERTIES ImplementsNamed

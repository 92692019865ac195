\* Every builder of two operations over three operands, and of three with outputs of their own.
SPECIFICATION Spec
CONSTANTS
  Builders <- MCBuilders
  None = None
INVARIANTS TypeOK AcceptsExactlyDags AlwaysNamesEdge ColorsStable ColorsKeepSymmetry

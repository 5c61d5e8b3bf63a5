\* Every tree of up to six nodes.
CONSTANTS
  MaxNode = 6
SPECIFICATION Spec
INVARIANTS
  RowsShowTree
CHECK_DEADLOCK FALSE

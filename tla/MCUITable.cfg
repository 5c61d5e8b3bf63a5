\* Up to three beans, pages of one or two rows.
CONSTANTS
  v1 = v1
  v2 = v2
  Value <- MCValue
  Undefined = undefined
  NoFilter = nofilter
  PageSize = {1, 2}
  RangeSize = 2
  MaxBeans = 3
  MaxItem = 3
SYMMETRY MCSymmetry
SPECIFICATION Spec
INVARIANTS
  ShownIsCurrent
  PopupRowIsItsBean
  PagesCoverList
  NoGhostRows
CHECK_DEADLOCK FALSE

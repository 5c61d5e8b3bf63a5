\* One or two beans bound and three in all, three inputs, two timers of a kind.
CONSTANTS
  t1 = t1
  Undefined = undefined
  Nobody = nobody
  Term <- MCTerm
  Bound <- MCBound
  MaxBean = 3
  MaxEdit = 3
  MaxTimer = 1
  MaxMulti = 2
SPECIFICATION Spec
INVARIANTS
  TabsAreArray
  OriginIsInitial
  TextIsValue
PROPERTIES
  DateReachesItsBean
CHECK_DEADLOCK FALSE

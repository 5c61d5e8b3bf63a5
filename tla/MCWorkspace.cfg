\* Up to five objects, up to two callbacks of each component.
CONSTANTS
  search = search
  cluster = cluster
  nodes = nodes
  indices = indices
  jobs = jobs
  api = api
  a = a
  b = b
  unlabelled = unlabelled
  Plugin <- MCPlugin
  Direct <- MCDirect
  Lazy <- MCLazy
  Single <- MCSingle
  PluginOf <- MCPluginOf
  Default <- MCDefault
  Nothing = nothing
  Label <- MCLabel
  Odd = {unlabelled}
  MaxObject = 5
  MaxPending = 2
SPECIFICATION Spec
INVARIANTS
  TopIsShown
  ShowsSelection
PROPERTIES
  CrumbLeadsToItsView
  ImplementsViewStack
CHECK_DEADLOCK FALSE

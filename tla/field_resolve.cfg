\* The system stops after the last of the MaxRuns runs, or when New refuses.
CHECK_DEADLOCK FALSE
SPECIFICATION Spec
CONSTANTS
  root = root
  leaf = leaf
  x = x
  y = y
  av = av
  zv = zv
  one = one
  Prefixed = Prefixed
  Alias = Alias
  Cmds <- TwoCmds
  Path <- Paths
  Names <- TwoNames
  Rank <- Order
  Items = {av, zv, one}
  Scalars = {one}
  Keys = {Prefixed, Alias}
  Apps <- SomeApps
  Inputs <- SomeInputs
  Junk <- Written
  MaxRuns = 2
INVARIANTS
  SourcesInOrder
  NothingOutsideChoices
  DefaultsSurvive
  BoundAsDeclared

SPECIFICATION Spec
CONSTANTS
  w1 = w1
  w2 = w2
  x = x
  y = y
  g = g
  plain = plain
  rich = rich
  loud = loud
  Nil = Nil
  Empty = Empty
  Workers <- TwoWorkers
  Total = 2
  MaxInt = 7
  Moves <- SomeMoves
  Base = 1
  Lines <- SomeLines
  Attrs <- TwoAttrs
  Groups <- OneGroup
  Styles <- TwoStyles
  MaxHandlers = 4
  MaxRuns = 2
  MaxCalls = 3
SYMMETRY Alike
INVARIANTS
  
  SiblingsApart
  LinesOfOneStyle
PROPERTIES
  NeverBackByItself
CHECK_DEADLOCK FALSE

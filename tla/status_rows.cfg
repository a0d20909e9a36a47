SPECIFICATION FairSpec
CONSTANTS
  a = a
  b = b
  w1 = w1
  w2 = w2
  t1 = t1
  Nil = Nil
  Ends <- SomeEnds
  Keys <- TwoRows
  Workers <- TwoWorkers
  Texts <- OneText
  Prios <- TwoPriorities
  Heights <- LowTerminal
  MaxCalls = 4
  MaxTime = 1
  ExtraReserve = 1
INVARIANTS
  VisibleRowsShown
  DisplayOrder
PROPERTIES
  TimersTellTime
  ScreenCatchesUp

SPECIFICATION ParseSpec
CONSTANTS
  a = a
  b = b
  c = c
  x = x
  p = p
  q = q
  h1 = h1
  h2 = h2
  name1 = name1
  bold = bold
  Unset = Unset
  NoColor = NoColor
  Absent = Absent
  Settings <- BoldOnly
  Manifests <- SomeManifests
INVARIANTS
  VisitingIsPath
  ParsedAsWritten
CHECK_DEADLOCK FALSE

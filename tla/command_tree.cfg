\* The first run ends the registration: nothing happens after it.
CHECK_DEADLOCK FALSE
SPECIFICATION Spec
CONSTANTS
  d1 = d1
  d2 = d2
  d3 = d3
  NoDecl = NoDecl
  NoGroup = NoGroup
  a = a
  b = b
  Names <- TwoNames
  g = g
  Groups <- OneGroup
  Decls <- NestedDecls
  Top <- TopDecls
  Kids <- KidsOfDecls
  MaxCmds = 3
INVARIANTS
  NothingHalfRegistered
  DeclarationsAccounted
PROPERTIES
  RollbackIsLocal
SYMMETRY NameSymmetry

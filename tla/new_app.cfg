SPECIFICATION Spec
CONSTANTS
  a = a
  b = b
  c = c
  s1 = s1
  s2 = s2
  base = base
  other = other
  typo = typo
  Nil = Nil
  Tokens <- Three
  DefaultAliases <- Fallthrough
  Options <- OptionLists
  Catalog <- BuiltIn
  Default = base
  Terminals <- SomeTerminals
  Required <- CoreTokens
  MultiByte = {"wide"}
INVARIANTS
  CyclesRefused
  LookupsAgree
  
  BuiltinsFit
  BuiltinsAnswer
CHECK_DEADLOCK FALSE

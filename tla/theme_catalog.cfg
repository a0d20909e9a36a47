SPECIFICATION Spec
CONSTANTS
  g1 = g1
  g2 = g2
  sound = sound
  faulty = faulty
  typo = typo
  Nil = Nil
  Edited = Edited
  Callers <- TwoCallers
  Names <- ThreeNames
  Calls <- FourCalls
  rawCatalog <- Embedded
  Sound <- SoundOnly
INVARIANTS
  RegistryKept
PROPERTIES
  ImplementsRegistry

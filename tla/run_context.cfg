CHECK_DEADLOCK FALSE
SPECIFICATION Spec
CONSTANTS
  Root = Root
  deploy = deploy
  Cmds <- TwoCmds
  Specs <- SomeSpecs
  MaxHooks = 1
  MaxGlobals = 1
  MaxRuns = 2
INVARIANTS
  ContextOfThisRun

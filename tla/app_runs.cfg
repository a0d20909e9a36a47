\* The system stops after the last of the MaxRuns runs.
CHECK_DEADLOCK FALSE
SPECIFICATION Spec
CONSTANTS
  Root = Root
  deploy = deploy
  Cmds <- TwoCmds
  Specs <- SomeSpecs
  MaxHooks = 1
  MaxGlobals = 2
  MaxRuns = 2
INVARIANTS
  StoppedRunsStop
  EverythingCalled
  FirstErrorReturned
  StateOfThisRun

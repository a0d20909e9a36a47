\* The call ends: a returned call makes no step.
CHECK_DEADLOCK FALSE
SPECIFICATION StatusSpec
CONSTANTS
  Completions <- SomeCompletions
  FnErr = FnErr
  ConfigErr = ConfigErr
  WriteErr = WriteErr
  TeaErr = TeaErr
  Canceled = Canceled
  Deadline = Deadline
  NoErr = NoErr
  Pending = Pending
  NoCompletion = NoCompletion
INVARIANTS
  SuccessIsEarned
  HeaderTellsOutcome
PROPERTIES
  ImplementsLiveCall
  UIStops

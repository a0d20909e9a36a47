\* The call ends: a returned call makes no step.
CHECK_DEADLOCK FALSE
SPECIFICATION SpinnerSpec
CONSTANTS
  t1 = t1
  t2 = t2
  NoTitle = NoTitle
  Titles <- SomeTitles
  FnErr = FnErr
  ConfigErr = ConfigErr
  WriteErr = WriteErr
  Canceled = Canceled
  Deadline = Deadline
  NoErr = NoErr
  Pending = Pending
INVARIANTS
  SuccessIsEarned
  FinalLineTellsOutcome
PROPERTIES
  ImplementsLiveCall
  CancelEndsAnimation

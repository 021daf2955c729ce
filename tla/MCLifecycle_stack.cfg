SPECIFICATION Spec
CONSTANTS
  Pid <- Pid5
  Programs <- Texiting
  StalePids <- Zeroed
  None = None
INVARIANT StackOutlivesThread
CHECK_DEADLOCK FALSE

SPECIFICATION FairSpec
CONSTANTS
  Pid <- Pid5
  Programs <- Exiting
  StalePids <- Zeroed
  None = None
PROPERTY WaitpidReturns
CHECK_DEADLOCK FALSE

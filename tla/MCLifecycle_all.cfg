SPECIFICATION Spec
CONSTANTS
  Pid <- Pid5
  Programs <- All
  StalePids <- Zeroed
  None = None
INVARIANT TypeOK ChildrenMatch ExitsAlone LiveHasFds
CHECK_DEADLOCK FALSE

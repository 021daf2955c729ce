SPECIFICATION Spec
CONSTANTS
  Thread = {t1, t2}
  Process = {A, B}
  Root = A
  N = 1
  Data = {0}
  Zero = 0
  MaxSz = 1
  MaxFds = 2
  Sequel = FALSE
  MaxVnodeRefs = 3
  Killable = {t1}
  None = None
INVARIANT ExitClosesEnd
CHECK_DEADLOCK FALSE

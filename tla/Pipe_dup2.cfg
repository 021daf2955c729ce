SPECIFICATION Spec
CONSTANTS
  Thread = {t1, t2}
  Process = {A, B}
  Root = A
  N = 1
  Data = {0}
  Zero = 0
  MaxSz = 1
  MaxFds = 2
  Sequel = TRUE
  MaxVnodeRefs = 3
  Killable = {}
  None = None
INVARIANT FdRefersToFile
CHECK_DEADLOCK FALSE

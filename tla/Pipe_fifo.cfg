SPECIFICATION Spec
CONSTANTS
  Thread = {t1, t2}
  Process = {A}
  Root = A
  N = 2
  Data = {0, 1}
  Zero = 0
  MaxSz = 2
  MaxFds = 1
  Sequel = FALSE
  MaxVnodeRefs = 2
  Killable = {t1}
  None = None
INVARIANT TypeOK
PROPERTY FifoSpec
CHECK_DEADLOCK FALSE

SPECIFICATION FairSpec
CONSTANTS
  Thread = {t1, t2}
  Process = {A, B}
  Root = A
  N = 1
  Data = {0}
  Zero = 0
  MaxSz = 1
  MaxFds = 2
  Sequel = FALSE
  MaxVnodeRefs = 3
  Killable = {}
  None = None
INVARIANT EndOpenInUse PipeNoLostWakeup UnusedEndClosed
PROPERTY HangupEndsCall ReadyCallProceeds
CHECK_DEADLOCK FALSE

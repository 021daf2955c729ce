SPECIFICATION Spec
CONSTANTS
  c0 = c0
  c1 = c1
  p1 = p1
  p2 = p2
  p3 = p3
  Proc = {p1, p2}
  Cpu = {c0, c1}
  Queue = {wq, waitpid_wq}
  WaitpidQ = waitpid_wq
  CpuOf <- TwoCpus
  BootQ <- TwoCpusBoot
  Killers = {p1}
  DirectWakers = {p1}
  None = None
INVARIANT EndWakesWaiter

------------------------------ MODULE MCSched ------------------------------
(* Small instances of Sched.  Process p runs on CPU p % ncpu; processes 1   *)
(* and 2 (init and the first program), where an instance has them, exist at  *)
(* boot, others are forked.                                                  *)
EXTENDS Sched, TLC

CONSTANTS c0, c1, p1, p2, p3

TwoCpus == [p \in Proc |-> IF p = p2 THEN c0 ELSE c1]
TwoCpusBoot ==
  [c \in Cpu |-> SelectSeq(IF c = c0 THEN <<p2>> ELSE <<p1>>, LAMBDA p : p \in Proc)]
=============================================================================

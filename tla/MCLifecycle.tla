---------------------------- MODULE MCLifecycle ----------------------------
(***************************************************************************)
(* Instances of Lifecycle for TLC.  A program says which calls the threads *)
(* in slots 2, 3, ... may make; init, in slot 1, only waits.               *)
(***************************************************************************)
EXTENDS Lifecycle, Sequences

Pid5 == 1 .. 5

\* kfree fills a page with zeros before it can be allocated again.
Zeroed == {0}

Slots(calls) == <<{}>> \o calls

\* Single threads that fork, wait for any child, exit and fault, with and
\* without memory.
Families == {
  Slots(<<{"fork", "exit", "fault", "wait_any"}, {"fork", "nomem"}, {"exit"}>>),
  Slots(<<{"fork", "exit", "wait_any"}, {"fork", "fault"}, {"exit"}>>)}

\* The same with waitpid(pid), and two waiters.
Named == {
  Slots(<<{"fork", "nomem", "wait_pid"}, {"clone", "exit", "texit", "fault", "nomem"}>>),
  Slots(<<{"fork", "wait_pid"}, {"fork", "wait_pid"}, {"exit"}>>)}

\* The threads of one process, ending in every way and in any order.
Teams == {
  Slots(<<{"clone", "exit", "texit", "fault"},
          {"exit", "texit", "block"}, {"exit", "texit"}>>)}

\* Threads that fork and wait, and whose children clone; a fork that overlaps a child's clone.
Mixtures == {
  Slots(<<{"clone", "exit"}, {"fork", "exit", "wait_any"}, {"exit"}>>),
  Slots(<<{"clone", "wait_any"}, {"fork", "texit"}, {"clone"}>>),
  Slots(<<{"fork"}, {"clone"}, {"exit", "fault"}, {}>>)}

All == Families \cup Named \cup Teams \cup Mixtures

\* A program that exits; a thread that forks and waits; a process that ends
\* with sys_texit.
Exiting == {Slots(<<{"exit"}>>)}
ThreadWaits == {Slots(<<{"clone"}, {"fork", "wait_any"}, {"exit"}>>)}
Texiting == {Slots(<<{"texit"}>>)}
=============================================================================

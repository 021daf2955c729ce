------------------------------- MODULE Sched -------------------------------
(***************************************************************************)
(* The scheduler and the wait queues of the kernel: cpustate::schedule and *)
(* cpustate::enqueue (k-cpu.cc), proc::yield and proc::resume              *)
(* (k-exception.S), proc::wake (kernel.hh), waiter and wait_queue          *)
(* (k-wait.hh), and the timer and device interrupts that drive them        *)
(* (proc::exception in kernel.cc).                                         *)
(*                                                                         *)
(* A step is one critical section, or one access to memory that no common  *)
(* lock protects.  proc::state_ is such memory: prepare and clear write it *)
(* under the wait queue's lock, wake reads and writes it under the run     *)
(* queue's lock, and an exiting thread writes it under no lock.            *)
(*                                                                         *)
(* What a kernel task does between two blocking calls is abstracted to the *)
(* condition event[q] that the predicate given to block_until tests        *)
(* (bytes in a pipe, a finished disk command, a broken child, ...).        *)
(***************************************************************************)
EXTENDS Integers, Sequences

CONSTANTS
  Proc,          \* kernel tasks other than the idle tasks (ptable[])
  Cpu,           \* processors; a CPU's name also stands for its idle task
  Queue,         \* wait queues
  WaitpidQ,      \* the wait queue waitpid_wq
  CpuOf,         \* proc::cpu_, fixed when the process is created
  BootQ,         \* the run queues that kernel_start sets up
  Killers,       \* processes that mark another thread exiting_
  DirectWakers,  \* processes that call proc::wake outside a wait queue
  None           \* the null pointer

ASSUME SchedAssumption ==
  /\ Cpu # {}
  /\ Proc \cap Cpu = {}
  /\ None \notin Proc \cup Cpu \cup Queue
  /\ CpuOf \in [Proc -> Cpu]
  /\ WaitpidQ \in Queue
  /\ BootQ \in [Cpu -> Seq(Proc)]
  /\ \A c \in Cpu : \A i, j \in DOMAIN BootQ[c] :
       /\ CpuOf[BootQ[c][i]] = c
       /\ BootQ[c][i] = BootQ[c][j] => i = j

Task == Proc \cup Cpu

\* The tasks that exist when the CPUs enter schedule for the first time.
Booted(t) == t \in Cpu \/ \E c \in Cpu : \E i \in DOMAIN BootQ[c] : BootQ[c][i] = t

VARIABLES
  state_,    \* proc::state_ of every task
  context,   \* "yields" or "regs": which saved context resume() uses
  exiting_,  \* proc::exiting_
  pc,        \* where in the kernel a process is
  wq_,       \* the wait queue that a process's waiter or signal refers to
  q_,        \* wait_queue::q_, as the set of waiting processes
  event,     \* the condition that a queue's waiters wait for
  current_,  \* cpustate::current_
  runq_,     \* cpustate::runq_
  mode,      \* "run": executing current_;  "sched": in schedule()
  yielding_from,  \* schedule()'s local variable
  waking,    \* the queue whose wake_all the CPU executes, lock held
  poking,    \* the process whose wake() has just seen it blocked
  panicked,  \* an assertion has failed
  untold     \* history: a thread became broken, and no wake_all on
             \* waitpid_wq has begun since, nor does its code call one

vars == <<state_, context, exiting_, pc, wq_, q_, event, current_,
          runq_, mode, yielding_from, waking, poking, panicked, untold>>

procVars == <<exiting_, pc, wq_>>
queueVars == <<q_, event, untold>>
cpuVars == <<current_, mode, yielding_from>>

-----------------------------------------------------------------------------
(***************************************************************************)
(* Run queues.                                                             *)
(***************************************************************************)
Queued(t) == \E c \in Cpu : \E i \in DOMAIN runq_[c] : runq_[c][i] = t

\* proc::resumable
Resumable(t) == context[t] # "none"

RunqLocked(c) == \E d \in Cpu : poking[d] # None /\ CpuOf[poking[d]] = c

\* Mutant: enqueue a task even if it is current_.
EnqueueCurrent(c, t, cur, st) ==
  IF Queued(t)
    THEN UNCHANGED <<runq_, panicked>>
    ELSE /\ runq_' = [runq_ EXCEPT ![c] = Append(@, t)]
         /\ panicked' = ~(Resumable(t) \/ st # "runnable")

\* cpustate::enqueue(t), called with current_ = cur and run queue lock held.
\* The assertion there reads state_, which is st now.
Enqueue(c, t, cur, st) ==
  IF cur = t \/ Queued(t)
    THEN UNCHANGED <<runq_, panicked>>
    ELSE /\ runq_' = [runq_ EXCEPT ![c] = Append(@, t)]
         /\ panicked' = ~(Resumable(t) \/ st # "runnable")

-----------------------------------------------------------------------------
(***************************************************************************)
(* cpustate::schedule.                                                     *)
(***************************************************************************)
Scheduling(c) == ~panicked /\ mode[c] = "sched"

\* Mutant: a task that has just yielded may be chosen again at once.
RunsCurrentAgain(c) ==
  /\ current_[c] # None
  /\ state_[current_[c]] = "runnable"

RunsCurrent(c) ==
  /\ current_[c] # None
  /\ state_[current_[c]] = "runnable"
  /\ current_[c] # yielding_from[c]

\* proc::resume: asserts that there is a saved context, and consumes it.
Resume(c) ==
  /\ Scheduling(c)
  /\ RunsCurrent(c)
  /\ mode' = [mode EXCEPT ![c] = "run"]
  /\ context' = [context EXCEPT ![current_[c]] = "none"]
  /\ panicked' = ~Resumable(current_[c])
  /\ UNCHANGED <<state_, procVars, queueVars, current_, runq_, yielding_from,
                 waking, poking>>

\* The head of the run queue rq, or the idle task if rq is empty.
NextTask(c, rq) == IF rq = <<>> THEN c ELSE Head(rq)

\* Mutants: current_ is not tested for null; current_ is not enqueued again.
SwitchTaskNoNullTest(c) ==
  /\ Scheduling(c)
  /\ ~RunsCurrent(c)
  /\ ~RunqLocked(c)
  /\ LET old == current_[c]
         back == old = None \/ (state_[old] = "runnable" /\ ~Queued(old))
         rq == IF back THEN Append(runq_[c], old) ELSE runq_[c]
     IN /\ current_' = [current_ EXCEPT ![c] = NextTask(c, rq)]
        /\ runq_' = [runq_ EXCEPT ![c] = IF rq = <<>> THEN rq ELSE Tail(rq)]
  /\ UNCHANGED <<state_, context, procVars, queueVars, mode, yielding_from,
                 waking, poking, panicked>>

SwitchTaskDrop(c) ==
  /\ Scheduling(c)
  /\ ~RunsCurrent(c)
  /\ ~RunqLocked(c)
  /\ current_' = [current_ EXCEPT ![c] = NextTask(c, runq_[c])]
  /\ runq_' = [runq_ EXCEPT ![c] = IF @ = <<>> THEN @ ELSE Tail(@)]
  /\ yielding_from' = [yielding_from EXCEPT
                         ![c] = IF current_[c] = None THEN @ ELSE None]
  /\ UNCHANGED <<state_, context, procVars, queueVars, mode, waking, poking,
                 panicked>>

\* The part of schedule()'s loop under runq_lock_.
SwitchTask(c) ==
  /\ Scheduling(c)
  /\ ~RunsCurrent(c)
  /\ ~RunqLocked(c)
  /\ LET old == current_[c]
         back == old # None /\ state_[old] = "runnable" /\ ~Queued(old)
         rq == IF back THEN Append(runq_[c], old) ELSE runq_[c]
     IN /\ current_' = [current_ EXCEPT ![c] = NextTask(c, rq)]
        /\ runq_' = [runq_ EXCEPT ![c] = IF rq = <<>> THEN rq ELSE Tail(rq)]
        /\ yielding_from' = [yielding_from EXCEPT
                               ![c] = IF old = None THEN @ ELSE None]
        /\ panicked' = (back /\ ~Resumable(old))
  /\ UNCHANGED <<state_, context, procVars, queueVars, mode, waking, poking>>

\* proc::yield and yield_noreturn: enter schedule(t) with saved context ctx.
EnterSchedule(c, t, ctx) ==
  /\ context' = [context EXCEPT ![t] = ctx]
  /\ mode' = [mode EXCEPT ![c] = "sched"]
  /\ yielding_from' = [yielding_from EXCEPT ![c] = t]
  /\ UNCHANGED <<current_, runq_, waking, poking, panicked>>

-----------------------------------------------------------------------------
(***************************************************************************)
(* proc::wake and wait_queue::wake_all.                                    *)
(***************************************************************************)
WqLocked(q) == \E c \in Cpu : waking[c] = q

\* One iteration of wake_all: pop a waiter and wake it.  The order in which
\* the waiters are popped is left open.
WakeOne(c) ==
  /\ ~panicked
  /\ waking[c] # None
  /\ \E p \in q_[waking[c]] :
       /\ ~RunqLocked(CpuOf[p])
       /\ q_' = [q_ EXCEPT ![waking[c]] = @ \ {p}]
       /\ IF state_[p] = "blocked"
            THEN /\ state_' = [state_ EXCEPT ![p] = "runnable"]
                 /\ Enqueue(CpuOf[p], p, current_[CpuOf[p]], "runnable")
            ELSE UNCHANGED <<state_, runq_, panicked>>
  /\ UNCHANGED <<context, procVars, event, untold, cpuVars, waking, poking>>

WakeAllDone(c) ==
  /\ ~panicked
  /\ waking[c] # None
  /\ q_[waking[c]] = {}
  /\ waking' = [waking EXCEPT ![c] = None]
  /\ UNCHANGED <<state_, context, procVars, queueVars, cpuVars, runq_, poking,
                 panicked>>

\* A wake() that does not come from a wait queue: its test of state_ ...
PokeTest(c, t) ==
  /\ ~RunqLocked(CpuOf[t])
  /\ state_[t] = "blocked"
  /\ poking' = [poking EXCEPT ![c] = t]
  /\ UNCHANGED <<state_, context, procVars, queueVars, cpuVars, runq_, waking,
                 panicked>>

\* ... and its assignment to state_.
PokeSet(c) ==
  /\ ~panicked
  /\ poking[c] # None
  /\ LET t == poking[c]
     IN /\ state_' = [state_ EXCEPT ![t] = "runnable"]
        /\ Enqueue(CpuOf[t], t, current_[CpuOf[t]], "runnable")
  /\ poking' = [poking EXCEPT ![c] = None]
  /\ UNCHANGED <<context, procVars, queueVars, cpuVars, waking>>

-----------------------------------------------------------------------------
(***************************************************************************)
(* What the running process does.                                          *)
(***************************************************************************)
Executing(c, t) ==
  /\ ~panicked
  /\ mode[c] = "run"
  /\ current_[c] = t
  /\ waking[c] = None
  /\ poking[c] = None

At(c, p, where) == Executing(c, p) /\ pc[p] = where

Goto(p, where) == pc' = [pc EXCEPT ![p] = where]

\* A system call that will block on queue q.
BlockUntil(c, p, q) ==
  /\ At(c, p, "user")
  /\ wq_' = [wq_ EXCEPT ![p] = q]
  /\ Goto(p, "prepare")
  /\ UNCHANGED <<state_, context, exiting_, queueVars, cpuVars, runq_, waking,
                 poking, panicked>>

\* waiter::prepare, called by block_until ("test"), or by the loops of
\* sys_waitpid and sys_msleep ("poll").
Prepare(c, p) ==
  /\ At(c, p, "prepare")
  /\ ~WqLocked(wq_[p])
  /\ state_' = [state_ EXCEPT ![p] = "blocked"]
  /\ q_' = [q_ EXCEPT ![wq_[p]] = @ \cup {p}]
  /\ \E where \in {"test", "poll"} : Goto(p, where)
  /\ UNCHANGED <<context, exiting_, wq_, event, untold, cpuVars, runq_, waking,
                 poking, panicked>>

\* Mutant: the exit path sets broken before it calls clear.
TestBreaksFirst(c, p) ==
  /\ At(c, p, "test")
  /\ IF exiting_[p]
       THEN state_' = [state_ EXCEPT ![p] = "broken"] /\ Goto(p, "kill")
       ELSE UNCHANGED state_ /\ Goto(p, IF event[wq_[p]] THEN "leave" ELSE "block")
  /\ UNCHANGED <<context, exiting_, wq_, queueVars, cpuVars, runq_, waking,
                 poking, panicked>>

\* The predicate holds: the process goes on to use the resource, which may
\* leave the condition true or not.
Granted(p) ==
  /\ event[wq_[p]]
  /\ \E left \in BOOLEAN : event' = [event EXCEPT ![wq_[p]] = left]
  /\ Goto(p, "leave")

\* The predicate does not hold: the process will block.
Refused(p) == ~event[wq_[p]] /\ Goto(p, "block") /\ UNCHANGED event

\* block_until's test of exiting_ and of the predicate.
Test(c, p) ==
  /\ At(c, p, "test")
  /\ \/ exiting_[p] /\ Goto(p, "kill") /\ UNCHANGED event
     \/ ~exiting_[p] /\ (Granted(p) \/ Refused(p))
  /\ UNCHANGED <<state_, context, exiting_, wq_, q_, untold, cpuVars, runq_,
                 waking, poking, panicked>>

\* The test in sys_waitpid and sys_msleep, which do not look at exiting_, and
\* which leave unserved when called with W_NOHANG or interrupted.
Poll(c, p) ==
  /\ At(c, p, "poll")
  /\ \/ Granted(p) \/ Refused(p)
     \/ Goto(p, "leave") /\ UNCHANGED event
  /\ UNCHANGED <<state_, context, exiting_, wq_, q_, untold, cpuVars, runq_,
                 waking, poking, panicked>>

\* waiter::clear, reached from block(), from the end of block_until, and
\* from block_until's exit path.
AfterClear(where) ==
  CASE where = "clear" -> "prepare"
    [] where = "leave" -> "user"
    [] where = "kill"  -> "broken"

Clear(c, p) ==
  /\ \E where \in {"clear", "leave", "kill"} :
       /\ At(c, p, where)
       /\ Goto(p, AfterClear(where))
       /\ wq_' = [wq_ EXCEPT ![p] = IF where = "clear" THEN @ ELSE None]
  /\ ~WqLocked(wq_[p])
  /\ state_' = [state_ EXCEPT ![p] = "runnable"]
  /\ q_' = [q_ EXCEPT ![wq_[p]] = @ \ {p}]
  /\ UNCHANGED <<context, exiting_, event, untold, cpuVars, runq_, waking,
                 poking, panicked>>

\* proc::yield, called by waiter::block ("block"), by sys_yield ("yield") or
\* after a page fault ("fault").
AfterYield(where) ==
  CASE where = "block" -> "clear"
    [] where = "yield" -> "user"
    [] where = "fault" -> "faulted"

Yield(c, p) ==
  /\ \E where \in {"block", "yield", "fault"} :
       At(c, p, where) /\ Goto(p, AfterYield(where))
  /\ EnterSchedule(c, p, "yields")
  /\ UNCHANGED <<state_, exiting_, wq_, queueVars>>

\* sys_yield
SysYield(c, p) ==
  /\ At(c, p, "user")
  /\ Goto(p, "yield")
  /\ UNCHANGED <<state_, context, exiting_, wq_, queueVars, cpuVars,
                 runq_, waking, poking, panicked>>

\* sys_texit of a thread that is not the last one of its process.
Texit(c, p) ==
  /\ At(c, p, "user")
  /\ Goto(p, "broken")
  /\ UNCHANGED <<state_, context, exiting_, wq_, queueVars, cpuVars,
                 runq_, waking, poking, panicked>>

\* Mutant: the ending thread does not call wake_all.
SetBrokenNoWake(c, p) ==
  /\ At(c, p, "broken")
  /\ state_' = [state_ EXCEPT ![p] = "broken"]
  /\ event' = [event EXCEPT ![WaitpidQ] = TRUE]
  /\ Goto(p, "leaving")
  /\ UNCHANGED <<context, exiting_, wq_, q_, untold, cpuVars, runq_,
                 waking, poking, panicked>>

\* A thread that ends by itself, or because it is marked exiting_, declares
\* itself broken, which is the condition that the waiters on waitpid_wq wait
\* for, and will then call wake_all.
SetBroken(c, p) ==
  /\ At(c, p, "broken")
  /\ state_' = [state_ EXCEPT ![p] = "broken"]
  /\ event' = [event EXCEPT ![WaitpidQ] = TRUE]
  /\ wq_' = [wq_ EXCEPT ![p] = WaitpidQ]
  /\ Goto(p, "notify")
  /\ UNCHANGED <<context, exiting_, q_, untold, cpuVars, runq_, waking,
                 poking, panicked>>

\* sys_exit: process_exit calls wake_all on waitpid_wq first ...
Exit(c, p) ==
  /\ At(c, p, "user")
  /\ wq_' = [wq_ EXCEPT ![p] = WaitpidQ]
  /\ Goto(p, "exit")
  /\ UNCHANGED <<state_, context, exiting_, queueVars, cpuVars, runq_,
                 waking, poking, panicked>>

\* ... and declares the process broken afterwards.
ExitBroken(c, p) ==
  /\ At(c, p, "ended")
  /\ state_' = [state_ EXCEPT ![p] = "broken"]
  /\ event' = [event EXCEPT ![WaitpidQ] = TRUE]
  /\ untold' = TRUE
  /\ Goto(p, "leaving")
  /\ UNCHANGED <<context, exiting_, wq_, q_, cpuVars, runq_, waking,
                 poking, panicked>>

\* An ended thread leaves for good.
YieldNoReturn(c, p) ==
  /\ At(c, p, "leaving")
  /\ Goto(p, "dead")
  /\ EnterSchedule(c, p, context[p])
  /\ UNCHANGED <<state_, exiting_, wq_, queueVars>>

\* A user-mode page fault that cannot be repaired (proc::exception) makes
\* the thread broken, with no wake_all, and calls yield.
Fault(c, p) ==
  /\ At(c, p, "user")
  /\ state_' = [state_ EXCEPT ![p] = "broken"]
  /\ event' = [event EXCEPT ![WaitpidQ] = TRUE]
  /\ untold' = TRUE
  /\ Goto(p, "fault")
  /\ UNCHANGED <<context, exiting_, wq_, q_, cpuVars, runq_, waking,
                 poking, panicked>>

\* That yield returns if someone makes the thread runnable; the handler
\* asserts that it is, and goes back to user mode.
FaultReturn(c, p) ==
  /\ At(c, p, "faulted")
  /\ Goto(p, "user")
  /\ panicked' = (state_[p] # "runnable")
  /\ UNCHANGED <<state_, context, exiting_, wq_, queueVars, cpuVars,
                 runq_, waking, poking>>

\* A system call that makes the condition of queue q true ...
Signal(c, p, q) ==
  /\ At(c, p, "user")
  /\ event' = [event EXCEPT ![q] = TRUE]
  /\ wq_' = [wq_ EXCEPT ![p] = q]
  /\ Goto(p, "signal")
  /\ UNCHANGED <<state_, context, exiting_, q_, untold, cpuVars, runq_,
                 waking, poking, panicked>>

\* ... and calls wake_all, whose first step is to lock the queue.
AfterWakeAll(where) ==
  CASE where = "signal" -> "user"
    [] where = "notify" -> "leaving"
    [] where = "exit"   -> "ended"

WakeAll(c, p) ==
  /\ \E where \in {"signal", "notify", "exit"} :
       At(c, p, where) /\ Goto(p, AfterWakeAll(where))
  /\ ~WqLocked(wq_[p])
  /\ waking' = [waking EXCEPT ![c] = wq_[p]]
  /\ wq_' = [wq_ EXCEPT ![p] = None]
  /\ untold' = (untold /\ wq_[p] # WaitpidQ)
  /\ UNCHANGED <<state_, context, exiting_, q_, event, cpuVars, runq_,
                 poking, panicked>>

\* process_exit marks a thread of the exiting process.
MarkExiting(c, p, t) ==
  /\ p \in Killers
  /\ At(c, p, "user")
  /\ t # p
  /\ state_[t] \notin {"blank", "broken"}
  /\ exiting_' = [exiting_ EXCEPT ![t] = TRUE]
  /\ UNCHANGED <<state_, context, pc, wq_, queueVars, cpuVars, runq_,
                 waking, poking, panicked>>

\* process_exit wakes a thread it kills, or its parent, if it is blocked.
DirectWake(c, p, t) ==
  /\ p \in DirectWakers
  /\ At(c, p, "user")
  /\ t # p
  /\ PokeTest(c, t)

\* process_fork and sys_clone: the new process gets a full register state
\* and goes to the end of its CPU's run queue.
Fork(c, p, t) ==
  /\ At(c, p, "user")
  /\ state_[t] = "blank"
  /\ ~RunqLocked(CpuOf[t])
  /\ state_' = [state_ EXCEPT ![t] = "runnable"]
  /\ context' = [context EXCEPT ![t] = "regs"]
  /\ runq_' = [runq_ EXCEPT ![CpuOf[t]] = Append(@, t)]
  /\ UNCHANGED <<procVars, queueVars, cpuVars, waking, poking, panicked>>

-----------------------------------------------------------------------------
(***************************************************************************)
(* Interrupts are enabled in user mode, in the idle task, and for one      *)
(* instruction of proc::yield.                                             *)
(***************************************************************************)
Interruptible(c) ==
  \/ Executing(c, c)
  \/ \E p \in Proc, where \in {"user", "block", "yield", "fault"} :
       At(c, p, where)

\* Mutant: the interrupted task's registers are not saved.
TimerUnsaved(c) ==
  /\ Interruptible(c)
  /\ EnterSchedule(c, current_[c], context[current_[c]])
  /\ UNCHANGED <<state_, procVars, queueVars>>

\* The timer interrupt preempts whatever runs.
Timer(c) ==
  /\ Interruptible(c)
  /\ EnterSchedule(c, current_[c], "regs")
  /\ UNCHANGED <<state_, procVars, queueVars>>

\* A device interrupt (or the timer wheel on CPU 0) makes the condition of q
\* true and calls wake_all; it returns to the interrupted task, which the
\* handler asserts to be runnable if it was in user mode.
Interrupt(c, q) ==
  /\ Interruptible(c)
  /\ q # WaitpidQ
  /\ ~WqLocked(q)
  /\ event' = [event EXCEPT ![q] = TRUE]
  /\ waking' = [waking EXCEPT ![c] = q]
  /\ panicked' = \E p \in Proc : At(c, p, "user") /\ state_[p] # "runnable"
  /\ UNCHANGED <<state_, context, procVars, q_, untold, cpuVars, runq_, poking>>

-----------------------------------------------------------------------------
Init ==
  /\ state_ = [t \in Task |-> IF Booted(t) THEN "runnable" ELSE "blank"]
  /\ context = [t \in Task |-> IF Booted(t) THEN "regs" ELSE "none"]
  /\ exiting_ = [p \in Proc |-> FALSE]
  /\ pc = [p \in Proc |-> "user"]
  /\ wq_ = [p \in Proc |-> None]
  /\ q_ = [q \in Queue |-> {}]
  /\ event = [q \in Queue |-> FALSE]
  /\ current_ = [c \in Cpu |-> None]
  /\ runq_ = BootQ
  /\ mode = [c \in Cpu |-> "sched"]
  /\ yielding_from = [c \in Cpu |-> None]
  /\ waking = [c \in Cpu |-> None]
  /\ poking = [c \in Cpu |-> None]
  /\ panicked = FALSE
  /\ untold = FALSE

\* The steps that a CPU takes on its own, once begun.
CpuStep(c) ==
  \/ Resume(c) \/ SwitchTask(c)
  \/ WakeOne(c) \/ WakeAllDone(c) \/ PokeSet(c)
  \/ \E p \in Proc :
       \/ Prepare(c, p) \/ Test(c, p) \/ Poll(c, p) \/ Clear(c, p)
       \/ Yield(c, p) \/ YieldNoReturn(c, p) \/ WakeAll(c, p)
       \/ SetBroken(c, p) \/ ExitBroken(c, p) \/ FaultReturn(c, p)

\* The system calls that a process chooses to make.
Syscall(c) ==
  \E p \in Proc :
    \/ SysYield(c, p) \/ Texit(c, p) \/ Exit(c, p) \/ Fault(c, p)
    \/ \E q \in Queue : BlockUntil(c, p, q) \/ Signal(c, p, q)
    \/ \E t \in Proc :
         MarkExiting(c, p, t) \/ DirectWake(c, p, t) \/ Fork(c, p, t)

Next ==
  \E c \in Cpu :
    \/ CpuStep(c)
    \/ Syscall(c)
    \/ Timer(c)
    \/ \E q \in Queue : Interrupt(c, q)

Spec == Init /\ [][Next]_vars

\* Every CPU keeps executing; a CPU that spins on a lock gets it if the lock
\* is free again and again; a timer interrupt that arrives while interrupts
\* are off stays pending until they are on.
Fairness ==
  \A c \in Cpu :
    /\ SF_vars(CpuStep(c))
    /\ SF_vars(Timer(c))

FairSpec == Spec /\ Fairness

-----------------------------------------------------------------------------
(***************************************************************************)
(* Properties.                                                             *)
(***************************************************************************)

\* Every variable has its type; run queues and current_ hold tasks only.
TypeOK ==
  /\ state_ \in [Task -> {"blank", "runnable", "blocked", "broken"}]
  /\ context \in [Task -> {"none", "yields", "regs"}]
  /\ exiting_ \in [Proc -> BOOLEAN]
  /\ pc \in [Proc -> {"user", "prepare", "test", "poll", "block", "clear", "leave",
                      "kill", "broken", "notify", "leaving", "dead", "exit",
                      "ended", "fault", "faulted", "signal", "yield"}]
  /\ wq_ \in [Proc -> Queue \cup {None}]
  /\ q_ \in [Queue -> SUBSET Proc]
  /\ event \in [Queue -> BOOLEAN]
  /\ current_ \in [Cpu -> Task \cup {None}]
  /\ runq_ \in [Cpu -> Seq(Task)]
  /\ mode \in [Cpu -> {"run", "sched"}]
  /\ yielding_from \in [Cpu -> Task \cup {None}]
  /\ waking \in [Cpu -> Queue \cup {None}]
  /\ poking \in [Cpu -> Proc \cup {None}]
  /\ panicked \in BOOLEAN
  /\ untold \in BOOLEAN

Home(t) == IF t \in Cpu THEN t ELSE CpuOf[t]

\* A task is executed by at most one CPU at a time (two CPUs on one kernel
\* stack would destroy it): it is current_ or queued only on its own CPU,
\* queued at most once, and never queued while it is current_.
OnePlace ==
  \A c \in Cpu :
    /\ current_[c] # None => Home(current_[c]) = c
    /\ \A i \in DOMAIN runq_[c] :
         /\ Home(runq_[c][i]) = c
         /\ runq_[c][i] # current_[c]
         /\ \A j \in DOMAIN runq_[c] : runq_[c][i] = runq_[c][j] => i = j

\* A runnable process is never forgotten: it is on a run queue or current_.
\* The hazard is a wake() that finds its target blocked but still current_,
\* on another CPU, and so does not enqueue it.
RunnableNotLost ==
  \A p \in Proc :
    state_[p] = "runnable" => Queued(p) \/ current_[CpuOf[p]] = p

\* p has given up its CPU inside block_until.
Asleep(p) ==
  /\ state_[p] = "blocked"
  /\ pc[p] \in {"block", "clear"}
  /\ ~(mode[CpuOf[p]] = "run" /\ current_[CpuOf[p]] = p)

\* Someone has begun wake_all on q, or has made q's condition true and is
\* bound to begin it.
WakePending(q) ==
  \/ WqLocked(q)
  \/ \E p \in Proc : pc[p] \in {"signal", "notify"} /\ wq_[p] = q

\* A thread became broken where the code calls no wake_all afterwards.
Untold(q) == q = WaitpidQ /\ untold

\* No lost wakeup: a process asleep on a wait queue is linked into it, and if
\* the condition it waits for holds then a wake_all for it is under way.
\* This is what prepare-before-test in block_until is for.  The only way to
\* lose a wakeup is a thread that becomes broken by a page fault or at the
\* end of process_exit, and only until the next wake_all on waitpid_wq.
NoLostWakeup ==
  \A p \in Proc :
    Asleep(p) =>
      /\ p \in q_[wq_[p]]
      /\ event[wq_[p]] => WakePending(wq_[p]) \/ Untold(wq_[p])

\* What waitpid's caller is told: whoever sleeps on waitpid_wq is about to be
\* woken once a thread is broken, however that thread ended.
EndWakesWaiter ==
  \A p \in Proc :
    Asleep(p) /\ wq_[p] = WaitpidQ /\ event[WaitpidQ] => WakePending(WaitpidQ)

\* No assertion fails: enqueue's "resumable or not runnable", resume's check
\* of the saved context, and the exception handler's "must be runnable".
NoPanic == ~panicked

\* A thread that declared itself broken on its way out of the kernel has been
\* made runnable again.
Revived ==
  \E p \in Proc :
    pc[p] \in {"notify", "leaving", "dead"} /\ state_[p] = "runnable"

\* An assertion fails only after a wake() outside a wait queue, which tested
\* state_ before a thread ended, has made that thread runnable again.  Every
\* other interleaving of wakeups, ends, page faults and preemptions leaves
\* each task that may still run with a saved context.
PanicOnlyIfRevived == panicked => Revived

\* A thread that declared itself broken stays so; only a wake() outside a
\* wait queue that has already found it blocked can undo it.
BrokenIsFinal ==
  [][\A p \in Proc :
       state_[p] = "broken" =>
         \/ state_'[p] = "broken"
         \/ \E c \in Cpu : poking[c] = p /\ poking'[c] = None]_vars

\* A process that sleeps while its condition holds is woken, unless the
\* condition came true by an end that no wake_all follows.
SleeperWoken ==
  \A p \in Proc :
    (Asleep(p) /\ event[wq_[p]] /\ ~Untold(wq_[p])) ~> ~Asleep(p)

\* Every runnable process gets the CPU again.
RunnableRuns ==
  \A p \in Proc :
    state_[p] = "runnable" ~> mode[CpuOf[p]] = "run" /\ current_[CpuOf[p]] = p
=============================================================================

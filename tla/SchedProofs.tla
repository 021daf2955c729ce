---------------------------- MODULE SchedProofs ----------------------------
(***************************************************************************)
(* The safety properties of Sched, for every number of CPUs, processes and *)
(* wait queues.                                                            *)
(***************************************************************************)
EXTENDS Sched, TLAPS

\* Where a process is between prepare and the end of clear.
Waiting == {"test", "poll", "block", "clear", "leave", "kill"}

\* A process that does not exist yet is nowhere.
BlankNowhere ==
  \A p \in Proc :
    state_[p] = "blank" => ~Queued(p) /\ current_[CpuOf[p]] # p

\* A linked waiter belongs to a process that waits on that queue; a blocked
\* process is linked; and the process's waiter or signal names a queue.
Linked ==
  \A p \in Proc :
    /\ \A q \in Queue : p \in q_[q] => wq_[p] = q /\ pc[p] \in Waiting
    /\ state_[p] = "blocked" => wq_[p] \in Queue /\ p \in q_[wq_[p]]
    /\ pc[p] \in Waiting \cup {"prepare", "notify", "signal", "exit"}
         => wq_[p] \in Queue

\* A blocked process that has tested its condition sleeps through it only
\* while a wake_all is on its way, or after an end that no wake_all follows.
Woken ==
  \A p \in Proc :
    /\ pc[p] \in {"block", "clear"}
    /\ state_[p] = "blocked"
    /\ event[wq_[p]]
    => WakePending(wq_[p]) \/ Untold(wq_[p])

PlaceInv == OnePlace /\ RunnableNotLost /\ BlankNowhere

IInv == TypeOK /\ PlaceInv /\ Linked /\ Woken

Running(t) == mode[Home(t)] = "run" /\ current_[Home(t)] = t

\* Where a process is after it has declared itself broken: on its way out,
\* or in the page fault handler.
Gone == {"notify", "leaving", "dead"}
Faulty == {"fault", "faulted"}

Left(t) == t \in Proc /\ pc[t] \in Gone
MayRun(t) == state_[t] \in {"runnable", "blocked"} \/ (t \in Proc /\ pc[t] \in Faulty)

\* A task that may still run, and does not run now, has a saved context.
Saved ==
  \A t \in Task : MayRun(t) /\ ~Running(t) => Resumable(t) \/ Left(t)

\* A broken process is on its way out or has faulted; it is back in the page
\* fault handler only when it is runnable again; and a process that does not
\* exist yet is not poked.
Places ==
  \A p \in Proc :
    /\ state_[p] = "broken" => pc[p] \in Gone \cup Faulty
    /\ state_[p] = "blank" => pc[p] = "user"
    /\ pc[p] = "faulted" /\ Running(p) => state_[p] = "runnable"
    /\ state_[p] = "blank" => \A c \in Cpu : poking[c] # p

\* The additional invariant for the assertions.
PInv == Saved /\ Places /\ PanicOnlyIfRevived

-----------------------------------------------------------------------------
(***************************************************************************)
(* Types.                                                                  *)
(***************************************************************************)
\* The processes and the idle tasks are the tasks.
LEMMA TaskFacts == Proc \subseteq Task /\ Cpu \subseteq Task
  BY DEF Task

\* The initial state has its type.
LEMMA TypeInit == Init => TypeOK
<1> SUFFICES ASSUME Init PROVE TypeOK
  OBVIOUS
<1>1. runq_ \in [Cpu -> Seq(Task)]
  <2>1. Seq(Proc) \subseteq Seq(Task)
    BY TaskFacts
  <2> QED
    BY <2>1, SchedAssumption DEF Init, SchedAssumption
<1> QED
  BY <1>1 DEF Init, TypeOK

\* enqueue keeps the types.
LEMMA EnqueueType ==
  ASSUME TypeOK, NEW c \in Cpu, NEW t \in Task, NEW cur, NEW st,
         Enqueue(c, t, cur, st)
  PROVE  runq_' \in [Cpu -> Seq(Task)] /\ panicked' \in BOOLEAN
<1>1. Append(runq_[c], t) \in Seq(Task)
  BY DEF TypeOK
<1> QED
  BY <1>1 DEF TypeOK, Enqueue

\* Every step keeps the types.
LEMMA TypeStep == TypeOK /\ Next => TypeOK'
<1> SUFFICES ASSUME TypeOK, NEW c \in Cpu,
                    \/ CpuStep(c) \/ Syscall(c) \/ Timer(c)
                    \/ \E q \in Queue : Interrupt(c, q)
             PROVE  TypeOK'
  BY DEF Next
<1>1. CASE Resume(c)
  BY <1>1 DEF TypeOK, Resume, RunsCurrent, procVars, queueVars
<1>2. CASE SwitchTask(c)
  <2> DEFINE old == current_[c]
             back == old # None /\ state_[old] = "runnable" /\ ~Queued(old)
             rq == IF back THEN Append(runq_[c], old) ELSE runq_[c]
  <2>1. rq \in Seq(Task)
    BY DEF TypeOK
  <2>2. NextTask(c, rq) \in Task
    BY <2>1 DEF NextTask, Task
  <2>3. rq # <<>> => Tail(rq) \in Seq(Task)
    BY <2>1
  <2>4. /\ current_' = [current_ EXCEPT ![c] = NextTask(c, rq)]
        /\ runq_' = [runq_ EXCEPT ![c] = IF rq = <<>> THEN rq ELSE Tail(rq)]
        /\ yielding_from' = [yielding_from EXCEPT
                               ![c] = IF old = None THEN @ ELSE None]
        /\ panicked' \in BOOLEAN
        /\ UNCHANGED <<state_, context, procVars, queueVars, mode, waking, poking>>
    BY <1>2 DEF SwitchTask
  <2> HIDE DEF rq
  <2>5. current_' \in [Cpu -> Task \cup {None}] /\ runq_' \in [Cpu -> Seq(Task)]
    BY <2>1, <2>2, <2>3, <2>4 DEF TypeOK
  <2> QED
    BY <2>4, <2>5 DEF TypeOK, procVars, queueVars
<1>3. CASE WakeOne(c)
  <2>1. PICK p \in q_[waking[c]] :
          /\ q_' = [q_ EXCEPT ![waking[c]] = @ \ {p}]
          /\ IF state_[p] = "blocked"
               THEN /\ state_' = [state_ EXCEPT ![p] = "runnable"]
                    /\ Enqueue(CpuOf[p], p, current_[CpuOf[p]], "runnable")
               ELSE UNCHANGED <<state_, runq_, panicked>>
    BY <1>3 DEF WakeOne
  <2>2. p \in Proc /\ p \in Task /\ CpuOf[p] \in Cpu
    BY <1>3, <2>1, TaskFacts, SchedAssumption DEF WakeOne, TypeOK, SchedAssumption
  <2>3. runq_' \in [Cpu -> Seq(Task)] /\ panicked' \in BOOLEAN
    BY <2>1, <2>2, EnqueueType DEF TypeOK
  <2>4. q_' \in [Queue -> SUBSET Proc]
    BY <2>1 DEF TypeOK
  <2> QED
    BY <1>3, <2>1, <2>2, <2>3, <2>4, ZenonT(60) DEF TypeOK, WakeOne, procVars, cpuVars
<1>4. CASE WakeAllDone(c)
  BY <1>4 DEF TypeOK, WakeAllDone, procVars, queueVars, cpuVars
<1>5. CASE PokeSet(c)
  <2>1. poking[c] \in Proc /\ poking[c] \in Task /\ CpuOf[poking[c]] \in Cpu
    BY <1>5, TaskFacts, SchedAssumption DEF PokeSet, TypeOK, SchedAssumption
  <2>2. runq_' \in [Cpu -> Seq(Task)] /\ panicked' \in BOOLEAN
    BY <1>5, <2>1, EnqueueType DEF PokeSet
  <2> QED
    BY <1>5, <2>1, <2>2 DEF TypeOK, PokeSet, procVars, queueVars, cpuVars
<1>6. ASSUME NEW p \in Proc, Prepare(c, p)
      PROVE  TypeOK'
  <2>1. q_' \in [Queue -> SUBSET Proc]
    BY <1>6, ZenonT(60) DEF TypeOK, Prepare
  <2> QED
    BY <1>6, <2>1, TaskFacts DEF TypeOK, Prepare, Goto, cpuVars
<1>7. ASSUME NEW p \in Proc, Test(c, p) \/ Poll(c, p)
      PROVE  TypeOK'
  <2>1. event' \in [Queue -> BOOLEAN]
    BY <1>7 DEF TypeOK, Test, Poll, Granted, Refused
  <2>2. pc' \in [Proc -> {"user", "prepare", "test", "poll", "block", "clear",
                      "leave", "kill", "broken", "notify", "leaving", "dead",
                      "exit", "ended", "fault", "faulted", "signal", "yield"}]
    BY <1>7 DEF TypeOK, Test, Poll, Granted, Refused, Goto
  <2> QED
    BY <1>7, <2>1, <2>2 DEF TypeOK, Test, Poll, cpuVars
<1>8. ASSUME NEW p \in Proc, Clear(c, p)
      PROVE  TypeOK'
  <2>1. q_' \in [Queue -> SUBSET Proc]
    BY <1>8 DEF TypeOK, Clear
  <2>2. pc' \in [Proc -> {"user", "prepare", "test", "poll", "block", "clear",
                      "leave", "kill", "broken", "notify", "leaving", "dead",
                      "exit", "ended", "fault", "faulted", "signal", "yield"}]
    BY <1>8 DEF TypeOK, Clear, Goto, AfterClear
  <2>3. /\ wq_' \in [Proc -> Queue \cup {None}]
        /\ state_' \in [Task -> {"blank", "runnable", "blocked", "broken"}]
    BY <1>8, TaskFacts DEF TypeOK, Clear
  <2> QED
    BY <1>8, <2>1, <2>2, <2>3, ZenonT(30) DEF TypeOK, Clear, cpuVars
<1>9. ASSUME NEW p \in Proc, Yield(c, p)
      PROVE  TypeOK'
  BY <1>9, TaskFacts DEF TypeOK, Yield, AfterYield, EnterSchedule, Goto, queueVars
<1>10. ASSUME NEW p \in Proc, SetBroken(c, p) \/ ExitBroken(c, p)
       PROVE  TypeOK'
  <2>1. CASE SetBroken(c, p)
    BY <2>1, TaskFacts, SchedAssumption
       DEF TypeOK, SetBroken, Goto, cpuVars, SchedAssumption
  <2>2. CASE ExitBroken(c, p)
    BY <2>2, TaskFacts DEF TypeOK, ExitBroken, Goto, cpuVars
  <2> QED
    BY <1>10, <2>1, <2>2
<1>11. ASSUME NEW p \in Proc, WakeAll(c, p)
       PROVE  TypeOK'
  BY <1>11 DEF TypeOK, WakeAll, AfterWakeAll, Goto, cpuVars
<1>16. ASSUME NEW p \in Proc, FaultReturn(c, p)
       PROVE  TypeOK'
  BY <1>16 DEF TypeOK, FaultReturn, Goto, queueVars, cpuVars
<1>12. ASSUME NEW p \in Proc, YieldNoReturn(c, p)
       PROVE  TypeOK'
  BY <1>12, TaskFacts DEF TypeOK, YieldNoReturn, EnterSchedule, Goto, queueVars
<1>13. CASE Syscall(c)
  <2>1. PICK p \in Proc :
          \/ SysYield(c, p) \/ Texit(c, p) \/ Exit(c, p) \/ Fault(c, p)
          \/ \E q \in Queue : BlockUntil(c, p, q) \/ Signal(c, p, q)
          \/ \E t \in Proc :
               MarkExiting(c, p, t) \/ DirectWake(c, p, t) \/ Fork(c, p, t)
    BY <1>13 DEF Syscall
  <2>2. CASE SysYield(c, p)
    BY <2>2 DEF TypeOK, SysYield, Goto, queueVars, cpuVars
  <2>7. CASE Texit(c, p)
    BY <2>7 DEF TypeOK, Texit, Goto, queueVars, cpuVars
  <2>8. CASE Exit(c, p)
    BY <2>8, SchedAssumption DEF TypeOK, Exit, Goto, queueVars, cpuVars, SchedAssumption
  <2>3. CASE Fault(c, p)
    BY <2>3, TaskFacts DEF TypeOK, Fault, Goto, cpuVars
  <2>4. ASSUME NEW q \in Queue, BlockUntil(c, p, q) \/ Signal(c, p, q)
        PROVE  TypeOK'
    <3>1. CASE BlockUntil(c, p, q)
      BY <3>1 DEF TypeOK, BlockUntil, Goto, queueVars, cpuVars
    <3>2. CASE Signal(c, p, q)
      BY <3>2 DEF TypeOK, Signal, Goto, cpuVars
    <3> QED
      BY <2>4, <3>1, <3>2
  <2>5. ASSUME NEW t \in Proc, MarkExiting(c, p, t) \/ DirectWake(c, p, t)
        PROVE  TypeOK'
    <3>1. CASE MarkExiting(c, p, t)
      BY <3>1 DEF TypeOK, MarkExiting, queueVars, cpuVars
    <3>2. CASE DirectWake(c, p, t)
      BY <3>2 DEF TypeOK, DirectWake, PokeTest, procVars, queueVars, cpuVars
    <3> QED
      BY <2>5, <3>1, <3>2
  <2>6. ASSUME NEW t \in Proc, Fork(c, p, t)
        PROVE  TypeOK'
    <3>1. t \in Task /\ CpuOf[t] \in Cpu
      BY TaskFacts, SchedAssumption DEF SchedAssumption
    <3>2. Append(runq_[CpuOf[t]], t) \in Seq(Task)
      BY <3>1 DEF TypeOK
    <3> QED
      BY <2>6, <3>1, <3>2 DEF TypeOK, Fork, procVars, queueVars, cpuVars
  <2> QED
    BY <2>1, <2>2, <2>3, <2>4, <2>5, <2>6, <2>7, <2>8
<1>14. CASE Timer(c)
  <2>1. current_[c] \in Task
    BY <1>14 DEF Timer, Interruptible, At, Executing, Task
  <2> QED
    BY <1>14, <2>1 DEF TypeOK, Timer, EnterSchedule, procVars, queueVars
<1>15. ASSUME NEW q \in Queue, Interrupt(c, q)
       PROVE  TypeOK'
  BY <1>15 DEF TypeOK, Interrupt, procVars, cpuVars
<1> QED
  BY <1>1, <1>2, <1>3, <1>4, <1>5, <1>6, <1>7, <1>8, <1>9, <1>10, <1>11,
     <1>12, <1>13, <1>14, <1>15, <1>16 DEF CpuStep

-----------------------------------------------------------------------------
(***************************************************************************)
(* Where the tasks are.                                                    *)
(***************************************************************************)

\* A process is not a CPU, and its CPU is one.
LEMMA HomeFacts ==
  /\ \A p \in Proc : Home(p) = CpuOf[p] /\ CpuOf[p] \in Cpu /\ p \notin Cpu
  /\ \A c \in Cpu : Home(c) = c /\ c # None
  /\ None \notin Proc
  BY SchedAssumption DEF SchedAssumption, Home

\* The initial state satisfies PlaceInv.
LEMMA PlaceInit == Init => PlaceInv
<1> SUFFICES ASSUME Init PROVE PlaceInv
  OBVIOUS
<1>1. \A c \in Cpu : \A i \in DOMAIN BootQ[c] : BootQ[c][i] \in Proc
  BY SchedAssumption DEF SchedAssumption
<1>2. OnePlace
  BY <1>1, HomeFacts, SchedAssumption DEF Init, OnePlace, SchedAssumption
<1>3. RunnableNotLost
  BY HomeFacts, TaskFacts DEF Init, RunnableNotLost, Queued, Booted
<1>4. BlankNowhere
  BY HomeFacts, TaskFacts DEF Init, BlankNowhere, Queued, Booted
<1> QED
  BY <1>2, <1>3, <1>4 DEF PlaceInv

\* A step that leaves the run queues and current_ alone keeps PlaceInv if it
\* makes runnable only processes that are queued or current.
LEMMA PlaceFrame ==
  ASSUME PlaceInv,
         UNCHANGED <<runq_, current_>>,
         \A p \in Proc :
            \/ state_'[p] = state_[p]
            \/ state_'[p] \in {"blocked", "broken"}
            \/ state_'[p] = "runnable" /\ (Queued(p) \/ current_[CpuOf[p]] = p)
  PROVE  PlaceInv'
<1>1. \A p : Queued(p)' <=> Queued(p)
  BY DEF Queued
<1>2. OnePlace'
  BY DEF PlaceInv, OnePlace
<1>3. RunnableNotLost'
  BY <1>1 DEF PlaceInv, RunnableNotLost
<1>4. BlankNowhere'
  BY <1>1 DEF PlaceInv, BlankNowhere
<1> QED
  BY <1>2, <1>3, <1>4 DEF PlaceInv

\* The elements of a sequence to which one is appended.
LEMMA AppendElements ==
  ASSUME NEW S, NEW s \in Seq(S), NEW x \in S
  PROVE  /\ DOMAIN Append(s, x) = 1 .. Len(s) + 1
         /\ DOMAIN s = 1 .. Len(s)
         /\ \A i \in DOMAIN s : i \in DOMAIN Append(s, x) /\ Append(s, x)[i] = s[i]
         /\ Append(s, x)[Len(s) + 1] = x
         /\ \A i \in DOMAIN Append(s, x) : i = Len(s) + 1 \/ i \in DOMAIN s
  OBVIOUS

\* Appending a process that is nowhere, and making it runnable, keeps
\* PlaceInv.
LEMMA PlaceAppend ==
  ASSUME TypeOK, PlaceInv, NEW t \in Proc,
         ~Queued(t), current_[CpuOf[t]] # t,
         runq_' = [runq_ EXCEPT ![CpuOf[t]] = Append(@, t)],
         current_' = current_,
         state_' = [state_ EXCEPT ![t] = "runnable"]
  PROVE  PlaceInv'
<1> DEFINE h == CpuOf[t]
<1>1. h \in Cpu /\ t \in Task /\ Home(t) = h /\ runq_[h] \in Seq(Task)
  BY HomeFacts, TaskFacts DEF TypeOK
<1>2. runq_'[h] = Append(runq_[h], t) /\ \A c \in Cpu \ {h} : runq_'[c] = runq_[c]
  BY <1>1 DEF TypeOK
<1>3. /\ \A i \in DOMAIN runq_[h] : i \in DOMAIN runq_'[h] /\ runq_'[h][i] = runq_[h][i]
      /\ Len(runq_[h]) + 1 \in DOMAIN runq_'[h]
      /\ runq_'[h][Len(runq_[h]) + 1] = t
      /\ \A i \in DOMAIN runq_'[h] : i = Len(runq_[h]) + 1 \/ i \in DOMAIN runq_[h]
  BY <1>1, <1>2, AppendElements
<1>4. \A i \in DOMAIN runq_[h] : runq_[h][i] # t
  BY <1>1 DEF Queued
<1> HIDE DEF h
<1>5. Queued(t)' /\ \A p \in Task \ {t} : Queued(p)' <=> Queued(p)
  BY <1>1, <1>2, <1>3 DEF Queued
<1>6. OnePlace'
  <2> SUFFICES ASSUME NEW c \in Cpu
               PROVE  /\ current_[c] # None => Home(current_[c]) = c
                      /\ \A i \in DOMAIN runq_'[c] :
                           /\ Home(runq_'[c][i]) = c
                           /\ runq_'[c][i] # current_[c]
                           /\ \A j \in DOMAIN runq_'[c] :
                                runq_'[c][i] = runq_'[c][j] => i = j
    BY DEF OnePlace, Home
  <2>1. CASE c # h
    BY <2>1, <1>2 DEF PlaceInv, OnePlace
  <2>2. CASE c = h
    BY <2>2, <1>1, <1>3, <1>4 DEF PlaceInv, OnePlace, h
  <2> QED
    BY <2>1, <2>2
<1>7. RunnableNotLost'
  BY <1>5, TaskFacts DEF PlaceInv, RunnableNotLost, TypeOK
<1>8. BlankNowhere'
  BY <1>5, TaskFacts DEF PlaceInv, BlankNowhere, TypeOK
<1> QED
  BY <1>6, <1>7, <1>8 DEF PlaceInv

\* The elements of the tail of a sequence.
LEMMA TailElements ==
  ASSUME NEW S, NEW s \in Seq(S), s # <<>>
  PROVE  /\ 1 \in DOMAIN s /\ Head(s) = s[1]
         /\ DOMAIN s = 1 .. Len(s) /\ DOMAIN Tail(s) = 1 .. Len(s) - 1
         /\ \A i \in DOMAIN Tail(s) : i + 1 \in DOMAIN s /\ Tail(s)[i] = s[i + 1]
         /\ \A i \in DOMAIN s : i # 1 => i - 1 \in DOMAIN Tail(s) /\ Tail(s)[i - 1] = s[i]
  OBVIOUS

\* schedule()'s critical section keeps PlaceInv.
LEMMA PlaceSwitch ==
  ASSUME TypeOK, PlaceInv, NEW c \in Cpu, SwitchTask(c)
  PROVE  PlaceInv'
<1> DEFINE old == current_[c]
           back == old # None /\ state_[old] = "runnable" /\ ~Queued(old)
           rq == IF back THEN Append(runq_[c], old) ELSE runq_[c]
<1>1. /\ current_' = [current_ EXCEPT ![c] = NextTask(c, rq)]
      /\ runq_' = [runq_ EXCEPT ![c] = IF rq = <<>> THEN rq ELSE Tail(rq)]
      /\ state_' = state_
  BY DEF SwitchTask
<1>2. rq \in Seq(Task) /\ runq_[c] \in Seq(Task) /\ (back => old \in Task)
  BY DEF TypeOK
<1>3. \A i \in DOMAIN runq_[c] : i \in DOMAIN rq /\ rq[i] = runq_[c][i]
  BY <1>2, AppendElements
<1>4. back => \E i \in DOMAIN rq : rq[i] = old
  BY <1>2, AppendElements
<1>5. \A i \in DOMAIN rq : (back /\ rq[i] = old) \/ (i \in DOMAIN runq_[c] /\ rq[i] = runq_[c][i])
  BY <1>2, AppendElements
<1>6. \A i \in DOMAIN rq : Home(rq[i]) = c
  BY <1>5 DEF PlaceInv, OnePlace
<1>7. \A i, j \in DOMAIN rq : rq[i] = rq[j] => i = j
  <2>1. CASE ~back
    BY <2>1 DEF PlaceInv, OnePlace
  <2>2. CASE back
    <3>1. \A i \in DOMAIN runq_[c] : runq_[c][i] # old
      BY <2>2 DEF Queued
    <3> QED
      BY <2>2, <3>1, <1>2, AppendElements DEF PlaceInv, OnePlace
  <2> QED
    BY <2>1, <2>2
<1>8. \A i \in DOMAIN rq : rq[i] \in Task
  BY <1>2
<1>9. \A p \in Proc : state_[p] = "runnable" /\ CpuOf[p] = c
                       => \E i \in DOMAIN rq : rq[i] = p
  <2> SUFFICES ASSUME NEW p \in Proc, state_[p] = "runnable", CpuOf[p] = c
               PROVE  \E i \in DOMAIN rq : rq[i] = p
    OBVIOUS
  <2>1. Queued(p) => \E i \in DOMAIN runq_[c] : runq_[c][i] = p
    BY HomeFacts DEF Queued, PlaceInv, OnePlace
  <2>2. CASE Queued(p)
    BY <2>1, <2>2, <1>3
  <2>3. CASE ~Queued(p)
    BY <2>3, <1>4, HomeFacts DEF PlaceInv, RunnableNotLost
  <2> QED
    BY <2>2, <2>3
<1>10. \A p \in Proc : state_[p] = "blank" => \A i \in DOMAIN rq : rq[i] # p
  BY <1>5 DEF PlaceInv, BlankNowhere, Queued
<1> HIDE DEF rq, back
<1>11. \A d \in Cpu \ {c} : current_'[d] = current_[d] /\ runq_'[d] = runq_[d]
  BY <1>1 DEF TypeOK
<1>12. CASE rq = <<>>
  <2>1. current_'[c] = c /\ runq_'[c] = <<>> /\ DOMAIN runq_'[c] = {}
    BY <1>1, <1>12 DEF TypeOK, NextTask
  <2>2. OnePlace'
    BY <1>11, <2>1, HomeFacts DEF PlaceInv, OnePlace, Home
  <2>3. DOMAIN rq = {}
    BY <1>12
  <2>4. RunnableNotLost'
    BY <1>1, <1>9, <1>11, <2>3, HomeFacts DEF PlaceInv, RunnableNotLost, Queued, OnePlace
  <2>5. BlankNowhere'
    BY <1>1, <1>11, <2>1, HomeFacts DEF PlaceInv, BlankNowhere, Queued
  <2> QED
    BY <2>2, <2>4, <2>5 DEF PlaceInv
<1>13. CASE rq # <<>>
  <2>1. current_'[c] = rq[1] /\ runq_'[c] = Tail(rq) /\ 1 \in DOMAIN rq
    BY <1>1, <1>2, <1>13, TailElements DEF TypeOK, NextTask
  <2>2. \A i \in DOMAIN runq_'[c] : i + 1 \in DOMAIN rq /\ runq_'[c][i] = rq[i + 1]
                                   /\ i \in 1 .. Len(rq) - 1
    BY <1>2, <1>13, <2>1, TailElements
  <2>3. \A i \in DOMAIN rq : i = 1 \/ \E j \in DOMAIN runq_'[c] : runq_'[c][j] = rq[i]
    <3> SUFFICES ASSUME NEW i \in DOMAIN rq, i # 1
                 PROVE  \E j \in DOMAIN runq_'[c] : runq_'[c][j] = rq[i]
      OBVIOUS
    <3>1. i - 1 \in DOMAIN Tail(rq) /\ Tail(rq)[i - 1] = rq[i]
      BY <1>2, <1>13, TailElements
    <3> QED
      BY <2>1, <3>1
  <2>4. OnePlace'
    <3> SUFFICES ASSUME NEW d \in Cpu
                 PROVE  /\ current_'[d] # None => Home(current_'[d]) = d
                        /\ \A i \in DOMAIN runq_'[d] :
                             /\ Home(runq_'[d][i]) = d
                             /\ runq_'[d][i] # current_'[d]
                             /\ \A j \in DOMAIN runq_'[d] :
                                  runq_'[d][i] = runq_'[d][j] => i = j
      BY DEF OnePlace, Home
    <3>1. CASE d # c
      BY <3>1, <1>11 DEF PlaceInv, OnePlace
    <3>2. CASE d = c
      <4>1. \A i \in DOMAIN runq_'[c] : runq_'[c][i] # current_'[c]
        BY <1>7, <2>1, <2>2
      <4>2. \A i, j \in DOMAIN runq_'[c] : runq_'[c][i] = runq_'[c][j] => i = j
        BY <1>7, <2>2
      <4> QED
        BY <3>2, <4>1, <4>2, <1>6, <2>1, <2>2
    <3> QED
      BY <3>1, <3>2
  <2>5. RunnableNotLost'
    <3> SUFFICES ASSUME NEW p \in Proc, state_[p] = "runnable"
                 PROVE  Queued(p)' \/ current_'[CpuOf[p]] = p
      BY <1>1 DEF RunnableNotLost
    <3>1. CASE CpuOf[p] = c
      BY <3>1, <1>9, <2>1, <2>3 DEF Queued
    <3>2. CASE CpuOf[p] # c
      BY <3>2, <1>11, HomeFacts DEF PlaceInv, RunnableNotLost, Queued, OnePlace
    <3> QED
      BY <3>1, <3>2
  <2>6. BlankNowhere'
    <3> SUFFICES ASSUME NEW p \in Proc, state_[p] = "blank"
                 PROVE  ~Queued(p)' /\ current_'[CpuOf[p]] # p
      BY <1>1 DEF BlankNowhere
    <3>1. \A i \in DOMAIN runq_'[c] : runq_'[c][i] # p
      BY <1>10, <2>2
    <3>2. ~Queued(p)'
      BY <1>11, <3>1 DEF Queued, PlaceInv, BlankNowhere
    <3>3. current_'[CpuOf[p]] # p
      BY <1>10, <1>11, <2>1, HomeFacts DEF PlaceInv, BlankNowhere
    <3> QED
      BY <3>2, <3>3
  <2> QED
    BY <2>4, <2>5, <2>6 DEF PlaceInv
<1> QED
  BY <1>12, <1>13

\* Every step keeps PlaceInv.
LEMMA PlaceStep == TypeOK /\ PlaceInv /\ Linked /\ Next => PlaceInv'
<1> SUFFICES ASSUME TypeOK, PlaceInv, Linked, NEW c \in Cpu,
                    \/ CpuStep(c) \/ Syscall(c) \/ Timer(c)
                    \/ \E q \in Queue : Interrupt(c, q)
             PROVE  PlaceInv'
  BY DEF Next
<1>1. CASE Resume(c) \/ WakeAllDone(c)
  BY <1>1, PlaceFrame DEF Resume, WakeAllDone, cpuVars
<1>2. CASE SwitchTask(c)
  BY <1>2, PlaceSwitch
<1>3. ASSUME NEW t \in Proc,
             state_' = [state_ EXCEPT ![t] = "runnable"],
             Enqueue(CpuOf[t], t, current_[CpuOf[t]], "runnable"),
             current_' = current_
      PROVE  PlaceInv'
  <2>1. CASE current_[CpuOf[t]] = t \/ Queued(t)
    BY <1>3, <2>1, PlaceFrame, TaskFacts, ZenonT(60) DEF Enqueue, TypeOK
  <2>2. CASE ~(current_[CpuOf[t]] = t \/ Queued(t))
    BY <1>3, <2>2, PlaceAppend DEF Enqueue
  <2> QED
    BY <2>1, <2>2, ZenonT(60)
<1>4. CASE WakeOne(c)
  <2>1. PICK p \in q_[waking[c]] :
          IF state_[p] = "blocked"
            THEN /\ state_' = [state_ EXCEPT ![p] = "runnable"]
                 /\ Enqueue(CpuOf[p], p, current_[CpuOf[p]], "runnable")
            ELSE UNCHANGED <<state_, runq_, panicked>>
    BY <1>4 DEF WakeOne
  <2>2. p \in Proc
    BY <1>4, <2>1 DEF WakeOne, TypeOK
  <2>3. current_' = current_
    BY <1>4 DEF WakeOne, cpuVars
  <2> QED
    BY <1>3, <2>1, <2>2, <2>3, PlaceFrame
<1>5. CASE PokeSet(c)
  BY <1>3, <1>5, ZenonT(60) DEF PokeSet, TypeOK, cpuVars
<1>6. ASSUME NEW p \in Proc,
             \/ Prepare(c, p) \/ SetBroken(c, p) \/ ExitBroken(c, p)
             \/ Fault(c, p)
      PROVE  PlaceInv'
  BY <1>6, PlaceFrame, TaskFacts, ZenonT(60)
    DEF Prepare, SetBroken, ExitBroken, Fault, cpuVars, TypeOK
<1>7. ASSUME NEW p \in Proc, Clear(c, p)
      PROVE  PlaceInv'
  <2>1. current_[CpuOf[p]] = p
    BY <1>7, HomeFacts, ZenonT(60) DEF Clear, At, Executing, PlaceInv, OnePlace
  <2> QED
    BY <1>7, <2>1, PlaceFrame, TaskFacts DEF Clear, cpuVars, TypeOK
<1>8. ASSUME NEW p \in Proc,
             \/ Test(c, p) \/ Poll(c, p) \/ Yield(c, p) \/ WakeAll(c, p)
             \/ YieldNoReturn(c, p) \/ SysYield(c, p) \/ Texit(c, p)
             \/ Exit(c, p) \/ FaultReturn(c, p)
             \/ \E q \in Queue : BlockUntil(c, p, q) \/ Signal(c, p, q)
             \/ \E t \in Proc : MarkExiting(c, p, t) \/ DirectWake(c, p, t)
      PROVE  PlaceInv'
  <2>1. UNCHANGED <<state_, runq_, current_>>
    BY <1>8 DEF Test, Poll, Yield, WakeAll, YieldNoReturn, SysYield, Texit, Exit,
                FaultReturn, BlockUntil, Signal, MarkExiting, DirectWake,
                PokeTest, EnterSchedule, cpuVars
  <2> QED
    BY <2>1, PlaceFrame
<1>9. ASSUME NEW p \in Proc, NEW t \in Proc, Fork(c, p, t)
      PROVE  PlaceInv'
  <2>1. ~Queued(t) /\ current_[CpuOf[t]] # t
    BY <1>9, ZenonT(60) DEF Fork, PlaceInv, BlankNowhere
  <2> QED
    BY <1>9, <2>1, PlaceAppend DEF Fork, cpuVars
<1>10. CASE Timer(c) \/ \E q \in Queue : Interrupt(c, q)
  BY <1>10, PlaceFrame DEF Timer, Interrupt, EnterSchedule, cpuVars
<1> QED
  BY <1>1, <1>2, <1>4, <1>5, <1>6, <1>7, <1>8, <1>9, <1>10 DEF CpuStep, Syscall

-----------------------------------------------------------------------------
(***************************************************************************)
(* Wait queues.                                                            *)
(***************************************************************************)

\* The initial state satisfies Linked and Woken.
LEMMA LinkedInit == Init => Linked /\ Woken
  BY TaskFacts DEF Init, Linked, Woken, Waiting

\* Every step keeps a blocked process linked.
LEMMA LinkedStep == TypeOK /\ Linked /\ Next => Linked'
<1> SUFFICES ASSUME TypeOK, Linked, NEW c \in Cpu,
                    \/ CpuStep(c) \/ Syscall(c) \/ Timer(c)
                    \/ \E q \in Queue : Interrupt(c, q)
             PROVE  Linked'
  BY DEF Next
<1> USE TaskFacts DEF Waiting
<1>1. CASE Resume(c) \/ WakeAllDone(c) \/ SwitchTask(c)
  BY <1>1 DEF Linked, Resume, WakeAllDone, SwitchTask, procVars, queueVars
<1>2. CASE WakeOne(c)
  <2>1. PICK p \in q_[waking[c]] :
          /\ q_' = [q_ EXCEPT ![waking[c]] = @ \ {p}]
          /\ \/ state_[p] # "blocked" /\ state_' = state_
             \/ state_' = [state_ EXCEPT ![p] = "runnable"]
    BY <1>2 DEF WakeOne
  <2>2. p \in Proc /\ UNCHANGED <<pc, wq_>> /\ waking[c] \in Queue
    BY <1>2, <2>1 DEF WakeOne, procVars, TypeOK
  <2> QED
    BY <2>1, <2>2 DEF Linked, TypeOK
<1>3. CASE PokeSet(c)
  BY <1>3 DEF Linked, PokeSet, procVars, queueVars, TypeOK
<1>4. ASSUME NEW p \in Proc, Prepare(c, p)
      PROVE  Linked'
  BY <1>4 DEF Linked, Prepare, At, Goto, TypeOK
<1>5. ASSUME NEW p \in Proc, Test(c, p) \/ Poll(c, p)
      PROVE  Linked'
  <2>1. /\ UNCHANGED <<state_, wq_, q_>>
        /\ pc[p] \in {"test", "poll"}
        /\ \E where \in {"kill", "leave", "block"} : pc' = [pc EXCEPT ![p] = where]
    BY <1>5 DEF Test, Poll, Granted, Refused, At, Goto
  <2> QED
    BY <2>1 DEF Linked, TypeOK
<1>6. ASSUME NEW p \in Proc, Clear(c, p)
      PROVE  Linked'
  BY <1>6 DEF Linked, Clear, At, Goto, AfterClear, TypeOK
<1>7. ASSUME NEW p \in Proc, Yield(c, p)
      PROVE  Linked'
  <2>1. UNCHANGED <<state_, wq_, q_, event>>
    BY <1>7, Zenon DEF Yield, queueVars
  <2>2. \/ /\ pc[p] = "block" /\ pc' = [pc EXCEPT ![p] = "clear"]
        \/ /\ pc[p] = "yield" /\ pc' = [pc EXCEPT ![p] = "user"]
        \/ /\ pc[p] = "fault" /\ pc' = [pc EXCEPT ![p] = "faulted"]
    BY <1>7 DEF Yield, AfterYield, At, Goto
  <2> QED
    BY <2>1, <2>2 DEF Linked, TypeOK
<1>8. ASSUME NEW p \in Proc, SetBroken(c, p) \/ Exit(c, p)
      PROVE  Linked'
  <2>1. /\ pc[p] \in {"broken", "user"}
        /\ pc' = [pc EXCEPT ![p] = "notify"] \/ pc' = [pc EXCEPT ![p] = "exit"]
        /\ state_' = [state_ EXCEPT ![p] = "broken"] \/ state_' = state_
        /\ wq_' = [wq_ EXCEPT ![p] = WaitpidQ]
        /\ UNCHANGED q_
    BY <1>8 DEF SetBroken, Exit, At, Goto, queueVars
  <2>2. state_[p] # "blocked" /\ \A r \in Queue : p \notin q_[r]
    BY <2>1 DEF Linked
  <2> QED
    BY <2>1, <2>2, SchedAssumption DEF Linked, TypeOK, SchedAssumption
<1>9. ASSUME NEW p \in Proc,
             WakeAll(c, p) \/ YieldNoReturn(c, p) \/ SysYield(c, p) \/ Texit(c, p)
      PROVE  Linked'
  <2>1. /\ pc[p] \in {"signal", "notify", "exit", "leaving", "user"}
        /\ \E where \in {"user", "leaving", "ended", "dead", "yield", "broken"} :
             pc' = [pc EXCEPT ![p] = where]
        /\ wq_' = [wq_ EXCEPT ![p] = None] \/ wq_' = wq_
        /\ UNCHANGED <<state_, q_>>
    BY <1>9 DEF WakeAll, AfterWakeAll, YieldNoReturn, SysYield, Texit, At, Goto, queueVars
  <2>2. state_[p] # "blocked" /\ \A r \in Queue : p \notin q_[r]
    BY <2>1 DEF Linked
  <2> QED
    BY <2>1, <2>2 DEF Linked, TypeOK
<1>10. ASSUME NEW p \in Proc,
              Fault(c, p) \/ ExitBroken(c, p) \/ FaultReturn(c, p)
       PROVE  Linked'
  <2>1. /\ pc[p] \in {"user", "ended", "faulted"}
        /\ \E where \in {"fault", "leaving", "user"} : pc' = [pc EXCEPT ![p] = where]
        /\ state_' = [state_ EXCEPT ![p] = "broken"] \/ state_' = state_
        /\ UNCHANGED <<wq_, q_>>
    BY <1>10 DEF Fault, ExitBroken, FaultReturn, At, Goto, queueVars
  <2> QED
    BY <2>1 DEF Linked, TypeOK
<1>11. ASSUME NEW p \in Proc, NEW q \in Queue,
              BlockUntil(c, p, q) \/ Signal(c, p, q)
       PROVE  Linked'
  <2>1. /\ pc[p] = "user"
        /\ wq_' = [wq_ EXCEPT ![p] = q]
        /\ \E where \in {"prepare", "signal"} : pc' = [pc EXCEPT ![p] = where]
        /\ UNCHANGED <<state_, q_>>
    BY <1>11 DEF BlockUntil, Signal, At, Goto, queueVars
  <2>2. state_[p] # "blocked" /\ \A r \in Queue : p \notin q_[r]
    BY <2>1 DEF Linked
  <2> QED
    BY <2>1, <2>2 DEF Linked, TypeOK
<1>12. ASSUME NEW p \in Proc, NEW t \in Proc,
              MarkExiting(c, p, t) \/ DirectWake(c, p, t) \/ Fork(c, p, t)
       PROVE  Linked'
  <2>1. UNCHANGED <<pc, wq_, q_>>
    BY <1>12 DEF MarkExiting, DirectWake, PokeTest, Fork, procVars, queueVars
  <2>2. state_' = state_ \/ state_' = [state_ EXCEPT ![t] = "runnable"]
    BY <1>12, ZenonT(60) DEF MarkExiting, DirectWake, PokeTest, Fork
  <2> QED
    BY <2>1, <2>2 DEF Linked, TypeOK
<1>13. CASE Timer(c) \/ \E q \in Queue : Interrupt(c, q)
  BY <1>13 DEF Linked, Timer, Interrupt, procVars, queueVars
<1> QED
  BY <1>1, <1>2, <1>3, <1>4, <1>5, <1>6, <1>7, <1>8, <1>9, <1>10, <1>11,
     <1>12, <1>13 DEF CpuStep, Syscall

\* WakePending survives steps that take no pending wake_all back.
LEMMA PendingFrame ==
  ASSUME NEW q,
         WakePending(q),
         \A c \in Cpu : waking[c] = q => waking'[c] = q,
         \A p \in Proc : pc[p] \in {"signal", "notify"}
            => \/ pc'[p] = pc[p] /\ wq_'[p] = wq_[p]
               \/ \E c \in Cpu : waking'[c] = wq_[p]
  PROVE  WakePending(q)'
  BY DEF WakePending, WqLocked

\* A step that blocks nobody, sets no condition, moves no waiter and takes no
\* pending wake_all back keeps Woken.
LEMMA WokenFrame ==
  ASSUME Woken,
         \A p \in Proc :
            pc'[p] \in {"block", "clear"} /\ state_'[p] = "blocked" =>
              /\ pc[p] \in {"block", "clear"}
              /\ state_[p] = "blocked"
              /\ wq_'[p] = wq_[p]
              /\ event'[wq_[p]] => event[wq_[p]],
         \A c \in Cpu : waking[c] # None => waking'[c] = waking[c],
         \A p \in Proc : pc[p] \in {"signal", "notify"}
            => \/ pc'[p] = pc[p] /\ wq_'[p] = wq_[p]
               \/ \E c \in Cpu : waking'[c] = wq_[p],
         untold => untold',
         TypeOK, Linked
  PROVE  Woken'
<1> SUFFICES ASSUME NEW p \in Proc, pc'[p] \in {"block", "clear"},
                    state_'[p] = "blocked", event'[wq_'[p]]
             PROVE  WakePending(wq_[p])' \/ Untold(wq_[p])'
  BY DEF Woken
<1>1. /\ WakePending(wq_[p]) \/ Untold(wq_[p])
      /\ wq_'[p] = wq_[p] /\ wq_[p] \in Queue
  BY DEF Woken, Linked
<1>2. wq_[p] # None
  BY <1>1, SchedAssumption DEF SchedAssumption
<1>3. CASE Untold(wq_[p])
  BY <1>1, <1>3 DEF Untold
<1>4. CASE WakePending(wq_[p])
  BY <1>1, <1>2, <1>4, PendingFrame
<1> QED
  BY <1>1, <1>3, <1>4

\* A step of process p that leaves the other processes and the wake_alls
\* alone, sets no condition, and sends p to sleep only on a false one keeps
\* Woken.
LEMMA WokenOwn ==
  ASSUME TypeOK, Linked, Woken, NEW p \in Proc,
         waking' = waking, untold => untold',
         pc[p] \notin {"signal", "notify"},
         \A r \in Proc \ {p} :
            pc'[r] = pc[r] /\ state_'[r] = state_[r] /\ wq_'[r] = wq_[r],
         \A q \in Queue : event'[q] => event[q],
         pc'[p] \in {"block", "clear"} => ~event'[wq_'[p]]
  PROVE  Woken'
<1> SUFFICES ASSUME NEW r \in Proc, pc'[r] \in {"block", "clear"},
                    state_'[r] = "blocked", event'[wq_'[r]]
             PROVE  WakePending(wq_[r])' \/ Untold(wq_[r])'
  BY DEF Woken
<1>1. r # p
  OBVIOUS
<1>2. wq_'[r] = wq_[r] /\ wq_[r] \in Queue
  BY <1>1 DEF Linked
<1>3. WakePending(wq_[r]) \/ Untold(wq_[r])
  BY <1>1, <1>2 DEF Woken
<1>4. CASE Untold(wq_[r])
  BY <1>2, <1>4 DEF Untold
<1>5. CASE WakePending(wq_[r])
  BY <1>2, <1>5, PendingFrame
<1> QED
  BY <1>3, <1>4, <1>5

\* Every step keeps Woken.
LEMMA WokenStep == TypeOK /\ Linked /\ Woken /\ Next => Woken'
<1> SUFFICES ASSUME TypeOK, Linked, Woken, NEW c \in Cpu,
                    \/ CpuStep(c) \/ Syscall(c) \/ Timer(c)
                    \/ \E q \in Queue : Interrupt(c, q)
             PROVE  Woken'
  BY ZenonT(60) DEF Next
<1>1. CASE Resume(c) \/ SwitchTask(c) \/ PokeSet(c)
  <2>1. UNCHANGED <<pc, wq_, event, waking, untold>>
    BY <1>1, ZenonT(60) DEF Resume, SwitchTask, PokeSet, procVars, queueVars
  <2>2. \A p \in Proc : state_'[p] = "blocked" => state_[p] = "blocked"
    BY <1>1, TaskFacts, ZenonT(60) DEF Resume, SwitchTask, PokeSet, TypeOK
  <2> QED
    BY <2>1, <2>2, WokenFrame
<1>2. CASE WakeOne(c)
  <2>1. UNCHANGED <<pc, wq_, event, waking, untold>>
    BY <1>2, ZenonT(60) DEF WakeOne, procVars
  <2>2. \A p \in Proc : state_'[p] = "blocked" => state_[p] = "blocked"
    BY <1>2, TaskFacts, ZenonT(60) DEF WakeOne, TypeOK
  <2> QED
    BY <2>1, <2>2, WokenFrame
<1>3. CASE WakeAllDone(c)
  <2>1. UNCHANGED <<pc, wq_, state_, event, untold>> /\ \A d \in Cpu \ {c} : waking'[d] = waking[d]
    BY <1>3, ZenonT(60) DEF WakeAllDone, procVars, queueVars, TypeOK
  <2> SUFFICES ASSUME NEW p \in Proc, pc[p] \in {"block", "clear"},
                      state_[p] = "blocked", event[wq_[p]]
               PROVE  WakePending(wq_[p])' \/ Untold(wq_[p])'
    BY <2>1 DEF Woken
  <2>2. wq_[p] # waking[c] /\ (WakePending(wq_[p]) \/ Untold(wq_[p]))
    BY <1>3 DEF WakeAllDone, Linked, Woken
  <2>3. CASE Untold(wq_[p])
    BY <2>1, <2>3 DEF Untold
  <2>4. CASE WakePending(wq_[p])
    BY <2>1, <2>2, <2>4, PendingFrame
  <2> QED
    BY <2>2, <2>3, <2>4
<1>4. ASSUME NEW p \in Proc, Test(c, p) \/ Poll(c, p)
      PROVE  Woken'
  <2>1. /\ UNCHANGED <<state_, wq_, waking, untold>>
        /\ pc[p] \in {"test", "poll"}
        /\ \A r \in Proc \ {p} : pc'[r] = pc[r]
    BY <1>4 DEF Test, Poll, Granted, Refused, At, Goto, TypeOK
  <2>2. wq_[p] \in Queue
    BY <2>1 DEF Linked, Waiting
  <2>3. \A q \in Queue : event'[q] => event[q]
    BY <1>4, <2>2 DEF Test, Poll, Granted, Refused, TypeOK
  <2>4. pc'[p] \in {"block", "clear"} => ~event'[wq_[p]]
    BY <1>4 DEF Test, Poll, Granted, Refused, Goto, TypeOK
  <2> QED
    BY <2>1, <2>3, <2>4, WokenOwn
<1>5. ASSUME NEW p \in Proc, Prepare(c, p) \/ Clear(c, p)
      PROVE  Woken'
  <2>1. /\ UNCHANGED <<event, waking, untold>>
        /\ \A r \in Proc \ {p} :
             pc'[r] = pc[r] /\ state_'[r] = state_[r] /\ wq_'[r] = wq_[r]
    BY <1>5, TaskFacts DEF Prepare, Clear, Goto, TypeOK
  <2>2. pc[p] \notin {"signal", "notify"} /\ pc'[p] \notin {"block", "clear"}
    BY <1>5 DEF Prepare, Clear, AfterClear, At, Goto, TypeOK
  <2> QED
    BY <2>1, <2>2, WokenOwn
<1>6. ASSUME NEW p \in Proc, Yield(c, p)
      PROVE  Woken'
  <2>1. UNCHANGED <<state_, wq_, event, waking, untold>>
    BY <1>6 DEF Yield, EnterSchedule, queueVars
  <2>2. /\ \A r \in Proc \ {p} : pc'[r] = pc[r]
        /\ pc[p] \notin {"signal", "notify"}
        /\ pc'[p] \in {"block", "clear"} => pc[p] = "block"
    BY <1>6 DEF Yield, AfterYield, At, Goto, TypeOK
  <2> QED
    BY <2>1, <2>2, WokenFrame
<1>7. ASSUME NEW p \in Proc,
             \/ YieldNoReturn(c, p) \/ SysYield(c, p) \/ Texit(c, p)
             \/ Exit(c, p) \/ FaultReturn(c, p)
             \/ \E q \in Queue : BlockUntil(c, p, q)
      PROVE  Woken'
  <2>1. /\ UNCHANGED <<state_, event, waking, untold>>
        /\ \A r \in Proc \ {p} : pc'[r] = pc[r] /\ wq_'[r] = wq_[r]
    BY <1>7 DEF YieldNoReturn, SysYield, Texit, Exit, FaultReturn, BlockUntil,
                EnterSchedule, Goto, queueVars, TypeOK
  <2>2. pc[p] \notin {"signal", "notify"} /\ pc'[p] \notin {"block", "clear"}
    BY <1>7 DEF YieldNoReturn, SysYield, Texit, Exit, FaultReturn, BlockUntil, At,
                Goto, TypeOK
  <2> QED
    BY <2>1, <2>2, WokenOwn
<1>8. ASSUME NEW p \in Proc, WakeAll(c, p)
      PROVE  Woken'
  <2>1. /\ UNCHANGED <<state_, event>>
        /\ waking' = [waking EXCEPT ![c] = wq_[p]]
        /\ waking[c] = None
        /\ untold' = (untold /\ wq_[p] # WaitpidQ)
    BY <1>8 DEF WakeAll, At, Executing
  <2>2. /\ \A r \in Proc \ {p} : pc'[r] = pc[r] /\ wq_'[r] = wq_[r]
        /\ pc'[p] \notin {"block", "clear"}
    BY <1>8 DEF WakeAll, AfterWakeAll, Goto, TypeOK
  <2>3. waking'[c] = wq_[p] /\ \A d \in Cpu \ {c} : waking'[d] = waking[d]
    BY <2>1 DEF TypeOK
  <2> SUFFICES ASSUME NEW r \in Proc, pc'[r] \in {"block", "clear"},
                      state_'[r] = "blocked", event'[wq_'[r]]
               PROVE  WakePending(wq_[r])' \/ Untold(wq_[r])'
    BY DEF Woken
  <2>4. r # p /\ wq_'[r] = wq_[r] /\ wq_[r] # None
    BY <2>1, <2>2, SchedAssumption DEF Linked, SchedAssumption
  <2>5. WakePending(wq_[r]) \/ Untold(wq_[r])
    BY <2>1, <2>2, <2>4 DEF Woken
  <2>6. CASE WakePending(wq_[r])
    BY <2>1, <2>2, <2>3, <2>4, <2>6, PendingFrame
  <2>7. CASE Untold(wq_[r])
    <3>1. CASE wq_[p] = WaitpidQ
      BY <2>3, <2>4, <2>7, <3>1 DEF Untold, WakePending, WqLocked
    <3>2. CASE wq_[p] # WaitpidQ
      BY <2>1, <2>4, <2>7, <3>2 DEF Untold
    <3> QED
      BY <3>1, <3>2
  <2> QED
    BY <2>5, <2>6, <2>7
<1>9. ASSUME NEW p \in Proc, Fault(c, p) \/ ExitBroken(c, p)
      PROVE  Woken'
  <2>1. /\ event' = [event EXCEPT ![WaitpidQ] = TRUE]
        /\ untold' = TRUE
        /\ UNCHANGED <<wq_, waking>>
        /\ pc[p] \notin {"signal", "notify"}
        /\ pc'[p] \notin {"block", "clear"}
        /\ \A r \in Proc \ {p} : pc'[r] = pc[r] /\ state_'[r] = state_[r]
    BY <1>9, TaskFacts DEF Fault, ExitBroken, At, Goto, TypeOK
  <2> SUFFICES ASSUME NEW r \in Proc, pc'[r] \in {"block", "clear"},
                      state_'[r] = "blocked", event'[wq_[r]], wq_[r] # WaitpidQ
               PROVE  WakePending(wq_[r])'
    BY <2>1 DEF Woken, Untold
  <2>2. r # p /\ wq_[r] \in Queue
    BY <2>1 DEF Linked
  <2>3. WakePending(wq_[r])
    BY <2>1, <2>2 DEF Woken, Untold, TypeOK
  <2> QED
    BY <2>1, <2>2, <2>3, PendingFrame
<1>10. ASSUME NEW p \in Proc, NEW q \in Queue,
              \/ Signal(c, p, q)
              \/ SetBroken(c, p) /\ q = WaitpidQ
       PROVE  Woken'
  <2>1. /\ event' = [event EXCEPT ![q] = TRUE]
        /\ wq_' = [wq_ EXCEPT ![p] = q]
        /\ UNCHANGED <<waking, untold>>
        /\ pc[p] \notin {"signal", "notify"}
    BY <1>10 DEF Signal, SetBroken, At
  <2>2. pc'[p] \in {"signal", "notify"} /\ \A r \in Proc \ {p} : pc'[r] = pc[r]
    BY <1>10 DEF Signal, SetBroken, Goto, TypeOK
  <2>3. \A r \in Proc \ {p} : state_'[r] = state_[r] /\ wq_'[r] = wq_[r]
    BY <1>10, TaskFacts, ZenonT(60) DEF Signal, SetBroken, TypeOK
  <2> SUFFICES ASSUME NEW r \in Proc, pc'[r] \in {"block", "clear"},
                      state_'[r] = "blocked", event'[wq_'[r]]
               PROVE  WakePending(wq_[r])' \/ Untold(wq_[r])'
    BY ZenonT(60) DEF Woken
  <2>4. r # p /\ wq_'[r] = wq_[r] /\ wq_[r] \in Queue
    BY <2>2, <2>3, ZenonT(60) DEF Linked
  <2>5. CASE wq_[r] = q
    BY <2>1, <2>2, <2>4, <2>5 DEF WakePending, TypeOK
  <2>6. CASE wq_[r] # q
    <3>1. WakePending(wq_[r]) \/ Untold(wq_[r])
      BY <2>1, <2>2, <2>3, <2>4, <2>6, ZenonT(60) DEF Woken, TypeOK
    <3>2. CASE WakePending(wq_[r])
      BY <2>1, <2>2, <2>3, <2>4, <3>2, PendingFrame
    <3> QED
      BY <2>1, <2>4, <3>1, <3>2 DEF Untold
  <2> QED
    BY <2>5, <2>6
<1>11. ASSUME NEW p \in Proc, NEW t \in Proc,
              MarkExiting(c, p, t) \/ DirectWake(c, p, t) \/ Fork(c, p, t)
       PROVE  Woken'
  <2>1. UNCHANGED <<pc, wq_, event, waking, untold>>
    BY <1>11, ZenonT(60) DEF MarkExiting, DirectWake, PokeTest, Fork, procVars, queueVars
  <2>2. \A r \in Proc : state_'[r] = "blocked" => state_[r] = "blocked"
    BY <1>11, TaskFacts, ZenonT(60) DEF MarkExiting, DirectWake, PokeTest, Fork, TypeOK
  <2> QED
    BY <2>1, <2>2, WokenFrame
<1>12. CASE Timer(c)
  BY <1>12, WokenFrame DEF Timer, EnterSchedule, procVars, queueVars
<1>13. ASSUME NEW q \in Queue, Interrupt(c, q)
       PROVE  Woken'
  <2>1. /\ event' = [event EXCEPT ![q] = TRUE]
        /\ waking' = [waking EXCEPT ![c] = q]
        /\ UNCHANGED <<state_, pc, wq_, untold>>
        /\ waking[c] = None
    BY <1>13 DEF Interrupt, Interruptible, At, Executing, procVars
  <2>2. waking'[c] = q /\ \A d \in Cpu \ {c} : waking'[d] = waking[d]
    BY <2>1 DEF TypeOK
  <2> SUFFICES ASSUME NEW r \in Proc, pc[r] \in {"block", "clear"},
                      state_[r] = "blocked", event'[wq_[r]]
               PROVE  WakePending(wq_[r])' \/ Untold(wq_[r])'
    BY <2>1, ZenonT(60) DEF Woken
  <2>3. wq_[r] \in Queue /\ wq_[r] # None
    BY SchedAssumption DEF Linked, SchedAssumption
  <2>4. CASE wq_[r] = q
    BY <2>2, <2>4, <2>1, ZenonT(60) DEF WakePending, WqLocked
  <2>5. CASE wq_[r] # q
    <3>1. WakePending(wq_[r]) \/ Untold(wq_[r])
      BY <2>1, <2>3, <2>5 DEF Woken, TypeOK
    <3>2. CASE WakePending(wq_[r])
      BY <2>1, <2>2, <2>3, <3>2, PendingFrame
    <3> QED
      BY <2>1, <3>1, <3>2 DEF Untold
  <2> QED
    BY <2>4, <2>5, ZenonT(60)
<1>14. WaitpidQ \in Queue
  BY SchedAssumption DEF SchedAssumption
<1> QED
  BY <1>1, <1>2, <1>3, <1>4, <1>5, <1>6, <1>7, <1>8, <1>9, <1>10, <1>11, <1>12,
     <1>13, <1>14 DEF CpuStep, Syscall

-----------------------------------------------------------------------------
(***************************************************************************)
(* The theorems.                                                           *)
(***************************************************************************)

\* IInv is an inductive invariant of the scheduler, whatever the processes do
\* (direct calls of wake() included).
THEOREM Inductive == Spec => []IInv
<1>1. Init => IInv
  BY TypeInit, PlaceInit, LinkedInit DEF IInv
<1>2. IInv /\ [Next]_vars => IInv'
  <2> SUFFICES ASSUME IInv, [Next]_vars PROVE IInv'
    OBVIOUS
  <2>1. CASE Next
    BY <2>1, TypeStep, PlaceStep, LinkedStep, WokenStep DEF IInv
  <2>2. CASE UNCHANGED vars
    <3>1. TypeOK'
      BY <2>2 DEF vars, IInv, TypeOK
    <3>2. PlaceInv'
      <4>1. UNCHANGED <<state_, pc, context, mode, current_, runq_>>
        BY <2>2 DEF vars
      <4>2. OnePlace' /\ RunnableNotLost'
        BY <4>1 DEF IInv, PlaceInv, OnePlace, RunnableNotLost, Queued, Home
      <4>3. BlankNowhere'
        BY <4>1 DEF IInv, PlaceInv, BlankNowhere, Queued, Home
      <4> QED
        BY <4>2, <4>3, Zenon DEF PlaceInv
    <3>3. Linked'
      BY <2>2 DEF vars, IInv, Linked
    <3>4. Woken'
      BY <2>2 DEF vars, IInv, Woken, WakePending, WqLocked, Untold
    <3> QED
      BY <3>1, <3>2, <3>3, <3>4 DEF IInv
  <2> QED
    BY <2>1, <2>2
<1> QED
  BY <1>1, <1>2, PTL DEF Spec

\* The scheduler's variables keep their types.
THEOREM TypeCorrect == Spec => []TypeOK
<1>1. IInv => TypeOK
  BY DEF IInv
<1> QED
  BY <1>1, Inductive, PTL

\* No task is ever in two places: two CPUs never run on one kernel stack, and
\* a run queue never holds a task twice or a task that is current_.
THEOREM TaskInOnePlace == Spec => []OnePlace
<1>1. IInv => OnePlace
  BY DEF IInv, PlaceInv
<1> QED
  BY <1>1, Inductive, PTL

\* enqueue's early return never drops a runnable process.
THEOREM NoRunnableLost == Spec => []RunnableNotLost
<1>1. IInv => RunnableNotLost
  BY DEF IInv, PlaceInv
<1> QED
  BY <1>1, Inductive, PTL

\* prepare, block and wake_all lose no wakeup, whatever the interleaving: a
\* process sleeps through its condition only while a wake_all is under way, or
\* after a page fault or process_exit has made a thread broken without one.
THEOREM WakeupNotLost == Spec => []NoLostWakeup
<1>1. IInv => NoLostWakeup
  BY DEF IInv, Linked, Woken, NoLostWakeup, Asleep
<1> QED
  BY <1>1, Inductive, PTL

-----------------------------------------------------------------------------
(***************************************************************************)
(* Assertions, and the finality of an end, for any direct wakes.           *)
(***************************************************************************)

\* The initial state satisfies PInv.
LEMMA PInit == Init => PInv
<1> SUFFICES ASSUME Init PROVE PInv
  OBVIOUS
<1>1. Saved
  BY HomeFacts, TaskFacts DEF Init, Saved, MayRun, Faulty, Resumable, Booted
<1>2. Places
  BY TaskFacts, HomeFacts DEF Init, Places, Booted
<1> QED
  BY <1>1, <1>2 DEF Init, PInv, PanicOnlyIfRevived

\* The running task of a CPU is the one whose home that CPU is.
LEMMA RunningHere ==
  ASSUME OnePlace, NEW c \in Cpu, current_[c] # None
  PROVE  /\ Home(current_[c]) = c
         /\ Running(current_[c]) <=> mode[c] = "run"
         /\ \A t : Home(t) = c => (Running(t) <=> mode[c] = "run" /\ current_[c] = t)
  BY DEF OnePlace, Running

\* A process that executes is running, exists, and is not blocked unless it
\* waits nor broken unless it is at its end or has faulted.
LEMMA ExecutingProc ==
  ASSUME IInv, Places, NEW c \in Cpu, NEW p \in Proc, Executing(c, p)
  PROVE  /\ Running(p)
         /\ mode[c] = "run" /\ current_[c] = p /\ ~panicked
         /\ state_[p] # "blank"
         /\ pc[p] \notin Waiting \cup Gone \cup Faulty => state_[p] = "runnable"
<1>1. Running(p) /\ CpuOf[p] = c
  BY RunningHere, HomeFacts DEF Executing, IInv, PlaceInv
<1>2. state_[p] # "blank"
  BY <1>1 DEF Executing, IInv, PlaceInv, BlankNowhere
<1>3. state_[p] \in {"blank", "runnable", "blocked", "broken"}
  BY TaskFacts DEF IInv, TypeOK
<1>4. pc[p] \notin Waiting \cup Gone \cup Faulty => state_[p] = "runnable"
  BY <1>2, <1>3 DEF IInv, Linked, Places
<1> QED
  BY <1>1, <1>2, <1>4 DEF Executing

\* A step that stops and starts no task keeps Saved if it gives life to no
\* task without a saved context.
LEMMA SavedFrame ==
  ASSUME Saved, UNCHANGED <<context, mode, current_>>,
         \A t \in Task :
            \/ Running(t)
            \/ /\ MayRun(t)' => MayRun(t) \/ Left(t)'
               /\ Left(t) => Left(t)'
  PROVE  Saved'
<1>1. \A t \in Task : Running(t)' <=> Running(t)
  BY DEF Running, Home
<1> QED
  BY <1>1 DEF Saved, Resumable

\* A task that enters schedule has a saved context, or has left for good.
LEMMA SavedEnter ==
  ASSUME Saved, TypeOK, OnePlace, NEW c \in Cpu, NEW t \in Task, NEW x,
         mode[c] = "run", current_[c] = t, t # None,
         EnterSchedule(c, t, x),
         x # "none" \/ Left(t)',
         \A r \in Task \ {t} : (MayRun(r)' => MayRun(r)) /\ (Left(r) => Left(r)')
  PROVE  Saved'
<1> SUFFICES ASSUME NEW r \in Task, MayRun(r)', ~Running(r)'
             PROVE  Resumable(r)' \/ Left(r)'
  BY DEF Saved
<1>1. Home(t) = c
  BY RunningHere
<1>2. Home(r) \in Cpu
  BY HomeFacts DEF Task
<1>3. CASE r = t
  BY <1>3 DEF EnterSchedule, Resumable, TypeOK
<1>4. CASE r # t
  <2>1. ~Running(r)
    BY <1>2, <1>4 DEF Running, Home, EnterSchedule, TypeOK
  <2>2. context'[r] = context[r]
    BY <1>4 DEF EnterSchedule, TypeOK
  <2> QED
    BY <1>4, <2>1, <2>2, ZenonT(60) DEF Saved, Resumable
<1> QED
  BY <1>3, <1>4

\* A step that changes the state and the place of the running process p only
\* keeps PInv, if the step's assertion holds and p does not claim to be
\* broken anywhere but at its end or in the page fault handler.
LEMMA PRunning ==
  ASSUME TypeOK, PInv, NEW p \in Proc, Running(p),
         UNCHANGED <<context, mode, current_, poking>>,
         ~panicked',
         \A t \in Task \ {p} : state_'[t] = state_[t],
         \A t \in Proc \ {p} : pc'[t] = pc[t],
         state_'[p] = "broken" => pc'[p] \in Gone \cup Faulty,
         state_'[p] # "blank",
         pc'[p] # "faulted"
  PROVE  PInv'
<1>1. Saved'
  BY SavedFrame, TaskFacts DEF PInv, MayRun, Left
<1>2. \A t \in Proc : Running(t)' <=> Running(t)
  BY DEF Running, Home
<1>3. Places'
  BY <1>2, TaskFacts DEF PInv, Places
<1> QED
  BY <1>1, <1>3 DEF PInv, PanicOnlyIfRevived

\* A step that changes neither states nor places keeps Places.
LEMMA PlacesFrame ==
  ASSUME Places, UNCHANGED <<state_, pc, poking>>,
         \A p \in Proc : pc[p] = "faulted" /\ Running(p)' => state_[p] = "runnable"
  PROVE  Places'
  BY DEF Places

\* resume finds a saved context unless a thread has been revived.
LEMMA PResume ==
  ASSUME IInv, PInv, NEW c \in Cpu, Resume(c)
  PROVE  PInv'
<1> USE DEF IInv, PlaceInv, PInv
<1>1. /\ current_[c] \in Task /\ Home(current_[c]) = c /\ ~Running(current_[c])
      /\ state_[current_[c]] = "runnable"
  <2>1. /\ current_[c] # None /\ mode[c] = "sched"
        /\ current_[c] \in Task \cup {None}
        /\ state_[current_[c]] = "runnable"
    BY ZenonT(60) DEF Resume, RunsCurrent, Scheduling, TypeOK
  <2> QED
    BY <2>1, RunningHere
<1>2. UNCHANGED <<state_, pc, poking, current_>>
  BY DEF Resume, procVars
<1>3. PanicOnlyIfRevived'
  <2>1. Resumable(current_[c]) \/ Left(current_[c])
    BY <1>1 DEF Saved, MayRun
  <2>2. panicked' => Left(current_[c])
    BY <2>1 DEF Resume
  <2> QED
    BY <1>1, <1>2, <2>2 DEF PanicOnlyIfRevived, Revived, Left, Gone
<1>4. Saved'
  <2> SUFFICES ASSUME NEW r \in Task, MayRun(r), ~Running(r)'
               PROVE  Resumable(r)' \/ Left(r)
    BY <1>2 DEF Saved, MayRun, Left
  <2>1. Home(r) \in Cpu
    BY HomeFacts, ZenonT(60) DEF Task
  <2>2. r # current_[c]
    BY <1>1, ZenonT(60) DEF Resume, Running, Home, TypeOK
  <2>3. ~Running(r)
    BY <2>1, <2>2 DEF Resume, Running, Home, TypeOK
  <2> QED
    BY <1>1, <2>2, <2>3, ZenonT(60) DEF Resume, Saved, Resumable, TypeOK
<1>5. Places'
  <2> SUFFICES ASSUME NEW p \in Proc, pc[p] = "faulted", Running(p)'
               PROVE  state_[p] = "runnable"
    BY <1>2, PlacesFrame
  <2>1. CASE p = current_[c]
    BY <1>1, <2>1
  <2>2. CASE p # current_[c]
    <3>1. Running(p)
      BY <1>2, <2>2, HomeFacts DEF Resume, Running, Home, TypeOK
    <3> QED
      BY <3>1 DEF Places
  <2> QED
    BY <2>1, <2>2
<1> QED
  BY <1>3, <1>4, <1>5

\* schedule's enqueue finds a saved context unless a thread has been revived.
LEMMA PSwitch ==
  ASSUME IInv, PInv, NEW c \in Cpu, SwitchTask(c)
  PROVE  PInv'
<1> USE DEF IInv, PlaceInv, PInv
<1>1. UNCHANGED <<state_, pc, poking, context, mode>> /\ mode[c] = "sched"
  BY DEF SwitchTask, Scheduling, procVars
<1>2. current_[c] # None => Home(current_[c]) = c /\ ~Running(current_[c])
  BY <1>1, RunningHere
<1>3. PanicOnlyIfRevived'
  <2>1. panicked' => /\ current_[c] # None
                     /\ state_[current_[c]] = "runnable"
                     /\ ~Resumable(current_[c])
    BY DEF SwitchTask
  <2>2. current_[c] \in Task \cup {None}
    BY DEF TypeOK
  <2>3. panicked' => Left(current_[c])
    BY <1>2, <2>1, <2>2 DEF Saved, MayRun
  <2> QED
    BY <1>1, <2>1, <2>3 DEF PanicOnlyIfRevived, Revived, Left, Gone
<1>4. \A r \in Task : Running(r)' => Running(r)
  <2> SUFFICES ASSUME NEW r \in Task, Running(r)' PROVE Running(r)
    OBVIOUS
  <2>1. Home(r) \in Cpu
    BY HomeFacts, ZenonT(60) DEF Task
  <2> QED
    BY <1>1, <2>1 DEF SwitchTask, Running, Home, TypeOK
<1>5. \A r \in Task : Running(r) => Running(r)'
  <2> SUFFICES ASSUME NEW r \in Task, Running(r) PROVE Running(r)'
    OBVIOUS
  <2>1. Home(r) \in Cpu /\ Home(r) # c
    BY <1>1, HomeFacts DEF Task, Running
  <2> QED
    BY <1>1, <2>1 DEF SwitchTask, Running, Home, TypeOK
<1>6. Saved'
  BY <1>1, <1>5 DEF Saved, MayRun, Left, Resumable
<1>7. Places'
  BY <1>1, <1>4, TaskFacts, PlacesFrame DEF Places
<1> QED
  BY <1>3, <1>6, <1>7

\* wake, from a wait queue or not, finds a saved context unless it revives a
\* thread.
LEMMA PWake ==
  ASSUME IInv, PInv, NEW t \in Proc,
         state_[t] # "blank",
         state_' = [state_ EXCEPT ![t] = "runnable"],
         Enqueue(CpuOf[t], t, current_[CpuOf[t]], "runnable"),
         UNCHANGED <<context, pc, mode, current_>>, ~panicked,
         \A c \in Cpu : poking'[c] \in {poking[c], None}
  PROVE  PInv'
<1> USE DEF IInv, PlaceInv, PInv
<1>1. t \in Task /\ state_'[t] = "runnable"
      /\ \A r \in Task \ {t} : state_'[r] = state_[r]
  BY TaskFacts DEF TypeOK
<1>2. state_[t] \in {"runnable", "blocked", "broken"}
  BY <1>1 DEF TypeOK
<1>3. MayRun(t) \/ Left(t)
  BY <1>2 DEF Places, MayRun, Left
<1>4. Saved'
  BY <1>1, <1>3, SavedFrame DEF MayRun, Left
<1>5. \A p \in Proc : Running(p)' <=> Running(p)
  BY DEF Running, Home
<1>6. Places'
  <2> SUFFICES ASSUME NEW p \in Proc
               PROVE  /\ state_'[p] = "broken" => pc'[p] \in Gone \cup Faulty
                      /\ state_'[p] = "blank" => pc'[p] = "user"
                      /\ pc'[p] = "faulted" /\ Running(p)' => state_'[p] = "runnable"
                      /\ state_'[p] = "blank" => \A c \in Cpu : poking'[c] # p
    BY DEF Places
  <2>1. p \in Task /\ p # None
    BY TaskFacts, HomeFacts
  <2>2. CASE p = t
    BY <1>1, <2>2
  <2>3. CASE p # t
    <3>1. state_'[p] = state_[p] /\ pc'[p] = pc[p]
      BY <1>1, <2>1, <2>3
    <3> QED
      BY <1>5, <2>1, <3>1 DEF Places
  <2> QED
    BY <2>2, <2>3
<1>7. PanicOnlyIfRevived'
  <2> SUFFICES ASSUME panicked' PROVE Left(t)
    BY <1>1 DEF PanicOnlyIfRevived, Revived, Left, Gone
  <2>1. ~Running(t) /\ ~Resumable(t)
    BY HomeFacts DEF Enqueue, Running
  <2> QED
    BY <1>1, <1>3, <2>1 DEF Saved
<1> QED
  BY <1>4, <1>6, <1>7

\* Every step keeps PInv.
LEMMA PStep ==
  ASSUME IInv, PInv, Next
  PROVE  PInv'
<1>0. PICK c \in Cpu : \/ CpuStep(c) \/ Syscall(c) \/ Timer(c)
                      \/ \E q \in Queue : Interrupt(c, q)
  BY ZenonT(60) DEF Next
<1>1. CASE Resume(c)
  BY <1>1, PResume
<1>2. CASE SwitchTask(c)
  BY <1>2, PSwitch
<1>a. TypeOK /\ OnePlace /\ Linked /\ Saved /\ Places
  BY DEF IInv, PlaceInv, PInv
<1>b. ASSUME UNCHANGED <<state_, context, pc, mode, current_, poking>>, ~panicked'
      PROVE  PInv'
  <2>1. \A t \in Task : Running(t)' <=> Running(t)
    BY <1>b DEF Running, Home
  <2>2. Saved'
    BY <1>a, <1>b, <2>1 DEF Saved, MayRun, Left, Resumable
  <2>3. Places'
    BY <1>a, <1>b, <2>1, TaskFacts DEF Places
  <2> QED
    BY <1>b, <2>2, <2>3 DEF PInv, PanicOnlyIfRevived
<1>3. CASE WakeOne(c)
  <2>1. PICK p \in q_[waking[c]] :
          IF state_[p] = "blocked"
            THEN /\ state_' = [state_ EXCEPT ![p] = "runnable"]
                 /\ Enqueue(CpuOf[p], p, current_[CpuOf[p]], "runnable")
            ELSE UNCHANGED <<state_, runq_, panicked>>
    BY <1>3, ZenonT(60) DEF WakeOne
  <2>2. p \in Proc /\ UNCHANGED <<context, pc, mode, current_, poking>> /\ ~panicked
    BY <1>a, <1>3, <2>1, ZenonT(60) DEF WakeOne, TypeOK, procVars, cpuVars
  <2>3. CASE state_[p] = "blocked"
    BY <2>1, <2>2, <2>3, PWake
  <2>4. CASE state_[p] # "blocked"
    BY <1>b, <2>1, <2>2, <2>4
  <2> QED
    BY <2>3, <2>4
<1>4. CASE WakeAllDone(c)
  BY <1>4, <1>b DEF WakeAllDone, procVars, cpuVars
<1>5. CASE PokeSet(c)
  <2>1. /\ poking[c] \in Proc /\ state_[poking[c]] # "blank" /\ ~panicked
        /\ state_' = [state_ EXCEPT ![poking[c]] = "runnable"]
        /\ Enqueue(CpuOf[poking[c]], poking[c], current_[CpuOf[poking[c]]], "runnable")
        /\ UNCHANGED <<context, pc, mode, current_>>
    BY <1>a, <1>5 DEF PokeSet, Places, TypeOK, procVars, cpuVars
  <2>2. \A d \in Cpu : poking'[d] \in {poking[d], None}
    BY <1>a, <1>5 DEF PokeSet, TypeOK
  <2> QED
    BY <2>1, <2>2, PWake
<1>6. ASSUME NEW p \in Proc,
             \/ Prepare(c, p) \/ Clear(c, p) \/ Test(c, p) \/ Poll(c, p)
             \/ WakeAll(c, p) \/ SysYield(c, p) \/ Texit(c, p) \/ Exit(c, p)
             \/ \E q \in Queue : BlockUntil(c, p, q) \/ Signal(c, p, q)
      PROVE  PInv'
  <2>1. UNCHANGED <<context, mode, current_, poking, panicked>>
    BY <1>6, ZenonT(60)
       DEF Prepare, Clear, Test, Poll, WakeAll, SysYield, Texit, Exit, BlockUntil,
           Signal, cpuVars
  <2>2. Executing(c, p)
    BY <1>6, ZenonT(60) DEF Prepare, Clear, Test, Poll, WakeAll, SysYield, Texit,
           Exit, BlockUntil, Signal, At
  <2>3. Running(p) /\ ~panicked /\ state_[p] # "blank"
    BY <1>a, <2>2, ExecutingProc
  <2>4. /\ \A t \in Task \ {p} : state_'[t] = state_[t]
        /\ \A t \in Proc \ {p} : pc'[t] = pc[t]
    <3>1. pc' = [pc EXCEPT ![p] = pc'[p]]
      <4>1. pc \in [Proc -> {"user", "prepare", "test", "poll", "block", "clear",
                      "leave", "kill", "broken", "notify", "leaving", "dead",
                      "exit", "ended", "fault", "faulted", "signal", "yield"}]
        BY <1>a DEF TypeOK
      <4>2. \E x : pc' = [pc EXCEPT ![p] = x]
        BY <1>6, ZenonT(60) DEF Prepare, Clear, Test, Poll, Granted, Refused,
               WakeAll, SysYield, Texit, Exit, BlockUntil, Signal, Goto
      <4> QED
        BY <4>1, <4>2
    <3>2. state_' = state_ \/ \E x : state_' = [state_ EXCEPT ![p] = x]
      BY <1>6, ZenonT(60) DEF Prepare, Clear, Test, Poll, WakeAll, SysYield,
             Texit, Exit, BlockUntil, Signal
    <3> QED
      BY <1>a, <3>1, <3>2 DEF TypeOK
  <2>5. state_'[p] \in {"runnable", "blocked"} \/ state_'[p] = state_[p]
    BY <1>6, <1>a, TaskFacts DEF Prepare, Clear, Test, Poll, WakeAll, SysYield,
           Texit, Exit, BlockUntil, Signal, TypeOK
  <2>6. pc'[p] # "faulted"
    BY <1>6, <1>a DEF Prepare, Clear, AfterClear, Test, Poll, Granted, Refused, WakeAll,
           AfterWakeAll, SysYield, Texit, Exit, BlockUntil, Signal, Goto, TypeOK
  <2>7. pc[p] \in Gone \cup Faulty => pc'[p] \in Gone
    BY <1>6, <1>a DEF Prepare, Clear, Test, Poll, WakeAll, AfterWakeAll, SysYield, Texit,
           Exit, BlockUntil, Signal, At, Goto, TypeOK, Gone, Faulty
  <2>8. state_'[p] = "broken" => pc'[p] \in Gone \cup Faulty
    BY <1>a, <2>5, <2>7 DEF Places
  <2> QED
    BY <1>a, <2>1, <2>3, <2>4, <2>5, <2>6, <2>8, PRunning
<1>7. ASSUME NEW p \in Proc, SetBroken(c, p) \/ ExitBroken(c, p) \/ Fault(c, p)
      PROVE  PInv'
  <2>1. UNCHANGED <<context, mode, current_, poking, panicked>> /\ Executing(c, p)
    BY <1>7 DEF SetBroken, ExitBroken, Fault, At, cpuVars
  <2>2. Running(p) /\ ~panicked
    BY <1>a, <2>1, ExecutingProc
  <2>3. /\ \A t \in Task \ {p} : state_'[t] = state_[t]
        /\ \A t \in Proc \ {p} : pc'[t] = pc[t]
        /\ state_'[p] = "broken"
        /\ pc'[p] \in {"notify", "leaving", "fault"}
    BY <1>7, <1>a, TaskFacts DEF SetBroken, ExitBroken, Fault, Goto, TypeOK
  <2> QED
    BY <1>a, <2>1, <2>2, <2>3, PRunning DEF Gone, Faulty
<1>8. ASSUME NEW p \in Proc, FaultReturn(c, p)
      PROVE  PInv'
  <2>1. UNCHANGED <<state_, context, mode, current_, poking>> /\ Executing(c, p)
        /\ pc[p] = "faulted" /\ pc' = [pc EXCEPT ![p] = "user"]
        /\ panicked' = (state_[p] # "runnable")
    BY <1>8 DEF FaultReturn, At, Goto, cpuVars
  <2>2. Running(p) /\ state_[p] = "runnable"
    BY <1>a, <2>1, ExecutingProc DEF Places
  <2>3. pc'[p] = "user" /\ \A t \in Proc \ {p} : pc'[t] = pc[t]
    BY <1>a, <2>1 DEF TypeOK
  <2> QED
    BY <1>a, <2>1, <2>2, <2>3, PRunning
<1>9. ASSUME NEW p \in Proc, Yield(c, p) \/ YieldNoReturn(c, p)
      PROVE  PInv'
  <2>1. /\ Executing(c, p)
        /\ UNCHANGED <<state_, poking, panicked, current_>>
        /\ mode' = [mode EXCEPT ![c] = "sched"]
    BY <1>9 DEF Yield, YieldNoReturn, At, EnterSchedule
  <2>2. Running(p) /\ mode[c] = "run" /\ current_[c] = p /\ ~panicked /\ p \in Task
    BY <1>a, <2>1, ExecutingProc, TaskFacts
  <2>3. \A t \in Proc \ {p} : pc'[t] = pc[t]
    BY <1>9, <1>a DEF Yield, YieldNoReturn, Goto, TypeOK
  <2>4. /\ pc[p] \in Gone <=> pc'[p] \in Gone
        /\ pc[p] \in Faulty <=> pc'[p] \in Faulty
        /\ pc[p] # "user"
    BY <1>9, <1>a DEF Yield, AfterYield, YieldNoReturn, At, Goto, TypeOK, Gone, Faulty
  <2>5. PICK x : EnterSchedule(c, p, x) /\ (x # "none" \/ Left(p)')
    <3>1. CASE Yield(c, p)
      BY <3>1 DEF Yield
    <3>2. CASE YieldNoReturn(c, p)
      BY <3>2, <1>a DEF YieldNoReturn, Goto, TypeOK, Left, Gone
    <3> QED
      BY <1>9, <3>1, <3>2
  <2>6. Saved'
    <3>1. \A r \in Task \ {p} : (MayRun(r)' => MayRun(r)) /\ (Left(r) => Left(r)')
      BY <2>1, <2>3 DEF MayRun, Left
    <3> QED
      BY <1>a, <2>2, <2>5, <3>1, HomeFacts, SavedEnter
  <2>7. ~Running(p)' /\ \A t \in Proc : Running(t)' => Running(t)
    <3>1. mode' = [mode EXCEPT ![c] = "sched"] /\ current_' = current_
          /\ mode \in [Cpu -> {"sched", "run"}]
      BY <1>a, <2>1 DEF TypeOK
    <3>2. CpuOf[p] = c
      BY <1>a, <2>2, HomeFacts, RunningHere
    <3> QED
      BY <3>1, <3>2, HomeFacts DEF Running, Home
  <2>8. Places'
    BY <1>a, <2>1, <2>3, <2>4, <2>7 DEF Places
  <2> QED
    BY <2>1, <2>2, <2>6, <2>8 DEF PInv, PanicOnlyIfRevived
<1>10. ASSUME NEW p \in Proc, NEW t \in Proc, MarkExiting(c, p, t)
       PROVE  PInv'
  BY <1>10, <1>b DEF MarkExiting, At, Executing, cpuVars
<1>11. ASSUME NEW p \in Proc, NEW t \in Proc, DirectWake(c, p, t)
       PROVE  PInv'
  <2>1. /\ UNCHANGED <<state_, context, pc, mode, current_, panicked>>
        /\ poking' = [poking EXCEPT ![c] = t]
        /\ state_[t] = "blocked" /\ ~panicked
    BY <1>11 DEF DirectWake, PokeTest, At, Executing, procVars, cpuVars
  <2>2. \A r \in Task : Running(r)' <=> Running(r)
    BY <2>1 DEF Running, Home
  <2>3. Saved'
    BY <1>a, <2>1, <2>2 DEF Saved, MayRun, Left, Resumable
  <2>4. Places'
    BY <1>a, <2>1, <2>2, TaskFacts DEF Places, TypeOK
  <2> QED
    BY <2>1, <2>3, <2>4 DEF PInv, PanicOnlyIfRevived
<1>12. ASSUME NEW p \in Proc, NEW t \in Proc, Fork(c, p, t)
       PROVE  PInv'
  <2>1. /\ state_' = [state_ EXCEPT ![t] = "runnable"]
        /\ context' = [context EXCEPT ![t] = "regs"]
        /\ UNCHANGED <<pc, mode, current_, poking, panicked>>
        /\ state_[t] = "blank" /\ ~panicked
    BY <1>12 DEF Fork, At, Executing, procVars, cpuVars
  <2>2. \A r \in Task : Running(r)' <=> Running(r)
    BY <2>1 DEF Running, Home
  <2>3. Saved'
    BY <1>a, <2>1, <2>2 DEF Saved, MayRun, Left, Resumable, TypeOK
  <2>4. Places'
    BY <1>a, <2>1, <2>2, TaskFacts DEF Places, TypeOK
  <2> QED
    BY <2>1, <2>3, <2>4 DEF PInv, PanicOnlyIfRevived
<1>13. CASE Timer(c)
  <2>1. /\ mode[c] = "run" /\ current_[c] \in Task /\ current_[c] # None
        /\ ~panicked
    BY <1>13, HomeFacts DEF Timer, Interruptible, At, Executing, Task
  <2>2. /\ UNCHANGED <<state_, pc, poking, panicked, current_>>
        /\ mode' = [mode EXCEPT ![c] = "sched"]
        /\ EnterSchedule(c, current_[c], "regs")
    BY <1>13 DEF Timer, EnterSchedule, procVars
  <2>3. Saved'
    <3>1. \A r \in Task : (MayRun(r)' => MayRun(r)) /\ (Left(r) => Left(r)')
      BY <2>2 DEF MayRun, Left
    <3> QED
      BY <1>a, <2>1, <2>2, <3>1, SavedEnter
  <2>4. \A t \in Proc : Running(t)' => Running(t)
    BY <1>a, <2>2, HomeFacts DEF Running, Home, TypeOK
  <2>5. Places'
    BY <1>a, <2>2, <2>4, PlacesFrame DEF Places
  <2> QED
    BY <2>1, <2>2, <2>3, <2>5 DEF PInv, PanicOnlyIfRevived
<1>14. ASSUME NEW q \in Queue, Interrupt(c, q)
       PROVE  PInv'
  <2>1. /\ UNCHANGED <<state_, context, pc, mode, current_, poking>>
        /\ panicked' = \E p \in Proc : At(c, p, "user") /\ state_[p] # "runnable"
    BY <1>14 DEF Interrupt, procVars, cpuVars
  <2>2. \A p \in Proc : At(c, p, "user") => state_[p] = "runnable"
    BY <1>a, ExecutingProc DEF At, Waiting, Gone, Faulty
  <2> QED
    BY <1>b, <2>1, <2>2
<1> QED
  BY <1>0, <1>1, <1>2, <1>3, <1>4, <1>5, <1>6, <1>7, <1>8, <1>9, <1>10, <1>11,
     <1>12, <1>13, <1>14 DEF CpuStep, Syscall

\* PInv is inductive relative to IInv.
LEMMA PInductive == Spec => []PInv
<1>1. Init => PInv
  BY PInit
<1>2. IInv /\ PInv /\ [Next]_vars => PInv'
  <2> SUFFICES ASSUME IInv, PInv, [Next]_vars PROVE PInv'
    OBVIOUS
  <2>1. CASE Next
    BY <2>1, PStep
  <2>2. CASE UNCHANGED vars
    BY <2>2 DEF vars, PInv, Saved, Places, PanicOnlyIfRevived, Revived, MayRun,
       Left, Resumable, Running, Home
  <2> QED
    BY <2>1, <2>2
<1> QED
  BY <1>1, <1>2, Inductive, PTL DEF Spec

\* The assertions of enqueue, resume and the exception handler hold in every
\* interleaving, direct calls of wake() included, until such a call has made
\* a thread runnable that had already ended.
THEOREM PanicNeedsRevival == Spec => []PanicOnlyIfRevived
<1>1. PInv => PanicOnlyIfRevived
  BY DEF PInv
<1> QED
  BY <1>1, PInductive, PTL

\* The step property of BrokenIsFinal.
Final(p) ==
  state_[p] = "broken" =>
    \/ state_'[p] = "broken"
    \/ \E c \in Cpu : poking[c] = p /\ poking'[c] = None

\* Every step has it.
LEMMA FinalStep ==
  ASSUME IInv, PInv, Next, NEW r \in Proc
  PROVE  Final(r)
<1> SUFFICES ASSUME state_[r] = "broken", state_'[r] # "broken"
             PROVE  \E c \in Cpu : poking[c] = r /\ poking'[c] = None
  BY DEF Final
<1>a. TypeOK /\ Places
  BY DEF IInv, PInv
<1>b. pc[r] \in Gone \cup Faulty /\ r \in Task
  BY <1>a, TaskFacts DEF Places
<1>0. PICK c \in Cpu : \/ CpuStep(c) \/ Syscall(c) \/ Timer(c)
                      \/ \E q \in Queue : Interrupt(c, q)
  BY ZenonT(60) DEF Next
<1>1. state_' # state_
  OBVIOUS
<1>2. ~Resume(c) /\ ~SwitchTask(c) /\ ~WakeAllDone(c) /\ ~Timer(c)
      /\ \A q \in Queue : ~Interrupt(c, q)
  BY <1>1 DEF Resume, SwitchTask, WakeAllDone, Timer, Interrupt
<1>3. ~WakeOne(c)
  <2> SUFFICES ASSUME WakeOne(c) PROVE FALSE
    OBVIOUS
  <2>1. PICK p \in q_[waking[c]] :
          state_[p] = "blocked" /\ state_' = [state_ EXCEPT ![p] = "runnable"]
    BY <1>1 DEF WakeOne
  <2> QED
    BY <1>a, <1>b, <2>1 DEF TypeOK
<1>4. CASE PokeSet(c)
  <2>1. poking[c] = r
    BY <1>4, <1>a, <1>b DEF PokeSet, TypeOK
  <2> QED
    BY <1>4, <1>a, <2>1 DEF PokeSet, TypeOK
<1>5. ASSUME NEW p \in Proc
      PROVE  /\ ~Prepare(c, p) /\ ~Clear(c, p)
             /\ ~SetBroken(c, p) /\ ~ExitBroken(c, p) /\ ~Fault(c, p)
  <2>1. ~Prepare(c, p)
    BY <1>a, <1>b DEF Prepare, At, TypeOK, Gone, Faulty
  <2>2. ~Clear(c, p)
    BY <1>a, <1>b DEF Clear, At, TypeOK, Gone, Faulty
  <2>3. ~SetBroken(c, p) /\ ~ExitBroken(c, p) /\ ~Fault(c, p)
    BY <1>a, <1>b DEF SetBroken, ExitBroken, Fault, TypeOK
  <2> QED
    BY <2>1, <2>2, <2>3
<1>6. ASSUME NEW p \in Proc
      PROVE  /\ ~Test(c, p) /\ ~Poll(c, p) /\ ~Yield(c, p) /\ ~YieldNoReturn(c, p)
             /\ ~WakeAll(c, p) /\ ~FaultReturn(c, p)
             /\ ~SysYield(c, p) /\ ~Texit(c, p) /\ ~Exit(c, p)
             /\ \A q \in Queue : ~BlockUntil(c, p, q) /\ ~Signal(c, p, q)
             /\ \A t \in Proc : ~MarkExiting(c, p, t) /\ ~DirectWake(c, p, t)
  BY <1>1 DEF Test, Poll, Yield, YieldNoReturn, WakeAll, FaultReturn, SysYield,
              Texit, Exit, BlockUntil, Signal, MarkExiting, DirectWake, PokeTest
<1>7. ASSUME NEW p \in Proc, NEW t \in Proc
      PROVE  ~Fork(c, p, t)
  BY <1>a, <1>b DEF Fork, TypeOK
<1> QED
  BY <1>0, <1>2, <1>3, <1>4, <1>5, <1>6, <1>7 DEF CpuStep, Syscall

\* Whoever else runs, only a wake() outside a wait queue that found the thread
\* blocked before it ended takes it back from broken.
THEOREM BrokenStaysBroken == Spec => BrokenIsFinal
<1>1. IInv /\ PInv /\ [Next]_vars => [\A p \in Proc : Final(p)]_vars
  BY FinalStep
<1>2. BrokenIsFinal <=> [][\A p \in Proc : Final(p)]_vars
  BY PTL DEF BrokenIsFinal, Final
<1> QED
  BY <1>1, <1>2, Inductive, PInductive, PTL DEF Spec
=============================================================================

----------------------------- MODULE Lifecycle -----------------------------
(***************************************************************************)
(* The life of processes and threads: process_fork, sys_clone,             *)
(* process_exit, sys_exit, sys_texit, the page fault that ends a process,  *)
(* sys_waitpid, process_reap, and the exit of a thread inside block_until. *)
(*                                                                         *)
(* A thread is named by its slot in ptable.  A step is one critical        *)
(* section of ptable_lock, or one access made without it.  The scheduler   *)
(* is abstracted to what Sched shows: a thread runs unless it gave up its  *)
(* CPU while blocked, wake makes a blocked thread runnable, and wake_all   *)
(* does so for all threads linked into the queue.                          *)
(***************************************************************************)
EXTENDS Integers, FiniteSets, FiniteSetsExt

CONSTANTS
  Pid,        \* ptable slots, 1 .. NPROC - 1; 1 is init, 2 the first program
  Programs,   \* functions from slots to the calls that threads in them make,
              \* of which a behaviour has one; its domain are the slots in use
  StalePids,  \* what true_pid_ and ppid_ of a newly allocated proc may hold
  None        \* an argument or local variable that is not in use

\* "nomem": allocations may fail in calls of the thread.
AllCalls ==
  {"fork", "clone", "exit", "texit", "fault", "block", "wait_any", "wait_pid",
   "nomem"}

ASSUME LifecycleAssumption ==
  /\ Pid \subseteq Nat \ {0} /\ {1, 2} \subseteq Pid
  /\ \A calls \in Programs :
       /\ {1, 2} \subseteq DOMAIN calls /\ DOMAIN calls \subseteq Pid
       /\ \A p \in DOMAIN calls : calls[p] \subseteq AllCalls
  /\ StalePids # {} /\ StalePids \subseteq Nat
  /\ None \notin Nat

VARIABLES
  state_,       \* "none" for an empty slot, else proc::state_
  true_pid_, ppid_, children_, exiting_,
  true_ptable,  \* the slots p with true_ptable[p] # nullptr
  fdtable_,     \* the descriptor table of a thread, by number; 0 for none
  fds_open,     \* the tables whose descriptors have not been released
  waitpid_wq,   \* threads linked into waitpid_wq
  pc,           \* where a thread is; "new" until enqueued, "gone" at the end
  local,        \* the local variables of a thread's system call
  crashed,      \* the kernel has used a null pointer or a freed proc
  freed_in_use, \* a thread's stack was freed while it executed on it
  prog,         \* the member of Programs
  strays        \* history: threads whose parent ended without process_exit, or
                \* whose link was lost in an unlocked change of a child list

treeVars == <<true_pid_, ppid_, children_, true_ptable>>
fdVars == <<fdtable_, fds_open>>
sysVars == <<crashed, freed_in_use, strays, prog>>
vars == <<state_, treeVars, exiting_, fdVars, waitpid_wq, pc, local, sysVars>>

\* child: process_fork's fpid, or waitpid's child_pid;  list: the child list
\* that process_fork has read;  texit: the call is sys_texit;  the others are
\* waitpid's options = W_NOHANG, parent_of_child, to_reap, and the slot that it
\* passes to process_reap (0 before the first).
NoLocals == [child |-> None, list |-> {}, texit |-> FALSE, nohang |-> FALSE,
             parent |-> None, to_reap |-> 0, victim |-> 0]

Live == {"runnable", "blocked"}
Threads(pid) == {p \in Pid : state_[p] # "none" /\ true_pid_[p] = pid}
Siblings(t) == Threads(true_pid_[t]) \ {t}
ActiveThreads(t) == {p \in Threads(true_pid_[t]) : state_[p] \in Live}
FreeSlots == {p \in DOMAIN prog : state_[p] = "none"}

At(t, where) == ~crashed /\ pc[t] = where
Goto(t, where) == pc' = [pc EXCEPT ![t] = where]
May(t, call) == t \in DOMAIN prog /\ call \in prog[t]
Issue(t, call) == At(t, "user") /\ May(t, call)
Return(t) == Goto(t, "user") /\ local' = [local EXCEPT ![t] = NoLocals]

\* true_ptable[q] points to a proc.
Known(q) == q \in true_ptable /\ state_[q] # "none"

\* wait_queue::wake_all on waitpid_wq.
WakeAll ==
  /\ state_' = [p \in Pid |-> IF p \in waitpid_wq /\ state_[p] = "blocked"
                                THEN "runnable" ELSE state_[p]]
  /\ waitpid_wq' = {}

-----------------------------------------------------------------------------
(***************************************************************************)
(* process_fork and sys_clone.                                             *)
(***************************************************************************)
\* Take the first free slot; true_pid_ and ppid_ are not initialized yet.
ForkAlloc(t) ==
  /\ Issue(t, "fork")
  /\ FreeSlots # {}
  /\ LET f == Min(FreeSlots)
     IN /\ state_' = [state_ EXCEPT ![f] = "broken"]
        /\ \E stale \in StalePids :
             /\ true_pid_' = [true_pid_ EXCEPT ![f] = stale]
             /\ ppid_' = [ppid_ EXCEPT ![f] = stale]
        /\ true_ptable' = true_ptable \cup {f}
        /\ children_' = [children_ EXCEPT ![f] = {}]
        /\ exiting_' = [exiting_ EXCEPT ![f] = FALSE]
        /\ local' = [local EXCEPT ![t].child = f]
        /\ pc' = [pc EXCEPT ![t] = "fork_init", ![f] = "new"]
  /\ UNCHANGED <<fdVars, waitpid_wq, sysVars>>

\* Mutant: true_pid_ is left uninitialized.
ForkInitNoPid(t) ==
  /\ At(t, "fork_init")
  /\ state_' = [state_ EXCEPT ![local[t].child] = "runnable"]
  /\ Goto(t, "fork_fds")
  /\ UNCHANGED <<treeVars, exiting_, fdVars, waitpid_wq, local, sysVars>>

\* proc::init_user
ForkInit(t) ==
  /\ At(t, "fork_init")
  /\ LET f == local[t].child
     IN /\ state_' = [state_ EXCEPT ![f] = "runnable"]
        /\ true_pid_' = [true_pid_ EXCEPT ![f] = f]
  /\ Goto(t, "fork_fds")
  /\ UNCHANGED <<ppid_, children_, true_ptable, exiting_, fdVars, waitpid_wq,
                 local, sysVars>>

\* No memory for the page table, or for the descriptor table; in the second
\* case the slot's entry in true_ptable stays.
ForkFail(t) ==
  /\ May(t, "nomem")
  /\ \/ At(t, "fork_init") /\ true_ptable' = true_ptable \ {local[t].child}
     \/ At(t, "fork_fds") /\ UNCHANGED true_ptable
  /\ state_' = [state_ EXCEPT ![local[t].child] = "none"]
  /\ true_pid_' = [true_pid_ EXCEPT ![local[t].child] = 0]
  /\ ppid_' = [ppid_ EXCEPT ![local[t].child] = 0]
  /\ pc' = [pc EXCEPT ![t] = "user", ![local[t].child] = "gone"]
  /\ local' = [local EXCEPT ![t] = NoLocals]
  /\ UNCHANGED <<children_, exiting_, fdVars, waitpid_wq, sysVars>>

\* Numbers that no thread's table has.
FreeTables == Pid \ {fdtable_[p] : p \in Pid}

\* Make the table, copy the descriptors and set ppid_.  Then
\* ogproc->children_.push_back, without ptable_lock: read the list, ...
ForkReadList(t) ==
  /\ At(t, "fork_fds")
  /\ fdtable_' = [fdtable_ EXCEPT ![local[t].child] = Min(FreeTables)]
  /\ fds_open' = fds_open \cup {Min(FreeTables)}
  /\ ppid_' = [ppid_ EXCEPT ![local[t].child] = t]
  /\ local' = [local EXCEPT ![t].list = children_[t]]
  /\ Goto(t, "fork_push")
  /\ UNCHANGED <<state_, true_pid_, children_, true_ptable, exiting_, waitpid_wq,
                 sysVars>>

\* ... and write it.
ForkPush(t) ==
  /\ At(t, "fork_push")
  /\ children_' = [children_ EXCEPT ![t] = local[t].list \cup {local[t].child}]
  /\ strays' = strays \cup SymDiff(children_[t], local[t].list)
  /\ Goto(t, "fork_copy")
  /\ UNCHANGED <<state_, true_pid_, ppid_, true_ptable, exiting_, fdVars,
                 waitpid_wq, local, crashed, freed_in_use, prog>>

\* The memory is copied: enqueue the new process.
ForkStart(t) ==
  /\ At(t, "fork_copy")
  /\ pc' = [pc EXCEPT ![t] = "user", ![local[t].child] = "user"]
  /\ local' = [local EXCEPT ![t] = NoLocals]
  /\ UNCHANGED <<state_, treeVars, exiting_, fdVars, waitpid_wq, sysVars>>

\* No memory for the copy: process_reap the new process.
ForkAbort(t) ==
  /\ May(t, "nomem")
  /\ At(t, "fork_copy")
  /\ local' = [local EXCEPT ![t].victim = local[t].child]
  /\ Goto(t, "fork_reap")
  /\ UNCHANGED <<state_, treeVars, exiting_, fdVars, waitpid_wq, sysVars>>

\* sys_clone without memory for the proc, which is used without a test.
CloneFail(t) ==
  /\ Issue(t, "clone")
  /\ May(t, "nomem")
  /\ crashed' = TRUE
  /\ UNCHANGED <<state_, treeVars, exiting_, fdVars, waitpid_wq, pc, local,
                 freed_in_use, strays, prog>>

\* sys_clone: a new thread of the same process, and of the same parent, which
\* is looked up in true_ptable.
Clone(t) ==
  /\ Issue(t, "clone")
  /\ FreeSlots # {}
  /\ LET f == Min(FreeSlots)
         parent == ppid_[t]
     IN IF ~Known(parent)
          THEN /\ crashed' = TRUE
               /\ UNCHANGED <<state_, true_pid_, ppid_, children_, exiting_, pc,
                              fdtable_, strays>>
          ELSE /\ state_' = [state_ EXCEPT ![f] = "runnable"]
               /\ true_pid_' = [true_pid_ EXCEPT ![f] = true_pid_[t]]
               /\ ppid_' = [ppid_ EXCEPT ![f] = parent]
               /\ children_' = [children_ EXCEPT ![f] = {}, ![parent] = @ \cup {f}]
               /\ exiting_' = [exiting_ EXCEPT ![f] = FALSE]
               /\ fdtable_' = [fdtable_ EXCEPT ![f] = fdtable_[t]]
               /\ strays' = IF t \in strays THEN strays \cup {f} ELSE strays
               /\ Goto(f, "user")
               /\ UNCHANGED crashed
  /\ UNCHANGED <<true_ptable, fds_open, waitpid_wq, local, freed_in_use, prog>>

-----------------------------------------------------------------------------
(***************************************************************************)
(* The end of a thread.                                                    *)
(***************************************************************************)
\* sys_exit
Exit(t) ==
  /\ Issue(t, "exit")
  /\ Goto(t, "exit")
  /\ UNCHANGED <<state_, treeVars, exiting_, fdVars, waitpid_wq, local, sysVars>>

\* sys_texit: only the last active thread runs process_exit.
Texit(t) ==
  /\ Issue(t, "texit")
  /\ Goto(t, IF ActiveThreads(t) = {t} THEN "exit" ELSE "die")
  /\ local' = [local EXCEPT ![t].texit = TRUE]
  /\ UNCHANGED <<state_, treeVars, exiting_, fdVars, waitpid_wq, sysVars>>

\* process_exit: mark the other threads.  (ptable_lock is held on to the first
\* ExitTest; other threads may take it in between here, as they may afterwards.)
ExitMark(t) ==
  /\ At(t, "exit")
  /\ IF ActiveThreads(t) = {t}
       THEN Goto(t, "close_fds") /\ UNCHANGED exiting_
       ELSE /\ exiting_' = [p \in Pid |->
                 exiting_[p] \/ (p \in Siblings(t) /\ state_[p] # "broken")]
            /\ Goto(t, "exit_test")
  /\ UNCHANGED <<state_, treeVars, fdVars, waitpid_wq, local, sysVars>>

\* Mutant: process_exit does not wait for threads that are blocked.
ExitTestRunnable(t) ==
  /\ At(t, "exit_test")
  /\ LET left == {p \in Siblings(t) : state_[p] = "runnable"}
     IN \/ /\ left = {}
           /\ Goto(t, "close_fds")
           /\ UNCHANGED <<state_, waitpid_wq>>
        \/ /\ left # {}
           /\ Goto(t, "exit_block")
           /\ state_' = [state_ EXCEPT ![t] = "blocked"]
           /\ waitpid_wq' = waitpid_wq \cup {t}
  /\ UNCHANGED <<treeVars, exiting_, fdVars, local, sysVars>>

\* process_exit's block_until: prepare; then die if another thread is ending
\* the process too, go on if all other threads are broken, or else prod the
\* first one that is not, and block.
ExitTest(t) ==
  /\ At(t, "exit_test")
  /\ LET left == {p \in Siblings(t) : state_[p] # "broken"}
         first == Min(left)
     IN \/ /\ exiting_[t] \/ left = {}
           /\ Goto(t, IF exiting_[t] THEN "die" ELSE "close_fds")
           /\ UNCHANGED <<state_, waitpid_wq, exiting_>>
        \/ /\ ~exiting_[t] /\ left # {}
           /\ exiting_' = [exiting_ EXCEPT ![first] = TRUE]
           /\ Goto(t, "exit_block")
           /\ IF state_[first] = "blocked"
                THEN /\ state_' = [p \in Pid |->
                          IF p \in waitpid_wq \cup {first} /\ state_[p] = "blocked"
                            THEN "runnable" ELSE state_[p]]
                     /\ waitpid_wq' = {}
                ELSE /\ state_' = [state_ EXCEPT ![t] = "blocked"]
                     /\ waitpid_wq' = waitpid_wq \cup {t}
  /\ UNCHANGED <<treeVars, fdVars, local, sysVars>>

\* waiter::block returns, and the next round of block_until begins.
ExitResume(t) ==
  /\ At(t, "exit_block")
  /\ state_[t] # "blocked"
  /\ waitpid_wq' = waitpid_wq \ {t}
  /\ Goto(t, "exit_test")
  /\ UNCHANGED <<state_, treeVars, exiting_, fdVars, local, sysVars>>

\* process_exit: release the descriptors.
CloseFds(t) ==
  /\ At(t, "close_fds")
  /\ fds_open' = fds_open \ {fdtable_[t]}
  /\ Goto(t, "orphan")
  /\ UNCHANGED <<state_, treeVars, exiting_, fdtable_, waitpid_wq, local, sysVars>>

\* Mutant: the children move to init's list but keep their ppid_.
OrphanKeepPpid(t) ==
  /\ At(t, "orphan")
  /\ children_' = [children_ EXCEPT ![1] = @ \cup children_[t], ![t] = {}]
  /\ Goto(t, "exit_wake")
  /\ UNCHANGED <<state_, true_pid_, ppid_, true_ptable, exiting_, fdVars,
                 waitpid_wq, local, sysVars>>

\* process_exit: interrupt the parent, and give the children to init.
Orphan(t) ==
  /\ At(t, "orphan")
  /\ state_' = [state_ EXCEPT ![ppid_[t]] = IF @ = "blocked" THEN "runnable" ELSE @]
  /\ ppid_' = [p \in Pid |-> IF p \in children_[t] THEN 1 ELSE ppid_[p]]
  /\ children_' = [children_ EXCEPT ![1] = @ \cup children_[t], ![t] = {}]
  /\ Goto(t, "exit_wake")
  /\ UNCHANGED <<true_pid_, true_ptable, exiting_, fdVars, waitpid_wq, local,
                 sysVars>>

\* process_exit: wake the waiters, ...
ExitWake(t) ==
  /\ At(t, "exit_wake")
  /\ WakeAll
  /\ Goto(t, "exit_broken")
  /\ UNCHANGED <<treeVars, exiting_, fdVars, local, sysVars>>

\* ... then declare the thread broken.  Only sys_texit wakes them once more.
ExitBroken(t) ==
  /\ At(t, "exit_broken")
  /\ state_' = [state_ EXCEPT ![t] = "broken"]
  /\ Goto(t, IF local[t].texit THEN "die_wake" ELSE "leave")
  /\ UNCHANGED <<treeVars, exiting_, fdVars, waitpid_wq, local, sysVars>>

\* A thread that is not the last one to call sys_texit, or that block_until
\* ends: broken first, ...
Die(t) ==
  /\ At(t, "die")
  /\ state_' = [state_ EXCEPT ![t] = "broken"]
  /\ strays' = strays \cup children_[t]
  /\ Goto(t, "die_wake")
  /\ UNCHANGED <<treeVars, exiting_, fdVars, waitpid_wq, local, crashed,
                 freed_in_use, prog>>

\* ... then the waiters are woken.
DieWake(t) ==
  /\ At(t, "die_wake")
  /\ WakeAll
  /\ Goto(t, "leave")
  /\ UNCHANGED <<treeVars, exiting_, fdVars, local, sysVars>>

\* A page fault that cannot be repaired: broken, and nobody is told.
Fault(t) ==
  /\ Issue(t, "fault")
  /\ state_' = [state_ EXCEPT ![t] = "broken"]
  /\ strays' = strays \cup children_[t]
  /\ Goto(t, "leave")
  /\ UNCHANGED <<treeVars, exiting_, fdVars, waitpid_wq, local, crashed,
                 freed_in_use, prog>>

\* yield_noreturn, until schedule has switched away from the thread's stack.
Leave(t) ==
  /\ At(t, "leave")
  /\ Goto(t, "gone")
  /\ local' = [local EXCEPT ![t] = NoLocals]
  /\ UNCHANGED <<state_, treeVars, exiting_, fdVars, waitpid_wq, sysVars>>

\* Any other call that waits in block_until, e.g. a read from a pipe.
Block(t) ==
  /\ Issue(t, "block")
  /\ IF exiting_[t]
       THEN Goto(t, "die") /\ UNCHANGED state_
       ELSE /\ state_' = [state_ EXCEPT ![t] = "blocked"]
            /\ Goto(t, "io")
  /\ UNCHANGED <<treeVars, exiting_, fdVars, waitpid_wq, local, sysVars>>

\* What it waits for happens.
IoEvent(t) ==
  /\ At(t, "io")
  /\ state_[t] = "blocked"
  /\ state_' = [state_ EXCEPT ![t] = "runnable"]
  /\ UNCHANGED <<treeVars, exiting_, fdVars, waitpid_wq, pc, local, sysVars>>

\* block_until tests exiting_ again whenever the thread is woken.
IoResume(t) ==
  /\ At(t, "io")
  /\ state_[t] = "runnable"
  /\ Goto(t, IF exiting_[t] THEN "die" ELSE "user")
  /\ UNCHANGED <<state_, treeVars, exiting_, fdVars, waitpid_wq, local, sysVars>>

-----------------------------------------------------------------------------
(***************************************************************************)
(* sys_waitpid and process_reap.                                           *)
(***************************************************************************)
\* Look up the child's parent under the lock.  init only waits for any child.
Waitpid(t) ==
  /\ At(t, "user")
  /\ \E child \in Pid \cup {0}, nohang \in BOOLEAN :
       /\ \/ t = 1 /\ child = 0 /\ ~nohang
          \/ May(t, "wait_any") /\ child = 0
          \/ May(t, "wait_pid") /\ child \in DOMAIN prog
       /\ local' = [local EXCEPT ![t].child = child, ![t].nohang = nohang,
            ![t].parent = IF child # 0 /\ state_[child] # "none"
                           THEN ppid_[child] ELSE 0]
  /\ Goto(t, "wait_check")
  /\ UNCHANGED <<state_, treeVars, exiting_, fdVars, waitpid_wq, sysVars>>

\* Without the lock: E_CHILD, or go on.
WaitCheck(t) ==
  /\ At(t, "wait_check")
  /\ IF \/ local[t].child # 0 /\ local[t].parent # t
        \/ local[t].child = 0 /\ children_[t] = {}
       THEN Return(t)
       ELSE Goto(t, "wait_scan") /\ UNCHANGED local
  /\ UNCHANGED <<state_, treeVars, exiting_, fdVars, waitpid_wq, sysVars>>

\* The thread, if any, that the scan for broken threads takes next: some child
\* (the order of the list is not modelled), or the next slot of the process.
Victims(t) ==
  IF local[t].child = 0
    THEN {p \in children_[t] : state_[p] = "broken" /\ local[t].victim = 0}
    ELSE {p \in Threads(local[t].child) :
            /\ state_[p] = "broken"
            /\ p > local[t].victim
            /\ \A q \in Threads(local[t].child) :
                 q > local[t].victim /\ state_[q] = "broken" => p <= q}

\* The wait is over when something was reaped and no thread has the true_pid_
\* child_pid, or at once with W_NOHANG.
WaitDone(t) ==
  \/ local[t].to_reap # 0 /\ Threads(local[t].child) = {}
  \/ local[t].nohang

\* The critical section: prepare, unless back from process_reap, and scan;
\* then reap a thread, return, or block.
WaitScan(t) ==
  /\ At(t, "wait_scan")
  /\ LET fresh == local[t].victim = 0
         st == IF fresh THEN [state_ EXCEPT ![t] = "blocked"] ELSE state_
         wq == IF fresh THEN waitpid_wq \cup {t} ELSE waitpid_wq
     IN \/ \E p \in Victims(t) :
             /\ local' = [local EXCEPT ![t].victim = p, ![t].to_reap = true_pid_[p]]
             /\ state_' = st
             /\ waitpid_wq' = wq
             /\ Goto(t, "wait_reap")
        \/ /\ Victims(t) = {} /\ WaitDone(t)
           /\ state_' = [st EXCEPT ![t] = "runnable"]
           /\ waitpid_wq' = wq \ {t}
           /\ Return(t)
        \/ /\ Victims(t) = {} /\ ~WaitDone(t)
           /\ state_' = st
           /\ waitpid_wq' = wq
           /\ Goto(t, "wait_block")
           /\ UNCHANGED local
  /\ UNCHANGED <<treeVars, exiting_, fdVars, sysVars>>

\* waiter::block returns, and the next round begins.
WaitResume(t) ==
  /\ At(t, "wait_block")
  /\ state_[t] # "blocked"
  /\ waitpid_wq' = waitpid_wq \ {t}
  /\ local' = [local EXCEPT ![t].victim = 0]
  /\ Goto(t, "wait_scan")
  /\ UNCHANGED <<state_, treeVars, exiting_, fdVars, sysVars>>

\* Mutant: only the broken threads are counted.
LastBrokenThread(p) ==
  {q \in Threads(true_pid_[p]) : state_[q] = "broken"} = {p}

\* process_reap's nthr == 1.
LastThread(p) == Threads(true_pid_[p]) = {p}

\* The thread that the scan chose is still there: the lock was released since.
\* process_fork calls process_reap for the process that it is making.
StillThere(t, p) ==
  \/ pc[t] = "fork_reap"
  \/ state_[p] = "broken" /\ pc[p] # "new"

\* process_reap: unlink the victim from the children of its parent, which is
\* looked up in true_ptable, and free it.  With its last thread go the page
\* table and the descriptor table, but not the files it still refers to.
Reap(t) ==
  /\ \/ At(t, "wait_reap")
     \/ At(t, "fork_reap")
  /\ LET p == local[t].victim
         after == IF pc[t] = "wait_reap" THEN "wait_wake" ELSE "fork_wake"
     IN IF ~StillThere(t, p) \/ ~Known(ppid_[p]) \/ p \notin children_[ppid_[p]]
          THEN /\ crashed' = TRUE
               /\ UNCHANGED <<state_, treeVars, exiting_, fdVars, pc, local,
                              freed_in_use, strays>>
          ELSE /\ children_' = [children_ EXCEPT ![ppid_[p]] = @ \ {p}]
               /\ state_' = [state_ EXCEPT ![p] = "none"]
               /\ true_pid_' = [true_pid_ EXCEPT ![p] = 0]
               /\ ppid_' = [ppid_ EXCEPT ![p] = 0]
               /\ exiting_' = [exiting_ EXCEPT ![p] = FALSE]
               /\ true_ptable' = true_ptable \ {p}
               /\ fdtable_' = [fdtable_ EXCEPT ![p] = 0]
               /\ fds_open' = fds_open \ (IF LastThread(p) THEN {fdtable_[p]} ELSE {})
               /\ freed_in_use' = (freed_in_use \/ pc[p] \in {"die_wake", "leave"})
               /\ pc' = [pc EXCEPT ![p] = "gone", ![t] = after]
               /\ local' = [local EXCEPT ![p] = NoLocals]
               /\ strays' = strays \ {p}
               /\ UNCHANGED crashed
  /\ UNCHANGED <<waitpid_wq, prog>>

\* The end of process_reap: wake_all.
ReapWake(t) ==
  /\ \/ At(t, "wait_wake") /\ Goto(t, "wait_scan") /\ UNCHANGED local
     \/ At(t, "fork_wake") /\ Return(t)
  /\ WakeAll
  /\ UNCHANGED <<treeVars, exiting_, fdVars, sysVars>>

-----------------------------------------------------------------------------
\* process_setup has loaded init and the first program, init's child.
Init ==
  /\ state_ = [p \in Pid |-> IF p \in {1, 2} THEN "runnable" ELSE "none"]
  /\ true_pid_ = [p \in Pid |-> IF p \in {1, 2} THEN p ELSE 0]
  /\ ppid_ = [p \in Pid |-> IF p \in {1, 2} THEN 1 ELSE 0]
  /\ children_ = [p \in Pid |-> IF p = 1 THEN {2} ELSE {}]
  /\ exiting_ = [p \in Pid |-> FALSE]
  /\ true_ptable = {1, 2}
  /\ fdtable_ = [p \in Pid |-> IF p \in {1, 2} THEN p ELSE 0]
  /\ fds_open = {1, 2}
  /\ waitpid_wq = {}
  /\ pc = [p \in Pid |-> IF p \in {1, 2} THEN "user" ELSE "gone"]
  /\ local = [p \in Pid |-> NoLocals]
  /\ crashed = FALSE
  /\ freed_in_use = FALSE
  /\ strays = {}
  /\ prog \in Programs

\* What the kernel does on its own once a call has begun.
KernelStep(t) ==
  \/ ForkInit(t) \/ ForkReadList(t) \/ ForkPush(t) \/ ForkStart(t)
  \/ ForkFail(t) \/ ForkAbort(t)
  \/ ExitMark(t) \/ ExitTest(t) \/ ExitResume(t) \/ CloseFds(t) \/ Orphan(t)
  \/ ExitWake(t) \/ ExitBroken(t) \/ Die(t) \/ DieWake(t) \/ Leave(t)
  \/ IoResume(t)
  \/ WaitCheck(t) \/ WaitScan(t) \/ WaitResume(t) \/ Reap(t) \/ ReapWake(t)

UserStep(t) ==
  \/ ForkAlloc(t) \/ Clone(t) \/ CloneFail(t)
  \/ Exit(t) \/ Texit(t) \/ Fault(t)
  \/ Block(t) \/ IoEvent(t) \/ Waitpid(t)

Next == \E t \in Pid : KernelStep(t) \/ UserStep(t)

Spec == Init /\ [][Next]_vars

\* The scheduler runs every runnable thread (Sched: RunnableRuns), so a call
\* that can go on does.  init calls waitpid in a loop.  Programs need not make
\* any call, nor need the events happen that other calls wait for.
Fairness ==
  /\ \A t \in Pid : WF_vars(KernelStep(t))
  /\ WF_vars(Waitpid(1))

FairSpec == Spec /\ Fairness

-----------------------------------------------------------------------------
(***************************************************************************)
(* Properties.                                                             *)
(***************************************************************************)
Places ==
  {"user", "new", "gone", "fork_init", "fork_fds", "fork_push", "fork_copy",
   "fork_reap", "fork_wake", "exit", "exit_test", "exit_block", "close_fds",
   "orphan", "exit_wake", "exit_broken", "die", "die_wake", "leave", "io",
   "wait_check", "wait_scan", "wait_block", "wait_reap", "wait_wake"}

\* The shape of the process table and of the calls in progress.
TypeOK ==
  /\ state_ \in [Pid -> {"none", "runnable", "blocked", "broken"}]
  /\ true_pid_ \in [Pid -> Pid \cup StalePids \cup {0}]
  /\ ppid_ \in [Pid -> Pid \cup StalePids \cup {0}]
  /\ children_ \in [Pid -> SUBSET Pid]
  /\ exiting_ \in [Pid -> BOOLEAN]
  /\ true_ptable \subseteq Pid
  /\ fdtable_ \in [Pid -> Pid \cup {0}] /\ fds_open \subseteq Pid
  /\ waitpid_wq \subseteq Pid
  /\ pc \in [Pid -> Places]
  /\ \A p \in Pid : pc[p] \notin {"new", "gone"} => {true_pid_[p], ppid_[p]} \subseteq Pid
  /\ \A t \in Pid :
       /\ local[t].child \in Pid \cup {0, None}
       /\ local[t].list \subseteq Pid
       /\ local[t].texit \in BOOLEAN /\ local[t].nohang \in BOOLEAN
       /\ local[t].parent \in Pid \cup StalePids \cup {0, None}
       /\ local[t].to_reap \in Pid \cup StalePids \cup {0}
       /\ local[t].victim \in Pid \cup {0}
  /\ crashed \in BOOLEAN /\ freed_in_use \in BOOLEAN
  /\ strays \subseteq Pid

\* Slots whose links into the tree are complete.
InTree == {p \in Pid : p # 1 /\ state_[p] # "none" /\ pc[p] # "new"}

\* Every thread is in the child list of exactly the process that its ppid_
\* names, and that process still has its slot: whoever waits for its children
\* (sys_waitpid) or gives them away (process_exit) finds all of them.  The
\* exceptions are the strays: the children of a thread that ended by a page
\* fault or as one of several threads, and what an unlocked push_back of
\* process_fork that overlaps a sys_clone or process_reap loses.
ChildrenMatch ==
  \A p \in InTree \ strays :
    /\ ppid_[p] \in Pid /\ state_[ppid_[p]] # "none"
    /\ \A q \in Pid : p \in children_[q] <=> q = ppid_[p]


\* process_reap frees a thread only once the thread has left its kernel stack,
\* which lies in the page that is freed.
StackOutlivesThread == ~freed_in_use

\* The part of process_exit that follows the wait for the other threads.
Ending == {"close_fds", "orphan", "exit_wake", "exit_broken"}

\* While a thread releases the descriptors and the children of its process, no
\* other thread with its descriptor table is active: process_exit has outlived
\* them all.
ExitsAlone ==
  \A t, p \in Pid :
    /\ pc[t] \in Ending
    /\ p # t /\ state_[p] \in Live /\ fdtable_[p] = fdtable_[t]
    => FALSE

\* The descriptors of a process stay open as long as any of its threads can
\* use them: process_exit has not closed them, nor process_reap freed them.
LiveHasFds ==
  \A t \in Pid :
    /\ state_[t] \in Live
    /\ pc[t] \notin Ending \cup {"new"}
    => fdtable_[t] \in fds_open

\* A thread that waits for a child which has exited does not wait forever.
WaitpidReturns ==
  \A t \in Pid, p \in Pid :
    /\ pc[t] = "wait_block" /\ p \in children_[t]
    /\ local[t].child \in {0, p}
    /\ Threads(p) # {} /\ \A q \in Threads(p) : state_[q] = "broken"
    ~> pc[t] = "user" \/ p \notin children_[t]
=============================================================================

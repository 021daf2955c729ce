-------------------------------- MODULE Pipe --------------------------------
(***************************************************************************)
(* One pipe: the bounded buffer (bbuffer), vnode_pipe::read and            *)
(* vnode_pipe::write, and the life of the pipe's two file objects and its  *)
(* vnode (file::deref, file::~file, and the reference counting done by     *)
(* sys_read, sys_write, sys_close, sys_dup2 and process_fork).             *)
(*                                                                         *)
(* bb_->lock_ is explicit, and so is every step of block_until that can    *)
(* interleave with another thread.  A wait queue is the set of the threads *)
(* linked into it: Sched shows that a thread that gave up its CPU is       *)
(* linked, and that wake_all lets every linked thread run again.           *)
(*                                                                         *)
(* A change of file::refs_ is a load and a store.  All but sys_dup2's hold *)
(* the file's lock_ from the one to the other.                             *)
(***************************************************************************)
EXTENDS Integers, Sequences

CONSTANTS
  Thread,    \* the threads that use the pipe
  Process,   \* their processes, each with a descriptor table
  Root,      \* the process that called sys_pipe
  N,         \* BBUFFER_SIZE
  Data,      \* bytes
  Zero,      \* the byte that a new buffer is filled with
  MaxSz,     \* bound on the size of one read or write
  MaxFds,    \* bound on the number of descriptors per end and process
  Sequel,    \* whether calls still start after refs_ has been miscounted
  MaxVnodeRefs,  \* bound on vnode::refs_, which forks only increase
  Killable,  \* threads whose process exits while they use the pipe
  None       \* the lock is free; no file

ASSUME PipeAssumption ==
  /\ N \in Nat \ {0}
  /\ MaxSz \in Nat \ {0}
  /\ MaxFds \in Nat \ {0}
  /\ Sequel \in BOOLEAN
  /\ MaxVnodeRefs \in Nat
  /\ Zero \in Data
  /\ Root \in Process
  /\ None \notin Thread

End == {"r", "w"}
Other(e) == IF e = "r" THEN "w" ELSE "r"

VARIABLES
  buf_, pos_, len_,  \* the ring buffer
  closed,      \* the ends e for which read_closed_ or write_closed_ is set
  lock_,       \* the holder of bb_->lock_
  wq,          \* wq["r"] is nonempty_wq_, wq["w"] is nonfull_wq_
  proc,        \* the process of a thread (never changes)
  fdlock,      \* the holder of a process's fdtable_->lock_: a thread, None,
               \* or "unused" while there is no such process; process_fork has
               \* the child's table to itself
  fds,         \* how many of a process's descriptors refer to the file of an end
  refs_,       \* file::refs_ of the two files
  vnode_refs,  \* vnode::refs_
  freed,       \* the vnode and its bbuffer have been deleted
  pc, exiting_,
  op, data, sz, input_pos, result,  \* the call a thread executes
  file, old,   \* the file whose refs_ a thread changes, and the value it loaded
  src,         \* the file of dup2's oldfd
  miscounted   \* history: a change of refs_ was lost, or was made to a file
               \* that was destroyed

bbVars == <<buf_, pos_, len_>>
refVars == <<fdlock, fds, refs_, vnode_refs, freed, file, old, src, miscounted>>
callVars == <<op, data, sz, input_pos, result>>
threadVars == <<proc, exiting_>>
vars == <<bbVars, closed, lock_, wq, refVars, pc, threadVars, callVars>>

Goto(t, where) == pc' = [pc EXCEPT ![t] = where]

\* The call returns r; the buffer is the caller's again.
Return(t, r) ==
  /\ result' = [result EXCEPT ![t] = r]
  /\ data' = [data EXCEPT ![t] = <<>>]
  /\ sz' = [sz EXCEPT ![t] = 0]
  /\ input_pos' = [input_pos EXCEPT ![t] = 0]
  /\ UNCHANGED op

-----------------------------------------------------------------------------
(***************************************************************************)
(* Changes of file::refs_.                                                 *)
(***************************************************************************)
\* Some thread is between the load and the store of refs_ with f->lock_ held.
FileLocked(e) ==
  \E t \in Thread : pc[t] \in {"count", "drop", "copied"} /\ file[t] = e

\* kdelete has been called on the file of end e.  A file is destroyed while
\* a descriptor or a call still refers to it only after a miscount; what a
\* thread does with its memory then is not modelled.
Destroyed(e) ==
  e \in closed \/ \E t \in Thread : pc[t] = "destroy" /\ file[t] = e

Load(t, e, where) ==
  /\ file' = [file EXCEPT ![t] = e]
  /\ old' = [old EXCEPT ![t] = refs_[e]]
  /\ Goto(t, where)

\* lock_.lock(), and the load
LockLoad(t, e, where) == ~FileLocked(e) /\ Load(t, e, where)

\* The store; n = 0 leaves the file to be destroyed.
Store(t, n) ==
  /\ refs_' = [refs_ EXCEPT ![file[t]] = n]
  /\ file' = [file EXCEPT ![t] = IF n = 0 THEN @ ELSE None]
  /\ old' = [old EXCEPT ![t] = 0]
  /\ miscounted' = (miscounted \/ refs_[file[t]] # old[t])

\* A descriptor of t's process refers to end e, and nobody holds its table.
HasFd(t, e) ==
  /\ fdlock[proc[t]] = None
  /\ fds[proc[t]][e] > 0
  /\ ~Destroyed(e)
  /\ miscounted => Sequel

-----------------------------------------------------------------------------
(***************************************************************************)
(* sys_read and sys_write: find the file, take a reference, call the vnode.*)
(***************************************************************************)
Calls == [op : {"r"}, data : {<<>>}, sz : 1 .. MaxSz]
         \cup UNION {[op : {"w"}, data : [1 .. k -> Data], sz : {k}] :
                     k \in 1 .. MaxSz}

\* Mutant: the call takes no reference to the file.
BeginNoRef(t) ==
  /\ pc[t] = "idle"
  /\ \E call \in Calls :
       /\ HasFd(t, call.op)
       /\ op' = [op EXCEPT ![t] = call.op]
       /\ data' = [data EXCEPT ![t] = call.data]
       /\ sz' = [sz EXCEPT ![t] = call.sz]
  /\ input_pos' = [input_pos EXCEPT ![t] = 0]
  /\ result' = [result EXCEPT ![t] = "busy"]
  /\ Goto(t, "lock")
  /\ UNCHANGED <<bbVars, closed, lock_, wq, refVars, threadVars>>

\* The file's lock_ is taken before the table's is released.
Begin(t) ==
  /\ pc[t] = "idle"
  /\ \E call \in Calls :
       /\ HasFd(t, call.op)
       /\ op' = [op EXCEPT ![t] = call.op]
       /\ data' = [data EXCEPT ![t] = call.data]
       /\ sz' = [sz EXCEPT ![t] = call.sz]
       /\ LockLoad(t, call.op, "count")
  /\ input_pos' = [input_pos EXCEPT ![t] = 0]
  /\ result' = [result EXCEPT ![t] = "busy"]
  /\ UNCHANGED <<bbVars, closed, lock_, wq, fdlock, fds, refs_, vnode_refs,
                 freed, src, miscounted, threadVars>>

\* f->refs_++
Count(t) ==
  /\ pc[t] = "count"
  /\ Store(t, old[t] + 1)
  /\ Goto(t, "lock")
  /\ UNCHANGED <<bbVars, closed, lock_, wq, fdlock, fds, vnode_refs, freed, src,
                 threadVars, callVars>>

\* The condition that lets a blocked call go on.
Ready(e) ==
  \/ Other(e) \in closed
  \/ e = "r" /\ len_ > 0
  \/ e = "w" /\ len_ < N

\* Whether the call first tests the buffer's level, and blocks on it.
MustWait(e) == IF e = "r" THEN len_ = 0 ELSE len_ = N

\* Lock the buffer.
Lock(t) ==
  /\ pc[t] = "lock"
  /\ lock_ = None
  /\ lock_' = t
  /\ Goto(t, IF MustWait(op[t]) THEN "prepare" ELSE "check")
  /\ UNCHANGED <<bbVars, closed, wq, refVars, threadVars, callVars>>

\* block_until: prepare, ...
Prepare(t) ==
  /\ pc[t] = "prepare"
  /\ wq' = [wq EXCEPT ![op[t]] = @ \cup {t}]
  /\ Goto(t, "test")
  /\ UNCHANGED <<bbVars, closed, lock_, refVars, threadVars, callVars>>

\* ... test; a thread of an exiting process ends here ...
Test(t) ==
  /\ pc[t] = "test"
  /\ \/ /\ exiting_[t]
        /\ Goto(t, "dead")
        /\ Return(t, "killed")
        /\ lock_' = None
        /\ wq' = [wq EXCEPT ![op[t]] = @ \ {t}]
     \/ /\ ~exiting_[t] /\ Ready(op[t])
        /\ Goto(t, "check")
        /\ wq' = [wq EXCEPT ![op[t]] = @ \ {t}]
        /\ UNCHANGED <<lock_, callVars>>
     \/ /\ ~exiting_[t] /\ ~Ready(op[t])
        /\ Goto(t, "blocked")
        /\ lock_' = None
        /\ UNCHANGED <<wq, callVars>>
  /\ UNCHANGED <<bbVars, closed, refVars, threadVars>>

\* ... and, once woken, lock the buffer for the next round.
Relock(t) ==
  /\ pc[t] = "blocked"
  /\ t \notin wq[op[t]]
  /\ lock_ = None
  /\ lock_' = t
  /\ Goto(t, "prepare")
  /\ UNCHANGED <<bbVars, closed, wq, refVars, threadVars, callVars>>

\* The end of file, or E_PIPE.
HungUp(e) == Other(e) \in closed /\ (e = "r" => len_ = 0)

\* Mutant: the early return forgets the reference.
CheckNoDeref(t) ==
  /\ pc[t] = "check"
  /\ IF HungUp(op[t])
       THEN /\ Return(t, IF op[t] = "r" THEN "eof" ELSE "E_PIPE")
            /\ lock_' = None
            /\ Goto(t, "idle")
       ELSE /\ Goto(t, "copy")
            /\ UNCHANGED <<callVars, lock_>>
  /\ UNCHANGED <<bbVars, closed, wq, refVars, threadVars>>

Check(t) ==
  /\ pc[t] = "check"
  /\ IF HungUp(op[t])
       THEN /\ Return(t, IF op[t] = "r" THEN "eof" ELSE "E_PIPE")
            /\ lock_' = None
            /\ Goto(t, "deref")
       ELSE /\ Goto(t, "copy")
            /\ UNCHANGED <<callVars, lock_>>
  /\ UNCHANGED <<bbVars, closed, wq, refVars, threadVars>>

\* One iteration of the copying loop: ncopy bytes without wrapping around.
Least(a, b) == IF a < b THEN a ELSE b

\* Mutant: pos_ does not wrap around.
CopyOutNoWrap(t) ==
  /\ pc[t] = "copy" /\ op[t] = "r"
  /\ input_pos[t] < sz[t] /\ len_ > 0
  /\ LET ncopy == Least(Least(sz[t] - input_pos[t], N - pos_), len_)
     IN /\ data' = [data EXCEPT
                      ![t] = @ \o [i \in 1 .. ncopy |-> buf_[pos_ + i - 1]]]
        /\ pos_' = pos_ + ncopy
        /\ len_' = len_ - ncopy
        /\ input_pos' = [input_pos EXCEPT ![t] = @ + ncopy]
  /\ UNCHANGED <<buf_, closed, lock_, wq, refVars, pc, threadVars, op, sz, result>>

CopyOut(t) ==
  /\ pc[t] = "copy" /\ op[t] = "r"
  /\ input_pos[t] < sz[t] /\ len_ > 0
  /\ LET ncopy == Least(Least(sz[t] - input_pos[t], N - pos_), len_)
     IN /\ data' = [data EXCEPT
                      ![t] = @ \o [i \in 1 .. ncopy |-> buf_[pos_ + i - 1]]]
        /\ pos_' = (pos_ + ncopy) % N
        /\ len_' = len_ - ncopy
        /\ input_pos' = [input_pos EXCEPT ![t] = @ + ncopy]
  /\ UNCHANGED <<buf_, closed, lock_, wq, refVars, pc, threadVars, op, sz, result>>

\* Mutant: a write starts at pos_, not after the bytes already there.
CopyInAtPos(t) ==
  /\ pc[t] = "copy" /\ op[t] = "w"
  /\ input_pos[t] < sz[t] /\ len_ < N
  /\ LET ncopy == Least(Least(sz[t] - input_pos[t], N - pos_), N - len_)
     IN /\ buf_' = [j \in 0 .. N - 1 |->
                      IF pos_ <= j /\ j < pos_ + ncopy
                        THEN data[t][input_pos[t] + 1 + j - pos_]
                        ELSE buf_[j]]
        /\ len_' = len_ + ncopy
        /\ input_pos' = [input_pos EXCEPT ![t] = @ + ncopy]
  /\ UNCHANGED <<pos_, closed, lock_, wq, refVars, pc, threadVars, op, data, sz,
                 result>>

CopyIn(t) ==
  /\ pc[t] = "copy" /\ op[t] = "w"
  /\ input_pos[t] < sz[t] /\ len_ < N
  /\ LET bb_index == (pos_ + len_) % N
         ncopy == Least(Least(sz[t] - input_pos[t], N - bb_index), N - len_)
     IN /\ buf_' = [j \in 0 .. N - 1 |->
                      IF bb_index <= j /\ j < bb_index + ncopy
                        THEN data[t][input_pos[t] + 1 + j - bb_index]
                        ELSE buf_[j]]
        /\ len_' = len_ + ncopy
        /\ input_pos' = [input_pos EXCEPT ![t] = @ + ncopy]
  /\ UNCHANGED <<pos_, closed, lock_, wq, refVars, pc, threadVars, op, data, sz,
                 result>>

\* The end of the loop: unlock; a call that moved nothing reports -1.
CopyDone(t) ==
  /\ pc[t] = "copy"
  /\ input_pos[t] = sz[t] \/ (IF op[t] = "r" THEN len_ = 0 ELSE len_ = N)
  /\ lock_' = None
  /\ IF input_pos[t] = 0
       THEN Goto(t, "deref") /\ Return(t, "-1")
       ELSE Goto(t, "wake") /\ UNCHANGED callVars
  /\ UNCHANGED <<bbVars, closed, wq, refVars, threadVars>>

\* Mutant: the threads at the same end are woken.
WakeSame(t) ==
  /\ pc[t] = "wake"
  /\ wq' = [wq EXCEPT ![op[t]] = {}]
  /\ Return(t, "bytes")
  /\ Goto(t, "deref")
  /\ UNCHANGED <<bbVars, closed, lock_, refVars, threadVars>>

\* Wake the threads at the other end.
Wake(t) ==
  /\ pc[t] = "wake"
  /\ wq' = [wq EXCEPT ![Other(op[t])] = {}]
  /\ Return(t, "bytes")
  /\ Goto(t, "deref")
  /\ UNCHANGED <<bbVars, closed, lock_, refVars, threadVars>>

-----------------------------------------------------------------------------
(***************************************************************************)
(* Reference counts.                                                       *)
(***************************************************************************)
\* file::deref at the end of sys_read and sys_write.
Deref(t) ==
  /\ pc[t] = "deref"
  /\ IF Destroyed(op[t])
       THEN Goto(t, "wild") /\ UNCHANGED <<file, old>>
       ELSE LockLoad(t, op[t], "drop")
  /\ UNCHANGED <<bbVars, closed, lock_, wq, fdlock, fds, refs_, vnode_refs,
                 freed, src, miscounted, threadVars, callVars>>

\* deref is done; sys_close returns, and sys_dup2 goes on.
EndDeref(t) ==
  IF src[t] = None
    THEN /\ Goto(t, "idle")
         /\ fdlock' = [fdlock EXCEPT ![proc[t]] = IF @ = t THEN None ELSE @]
    ELSE Goto(t, "dup2") /\ UNCHANGED fdlock

\* --refs_
Drop(t) ==
  /\ pc[t] = "drop"
  /\ Store(t, old[t] - 1)
  /\ IF old[t] = 1
       THEN Goto(t, "destroy") /\ UNCHANGED fdlock
       ELSE EndDeref(t)
  /\ UNCHANGED <<bbVars, closed, lock_, wq, fds, vnode_refs, freed, src,
                 threadVars, callVars>>

\* Mutant: the other end is not woken.
DestroyNoWake(t) ==
  /\ pc[t] = "destroy"
  /\ lock_ = None
  /\ closed' = closed \cup {file[t]}
  /\ vnode_refs' = vnode_refs - 1
  /\ freed' = (freed \/ vnode_refs = 1)
  /\ file' = [file EXCEPT ![t] = None]
  /\ EndDeref(t)
  /\ UNCHANGED <<bbVars, lock_, wq, fds, refs_, old, src, miscounted,
                 threadVars, callVars>>

\* file::~file
Destroy(t) ==
  /\ pc[t] = "destroy"
  /\ lock_ = None
  /\ closed' = closed \cup {file[t]}
  /\ wq' = [wq EXCEPT ![Other(file[t])] = {}]
  /\ vnode_refs' = vnode_refs - 1
  /\ freed' = (freed \/ vnode_refs = 1)
  /\ file' = [file EXCEPT ![t] = None]
  /\ EndDeref(t)
  /\ UNCHANGED <<bbVars, lock_, fds, refs_, old, src, miscounted,
                 threadVars, callVars>>

\* sys_close, and the loop of process_exit over the descriptors.
CloseFd(t, e) ==
  /\ pc[t] = "idle"
  /\ HasFd(t, e)
  /\ fdlock' = [fdlock EXCEPT ![proc[t]] = t]
  /\ fds' = [fds EXCEPT ![proc[t]][e] = @ - 1]
  /\ LockLoad(t, e, "drop")
  /\ UNCHANGED <<bbVars, closed, lock_, wq, refs_, vnode_refs, freed, src,
                 miscounted, threadVars, callVars>>

\* sys_dup2 from a descriptor of end e: newfd is free, or its file (x may be
\* e, and newfd may be oldfd itself) is dereferenced first.
Dup2(t, e) ==
  /\ pc[t] = "idle"
  /\ HasFd(t, e)
  /\ fdlock' = [fdlock EXCEPT ![proc[t]] = t]
  /\ src' = [src EXCEPT ![t] = e]
  /\ \/ /\ fds[proc[t]][e] < MaxFds
        /\ fds' = [fds EXCEPT ![proc[t]][e] = @ + 1]
        /\ Goto(t, "dup2")
        /\ UNCHANGED <<file, old>>
     \/ \E x \in End :
          /\ HasFd(t, x)
          /\ x # e => fds[proc[t]][e] < MaxFds
          /\ fds' = IF x = e THEN fds
                    ELSE [fds EXCEPT ![proc[t]][x] = @ - 1, ![proc[t]][e] = @ + 1]
          /\ LockLoad(t, x, "drop")
  /\ UNCHANGED <<bbVars, closed, lock_, wq, refs_, vnode_refs, freed,
                 miscounted, threadVars, callVars>>

EndDup2(t) ==
  /\ Goto(t, "idle")
  /\ src' = [src EXCEPT ![t] = None]
  /\ fdlock' = [fdlock EXCEPT ![proc[t]] = None]

\* refs_++ on the file of oldfd, without its lock_: the load ...
Dup2Load(t) ==
  /\ pc[t] = "dup2"
  /\ IF Destroyed(src[t])
       THEN /\ EndDup2(t)
            /\ miscounted' = TRUE
            /\ UNCHANGED <<file, old>>
       ELSE /\ Load(t, src[t], "dup2_store")
            /\ UNCHANGED <<src, fdlock, miscounted>>
  /\ UNCHANGED <<bbVars, closed, lock_, wq, fds, refs_, vnode_refs, freed,
                 threadVars, callVars>>

\* ... and the store.
Dup2Store(t) ==
  /\ pc[t] = "dup2_store"
  /\ Store(t, old[t] + 1)
  /\ EndDup2(t)
  /\ UNCHANGED <<bbVars, closed, lock_, wq, fds, vnode_refs, freed, threadVars,
                 callVars>>

\* process_fork copies descriptors up to the first gap in the table, with
\* the table locked, and counts each of them in the file and in the vnode.
Fork(t) ==
  /\ pc[t] = "idle"
  /\ fdlock[proc[t]] = None
  /\ miscounted => Sequel
  /\ \E u \in Process :
       /\ fdlock[u] = "unused"
       /\ fdlock' = [fdlock EXCEPT ![proc[t]] = t, ![u] = t]
  /\ Goto(t, "fork")
  /\ UNCHANGED <<bbVars, closed, lock_, wq, fds, refs_, vnode_refs, freed, file,
                 old, src, miscounted, threadVars, callVars>>

Child(t) == CHOOSE u \in Process : u # proc[t] /\ fdlock[u] = t

ForkFd(t, e) ==
  /\ pc[t] = "fork"
  /\ fds[Child(t)][e] < fds[proc[t]][e]
  /\ ~Destroyed(e)
  /\ vnode_refs < MaxVnodeRefs
  /\ LockLoad(t, e, "copied")
  /\ UNCHANGED <<bbVars, closed, lock_, wq, fdlock, fds, refs_, vnode_refs,
                 freed, src, miscounted, threadVars, callVars>>

ForkCount(t) ==
  /\ pc[t] = "copied"
  /\ Store(t, old[t] + 1)
  /\ fds' = [fds EXCEPT ![Child(t)][file[t]] = @ + 1]
  /\ vnode_refs' = vnode_refs + 1
  /\ Goto(t, "fork")
  /\ UNCHANGED <<bbVars, closed, lock_, wq, fdlock, freed, src, threadVars,
                 callVars>>

ForkDone(t) ==
  /\ pc[t] = "fork"
  /\ fdlock' = [fdlock EXCEPT ![proc[t]] = None, ![Child(t)] = None]
  /\ Goto(t, "idle")
  /\ UNCHANGED <<bbVars, closed, lock_, wq, fds, refs_, vnode_refs, freed, file,
                 old, src, miscounted, threadVars, callVars>>

\* process_exit marks a thread of the same process, and wakes it if it is
\* blocked.
Kill(t) ==
  /\ t \in Killable
  /\ ~exiting_[t]
  /\ fdlock[proc[t]] # "unused"
  /\ exiting_' = [exiting_ EXCEPT ![t] = TRUE]
  /\ wq' = [e \in End |-> wq[e] \ {t}]
  /\ UNCHANGED <<bbVars, closed, lock_, refVars, pc, proc, callVars>>

-----------------------------------------------------------------------------
\* sys_pipe
Init ==
  /\ buf_ = [j \in 0 .. N - 1 |-> Zero]
  /\ pos_ = 0
  /\ len_ = 0
  /\ closed = {}
  /\ lock_ = None
  /\ wq = [e \in End |-> {}]
  /\ proc \in [Thread -> Process]
  /\ \E t \in Thread : proc[t] = Root
  /\ fdlock = [u \in Process |-> IF u = Root THEN None ELSE "unused"]
  /\ fds = [u \in Process |-> [e \in End |-> IF u = Root THEN 1 ELSE 0]]
  /\ refs_ = [e \in End |-> 1]
  /\ vnode_refs = 2
  /\ freed = FALSE
  /\ pc = [t \in Thread |-> "idle"]
  /\ exiting_ = [t \in Thread |-> FALSE]
  /\ op = [t \in Thread |-> "r"]
  /\ data = [t \in Thread |-> <<>>]
  /\ sz = [t \in Thread |-> 0]
  /\ input_pos = [t \in Thread |-> 0]
  /\ result = [t \in Thread |-> "bytes"]
  /\ file = [t \in Thread |-> None]
  /\ old = [t \in Thread |-> 0]
  /\ src = [t \in Thread |-> None]
  /\ miscounted = FALSE

\* The steps of a call, once begun.
CallStep(t) ==
  \/ Count(t) \/ Lock(t) \/ Prepare(t) \/ Test(t) \/ Relock(t) \/ Check(t)
  \/ CopyOut(t) \/ CopyIn(t) \/ CopyDone(t) \/ Wake(t) \/ Deref(t)
  \/ Drop(t) \/ Destroy(t) \/ Dup2Load(t) \/ Dup2Store(t)
  \/ \E e \in End : ForkFd(t, e)
  \/ ForkCount(t) \/ ForkDone(t)

Next ==
  \E t \in Thread :
    \/ CallStep(t)
    \/ Begin(t) \/ Fork(t) \/ Kill(t)
    \/ \E e \in End : CloseFd(t, e) \/ Dup2(t, e)

Spec == Init /\ [][Next]_vars

\* The kernel keeps executing a thread that is not blocked, and a spinlock
\* that is free again and again is acquired.
FairSpec == Spec /\ \A t \in Thread : SF_vars(CallStep(t))

-----------------------------------------------------------------------------
(***************************************************************************)
(* Properties.                                                             *)
(***************************************************************************)
InCall(t) ==
  pc[t] \in {"count", "lock", "prepare", "test", "blocked", "check", "copy",
             "wake", "deref", "dead"}
Users(e) == {t \in Thread : InCall(t) /\ op[t] = e}

\* Every variable has its type.
TypeOK ==
  /\ buf_ \in [0 .. N - 1 -> Data]
  /\ pos_ \in 0 .. N - 1 /\ len_ \in 0 .. N
  /\ closed \subseteq End
  /\ lock_ \in Thread \cup {None}
  /\ wq \in [End -> SUBSET Thread]
  /\ proc \in [Thread -> Process]
  /\ fdlock \in [Process -> Thread \cup {None, "unused"}]
  /\ fds \in [Process -> [End -> Nat]] /\ refs_ \in [End -> Nat]
  /\ vnode_refs \in Nat /\ freed \in BOOLEAN
  /\ pc \in [Thread -> {"idle", "lock", "prepare", "test", "blocked", "check",
                        "copy", "wake", "deref", "destroy", "dead", "count",
                        "drop", "dup2", "dup2_store", "fork", "copied", "wild"}]
  /\ exiting_ \in [Thread -> BOOLEAN]
  /\ op \in [Thread -> End] /\ file \in [Thread -> End \cup {None}]
  /\ old \in [Thread -> Nat] /\ src \in [Thread -> End \cup {None}]
  /\ miscounted \in BOOLEAN
  /\ data \in [Thread -> Seq(Data)]
  /\ sz \in [Thread -> Nat] /\ input_pos \in [Thread -> Nat]
  /\ result \in [Thread -> {"busy", "bytes", "eof", "E_PIPE", "-1", "killed"}]

\* The buffer's contents, oldest byte first.
Contents == [i \in 1 .. len_ |-> buf_[(pos_ + i - 1) % N]]

\* The pipe is a bounded first-in first-out queue: the ring buffer's copying
\* loops lose, duplicate and reorder nothing, a read sees the end of file only
\* when everything was read, and no call ends with the unexpected -1.  The
\* files close only when unused as long as refs_ has not been miscounted.
Fifo == INSTANCE PipeFifo WITH queue <- Contents
FifoSpec == Fifo!Init /\ [][Fifo!Next \/ miscounted']_(Fifo!vars)

\* The assertions at the start of vnode_pipe::read and vnode_pipe::write
\* hold, nobody uses the buffer after it was deleted, and whoever locks a
\* descriptor table finds open files in it: calls and descriptors hold
\* references that keep the end open and the vnode alive, in every
\* interleaving of reads, writes, closes, forks and dup2s that loses no
\* change of refs_.
EndOpenInUse ==
  ~miscounted =>
    /\ \A t \in Thread : InCall(t) => op[t] \notin closed /\ ~freed
    /\ \A u \in Process, e \in End :
         fdlock[u] = None /\ fds[u][e] > 0 => e \notin closed /\ ~freed

\* What the lock_ of a file is there for: a descriptor refers to an open
\* file.  dup2 changes refs_ without the lock, and drops newfd first.
FdRefersToFile ==
  \A u \in Process, e \in End :
    fdlock[u] = None /\ fds[u][e] > 0 => e \notin closed

\* No reader sleeps on data or on the end of file, and no writer on free
\* space, unless the thread that is bound to wake it is on its way.
PipeNoLostWakeup ==
  \A t \in Thread :
    pc[t] = "blocked" /\ t \in wq[op[t]] /\ Ready(op[t])
      => \E u \in Thread : pc[u] \in {"copy", "wake"} /\ op[u] = Other(op[t])

\* No descriptor refers to end e, and no thread is about to drop it.
NoFds(e) ==
  /\ \A u \in Process : fds[u][e] = 0
  /\ \A t \in Thread : ~(pc[t] \in {"drop", "destroy"} /\ file[t] = e)

\* An end with no descriptor and no call is closed, so that the other end
\* gets its end of file or E_PIPE, unless a change of refs_ was lost.
UnusedEndClosed ==
  \A e \in End :
    ~miscounted /\ NoFds(e) /\ Users(e) = {} => e \in closed

\* The threads of an exited process use no end either.
ExitClosesEnd ==
  \A e \in End :
    ~miscounted /\ NoFds(e) /\ (\A t \in Users(e) : pc[t] = "dead")
      => e \in closed

\* A call returns if the other end is closed, or gets closed, unless its
\* thread is ended first.
HangupEndsCall ==
  \A t \in Thread :
    (InCall(t) /\ Other(op[t]) \in closed) ~> (~InCall(t) \/ pc[t] = "dead")

\* A blocked call goes on if it can.
ReadyCallProceeds ==
  \A t \in Thread :
    (pc[t] = "blocked" /\ Ready(op[t])) ~> (pc[t] # "blocked" \/ ~Ready(op[t]))
=============================================================================

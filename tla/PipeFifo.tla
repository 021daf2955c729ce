------------------------------ MODULE PipeFifo ------------------------------
(***************************************************************************)
(* What a pipe promises to the threads that read and write it: a bounded   *)
(* first-in first-out queue of bytes with two ends that close for good.  A *)
(* read returns the oldest bytes, in order, each once; it reports the end  *)
(* of file only when the write end is closed and every byte was read.  A   *)
(* write that reports E_PIPE has added nothing.                            *)
(***************************************************************************)
EXTENDS Integers, Sequences

CONSTANTS Thread, N, Data, Calls

VARIABLES
  queue,      \* the bytes in the pipe, oldest first
  closed,     \* which of the ends "r" and "w" are closed
  op,         \* the end that a thread uses
  result,     \* "busy", or how the thread's latest call ended
  data,       \* the caller's buffer
  sz,         \* its size
  input_pos   \* how much of it has been transferred

vars == <<queue, closed, op, result, data, sz, input_pos>>

Init ==
  /\ queue = <<>>
  /\ closed = {}
  /\ op = [t \in Thread |-> "r"]
  /\ result = [t \in Thread |-> "bytes"]
  /\ data = [t \in Thread |-> <<>>]
  /\ sz = [t \in Thread |-> 0]
  /\ input_pos = [t \in Thread |-> 0]

Begin(t) ==
  /\ result[t] # "busy"
  /\ \E call \in Calls :
       /\ call.op \notin closed
       /\ op' = [op EXCEPT ![t] = call.op]
       /\ data' = [data EXCEPT ![t] = call.data]
       /\ sz' = [sz EXCEPT ![t] = call.sz]
  /\ result' = [result EXCEPT ![t] = "busy"]
  /\ input_pos' = [input_pos EXCEPT ![t] = 0]
  /\ UNCHANGED <<queue, closed>>

\* Some bytes of a write enter the pipe.
Put(t) ==
  /\ result[t] = "busy" /\ op[t] = "w"
  /\ closed = {}
  /\ \E k \in 1 .. sz[t] - input_pos[t] :
       /\ Len(queue) + k <= N
       /\ queue' = queue \o SubSeq(data[t], input_pos[t] + 1, input_pos[t] + k)
       /\ input_pos' = [input_pos EXCEPT ![t] = @ + k]
  /\ UNCHANGED <<closed, op, result, data, sz>>

\* A read takes some bytes out of the pipe.
Get(t) ==
  /\ result[t] = "busy" /\ op[t] = "r"
  /\ "r" \notin closed
  /\ \E k \in 1 .. sz[t] - input_pos[t] :
       /\ k <= Len(queue)
       /\ queue' = SubSeq(queue, k + 1, Len(queue))
       /\ data' = [data EXCEPT ![t] = @ \o SubSeq(queue, 1, k)]
       /\ input_pos' = [input_pos EXCEPT ![t] = @ + k]
  /\ UNCHANGED <<closed, op, result, sz>>

\* A call returns; its buffer is the caller's again.
Return(t) ==
  /\ result[t] = "busy"
  /\ \/ /\ input_pos[t] > 0
        /\ result' = [result EXCEPT ![t] = "bytes"]
     \/ /\ op[t] = "r" /\ "w" \in closed /\ queue = <<>> /\ input_pos[t] = 0
        /\ result' = [result EXCEPT ![t] = "eof"]
     \/ /\ op[t] = "w" /\ "r" \in closed /\ input_pos[t] = 0
        /\ result' = [result EXCEPT ![t] = "E_PIPE"]
     \/ result' = [result EXCEPT ![t] = "killed"]
  /\ data' = [data EXCEPT ![t] = <<>>]
  /\ sz' = [sz EXCEPT ![t] = 0]
  /\ input_pos' = [input_pos EXCEPT ![t] = 0]
  /\ UNCHANGED <<queue, closed, op>>

\* An end closes when nobody uses it any more.
Close(e) ==
  /\ \A t \in Thread : ~(result[t] = "busy" /\ op[t] = e)
  /\ closed' = closed \cup {e}
  /\ UNCHANGED <<queue, op, result, data, sz, input_pos>>

Next ==
  \/ \E t \in Thread : Begin(t) \/ Put(t) \/ Get(t) \/ Return(t)
  \/ \E e \in {"r", "w"} : Close(e)

Spec == Init /\ [][Next]_vars
=============================================================================

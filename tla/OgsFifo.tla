------------------------------ MODULE OgsFifo -------------------------------
(***************************************************************************)
(* What a queue shared by threads promises, whatever its inside looks like:*)
(* a call that succeeds takes effect at one moment between its start and   *)
(* its return, values leave in the order in which they entered, there are  *)
(* never more than Bounds of them, and a call that fails has no effect.    *)
(***************************************************************************)
EXTENDS Integers, Sequences

CONSTANTS Thread, Value, NoValue, Bounds

VARIABLES items,    \* the values in the queue, oldest first
          status    \* what each thread's call has come to

fifoVars == <<items, status>>

Idle == [at |-> "idle", op |-> "pop", val |-> NoValue]

FifoInit == items = <<>> /\ status = [t \in Thread |-> Idle]

Call(t) ==
  /\ status[t].at = "idle"
  /\ \E op \in {"push", "pop"}, v \in Value \cup {NoValue} :
       /\ op = "push" <=> v \in Value
       /\ status' = [status EXCEPT ![t] = [at |-> "called", op |-> op,
                                           val |-> v]]
  /\ UNCHANGED items

\* A call made too late fails at once.
Refuse(t) ==
  /\ status[t].at = "idle"
  /\ \E op \in {"push", "pop"}, v \in Value \cup {NoValue} :
       /\ op = "push" <=> v \in Value
       /\ status' = [status EXCEPT ![t] = [at |-> "failed", op |-> op,
                                           val |-> v]]
  /\ UNCHANGED items

Enqueue(t) ==
  /\ status[t].at = "called" /\ status[t].op = "push"
  /\ Len(items) < Bounds
  /\ items' = Append(items, status[t].val)
  /\ status' = [status EXCEPT ![t] = [at |-> "done", op |-> "push",
                                      val |-> status[t].val]]

Dequeue(t) ==
  /\ status[t].at = "called" /\ status[t].op = "pop"
  /\ items # <<>>
  /\ items' = Tail(items)
  /\ status' = [status EXCEPT ![t] = [at |-> "done", op |-> "pop",
                                      val |-> Head(items)]]

Fail(t) ==
  /\ status[t].at = "called"
  /\ status' = [status EXCEPT ![t] = [at |-> "failed", op |-> status[t].op,
                                      val |-> status[t].val]]
  /\ UNCHANGED items

Return(t) ==
  /\ status[t].at \in {"done", "failed"}
  /\ status' = [status EXCEPT ![t] = Idle]
  /\ UNCHANGED items

FifoNext == \E t \in Thread : \/ Call(t) \/ Refuse(t) \/ Enqueue(t)
                              \/ Dequeue(t) \/ Fail(t) \/ Return(t)

FifoSpec == FifoInit /\ [][FifoNext]_fifoVars
=============================================================================

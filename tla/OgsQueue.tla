------------------------------ MODULE OgsQueue ------------------------------
(***************************************************************************)
(* The queue between threads (lib/core/ogs-queue.c): a ring buffer, one    *)
(* mutex, a condition for each direction and a count of those who wait.    *)
(* What runs under the mutex is one step; the two looks at the terminated  *)
(* flag without it, the sleep in a condition and the resumption after it   *)
(* are steps of their own.  queue_push and queue_pop differ in what blocks *)
(* them and in what they move, and are described once, by the operation.   *)
(***************************************************************************)
EXTENDS Integers, FiniteSets, Sequences

CONSTANTS Thread,       \* the threads that use the queue
          Value,        \* what they put into it
          NoValue,      \* what a popper has before it has a value
          Bounds        \* the capacity

ASSUME QueueAssumption == /\ IsFiniteSet(Thread)
                          /\ Bounds \in Nat \ {0}
                          /\ NoValue \notin Value

VARIABLES
  data, in, out, nelts,   \* the ring
  waiters,                \* waiters.push is full_waiters, .pop empty_waiters
  term,                   \* how far the terminating thread has come
  call                    \* the call each thread is in

queueVars == <<data, in, out, nelts, waiters, term, call>>
ring == <<data, in, out, nelts>>

Op == {"push", "pop"}
Mode == {"try", "timed", "wait"}    \* timeout 0, positive, infinite

\* idle: in no call.  enter: saw the queue running, wants the mutex.
\* waiting: asleep in the condition.  woken: wants the mutex back.
\* intr: woke up for nothing, has yet to look why.  returned: see ret.
Pc == {"idle", "enter", "waiting", "woken", "intr", "returned"}
Ret == {"OK", "RETRY", "TIMEUP", "DONE", "ERROR"}
QueueCall == [pc : Pc, op : Op, mode : Mode, val : Value \cup {NoValue},
              ret : Ret]

NoCall == [pc |-> "idle", op |-> "pop", mode |-> "try", val |-> NoValue,
           ret |-> "OK"]

\* Call c moved on to p; call c returned with result r and value v.
Moved(c, p) == [pc |-> p, op |-> c.op, mode |-> c.mode, val |-> c.val,
                ret |-> c.ret]
Returned(c, r, v) == [pc |-> "returned", op |-> c.op, mode |-> c.mode,
                      val |-> v, ret |-> r]

\* queue->terminated: set in the first step of ogs_queue_term, for ever.
terminated == term # "running"

Slot == 0 .. Bounds - 1

QueueInit ==
  /\ data = [s \in Slot |-> NoValue]
  /\ in = 0 /\ out = 0 /\ nelts = 0
  /\ waiters = [o \in Op |-> 0]
  /\ term = "running"
  /\ call = [t \in Thread |-> NoCall]

\* ogs_queue_full and ogs_queue_empty.
Blocked(op) == IF op = "push" THEN nelts = Bounds ELSE nelts = 0
Other(op) == IF op = "push" THEN "pop" ELSE "push"

\* Threads asleep in the condition of op, and those it has let go.
Asleep(op) == {t \in Thread : call[t].pc = "waiting" /\ call[t].op = op}
Woken(op)  == {t \in Thread : call[t].pc = "woken" /\ call[t].op = op}

\* Mutant: the index is set back one slot too late.
Advance_OffByOne(i) == IF i + 1 > Bounds THEN i + 1 - Bounds ELSE i + 1

Advance(i) == IF i + 1 >= Bounds THEN i + 1 - Bounds ELSE i + 1

-----------------------------------------------------------------------------
(* The steps of queue_push and queue_pop. *)

\* The first look at the flag, without the mutex.
queue_call(t, op, mode, v) ==
  /\ call[t].pc = "idle"
  /\ op = "push" <=> v \in Value
  /\ call' = [call EXCEPT ![t] =
       [pc |-> IF terminated THEN "returned" ELSE "enter",
        op |-> op, mode |-> mode, val |-> v, ret |-> "DONE"]]
  /\ UNCHANGED <<ring, waiters, term>>

\* Mutant: the flag is not looked at again before the thread goes to sleep.
queue_wait_Unchecked(t) ==
  /\ call[t].pc = "enter"
  /\ Blocked(call[t].op)
  /\ call[t].mode # "try"
  /\ waiters' = [waiters EXCEPT ![call[t].op] = @ + 1]
  /\ call' = [call EXCEPT ![t] = Moved(@, "waiting")]
  /\ UNCHANGED <<ring, term>>

\* Full or empty: count the thread in and sleep.
queue_wait(t) ==
  /\ call[t].pc = "enter"
  /\ Blocked(call[t].op)
  /\ call[t].mode # "try" /\ ~terminated
  /\ waiters' = [waiters EXCEPT ![call[t].op] = @ + 1]
  /\ call' = [call EXCEPT ![t] = Moved(@, "waiting")]
  /\ UNCHANGED <<ring, term>>

\* Full or empty, and no time to wait or nothing to wait for.
queue_no_wait(t) ==
  /\ call[t].pc = "enter"
  /\ Blocked(call[t].op)
  /\ \/ /\ call[t].mode = "try"
        /\ call' = [call EXCEPT ![t] = Returned(@, "RETRY", @.val)]
     \/ /\ call[t].mode # "try" /\ terminated
        /\ call' = [call EXCEPT ![t] = Moved(@, "intr")]
  /\ UNCHANGED <<ring, waiters, term>>

\* Mutant: a thread whose time is up stays counted.
queue_timeup_KeepCount(t) ==
  /\ call[t].pc = "waiting"
  /\ call[t].mode = "timed"
  /\ call' = [call EXCEPT ![t] = Returned(@, "TIMEUP", @.val)]
  /\ UNCHANGED <<ring, waiters, term>>

\* The timed wait runs out: ogs_thread_cond_timedwait returns OGS_TIMEUP.
queue_timeup(t) ==
  /\ call[t].pc = "waiting"
  /\ call[t].mode = "timed"
  /\ waiters' = [waiters EXCEPT ![call[t].op] = @ - 1]
  /\ call' = [call EXCEPT ![t] = Returned(@, "TIMEUP", @.val)]
  /\ UNCHANGED <<ring, term>>

\* Awake, and full or empty again: not once more around the loop.
queue_resume_blocked(t) ==
  /\ call[t].pc = "woken"
  /\ Blocked(call[t].op)
  /\ waiters' = [waiters EXCEPT ![call[t].op] = @ - 1]
  /\ call' = [call EXCEPT ![t] = Moved(@, "intr")]
  /\ UNCHANGED <<ring, term>>

\* The second look at the flag, after the mutex was released.
queue_interrupted(t) ==
  /\ call[t].pc = "intr"
  /\ call' = [call EXCEPT ![t] =
                 Returned(@, IF terminated THEN "DONE" ELSE "ERROR", @.val)]
  /\ UNCHANGED <<ring, waiters, term>>

\* Mutant: the queue signals only when it stops being empty or full.
AfterSignal_OnEdge(op, c) ==
  LET sleepers == {t \in Thread : c[t].pc = "waiting" /\ c[t].op = op}
  IN  IF waiters[op] = 0 \/ sleepers = {} \/ ~Blocked(op)
      THEN {c}
      ELSE {[c EXCEPT ![t] = Moved(@, "woken")] : t \in sleepers}

\* ogs_thread_cond_signal, given only when somebody is counted: some sleeper
\* of op wakes, if there is one left.  c is the calls before it.
AfterSignal(op, c) ==
  LET sleepers == {t \in Thread : c[t].pc = "waiting" /\ c[t].op = op}
  IN  IF waiters[op] = 0 \/ sleepers = {}
      THEN {c}
      ELSE {[c EXCEPT ![t] = Moved(@, "woken")] : t \in sleepers}

\* Mutant: a thread that was woken does not look at the queue again.
Admitted_NoRecheck(t) ==
  /\ \/ call[t].pc = "enter" /\ ~Blocked(call[t].op)
     \/ call[t].pc = "woken"
  /\ waiters' = IF call[t].pc = "woken"
                THEN [waiters EXCEPT ![call[t].op] = @ - 1]
                ELSE waiters

\* The thread is past the checks; after a sleep it is counted out.
Admitted(t) ==
  /\ call[t].pc \in {"enter", "woken"}
  /\ ~Blocked(call[t].op)
  /\ waiters' = IF call[t].pc = "woken"
                THEN [waiters EXCEPT ![call[t].op] = @ - 1]
                ELSE waiters

\* The end of queue_push.
queue_insert(t) ==
  /\ Admitted(t)
  /\ call[t].op = "push"
  /\ data' = [data EXCEPT ![in] = call[t].val]
  /\ in' = Advance(in)
  /\ nelts' = nelts + 1
  /\ call' \in AfterSignal("pop",
                 [call EXCEPT ![t] = Returned(@, "OK", @.val)])
  /\ UNCHANGED <<out, term>>

\* The end of queue_pop.
queue_remove(t) ==
  /\ Admitted(t)
  /\ call[t].op = "pop"
  /\ nelts' = nelts - 1
  /\ out' = Advance(out)
  /\ call' \in AfterSignal("push",
                 [call EXCEPT ![t] = Returned(@, "OK", data[out])])
  /\ UNCHANGED <<data, in, term>>

\* The caller takes the result.
queue_return(t) ==
  /\ call[t].pc = "returned"
  /\ call' = [call EXCEPT ![t] = NoCall]
  /\ UNCHANGED <<ring, waiters, term>>

\* A thread moves on inside its call.
queue_step(t) == \/ queue_wait(t) \/ queue_no_wait(t) \/ queue_timeup(t)
                 \/ queue_resume_blocked(t) \/ queue_interrupted(t)
                 \/ queue_insert(t) \/ queue_remove(t)

\* What a thread with the processor does next in its call (it cannot sleep
\* or wake by its own doing, nor let its time run out).
queue_runs(t) == \/ queue_wait(t) \/ queue_no_wait(t)
                 \/ queue_resume_blocked(t) \/ queue_interrupted(t)
                 \/ queue_insert(t) \/ queue_remove(t)

\* pthread_cond_wait may return without a signal.
spurious_wake(t) ==
  /\ call[t].pc = "waiting"
  /\ call' = [call EXCEPT ![t] = Moved(@, "woken")]
  /\ UNCHANGED <<ring, waiters, term>>

-----------------------------------------------------------------------------
(* The terminating thread. *)

\* ogs_queue_term: the flag is set under the mutex ...
ogs_queue_term ==
  /\ term = "running"
  /\ term' = "set"
  /\ UNCHANGED <<ring, waiters, call>>

\* ... and then ogs_queue_interrupt_all wakes everybody who sleeps.
ogs_queue_interrupt_all ==
  /\ term = "set"
  /\ term' = "interrupted"
  /\ call' = [t \in Thread |-> IF call[t].pc = "waiting"
                               THEN Moved(call[t], "woken")
                               ELSE call[t]]
  /\ UNCHANGED <<ring, waiters>>

-----------------------------------------------------------------------------
(* Properties. *)

\* The kinds of value of the queue's variables.
QueueTypeOK ==
  /\ data \in [Slot -> Value \cup {NoValue}]
  /\ in \in Slot /\ out \in Slot /\ nelts \in 0 .. Bounds
  /\ waiters \in [Op -> Nat]
  /\ term \in {"running", "set", "interrupted", "notified"}
  /\ call \in [Thread -> QueueCall]

\* full_waiters and empty_waiters count the threads that queue_push and
\* queue_pop have in a condition or on the way out of it: every way out, by
\* signal, time or interruption, counts the thread out once.
WaitersCounted ==
  \A op \in Op : waiters[op] = Cardinality(Asleep(op) \cup Woken(op))

\* No lost wake-up: while a thread sleeps in not_empty (not_full), each value
\* (each free slot) in the queue has a woken thread on its way to it, however
\* many calls overtake that thread between the signal and its resumption.
Available(op) == IF op = "push" THEN Bounds - nelts ELSE nelts
NoLostWakeup ==
  \A op \in Op : Asleep(op) # {} => Available(op) <= Cardinality(Woken(op))

\* After ogs_queue_term nobody sleeps in the queue, and nobody goes to sleep
\* again: the race its comment is about (the flag is set just after a
\* would-be popper checked it).
TermWakesAll == term \in {"interrupted", "notified"} =>
                  \A op \in Op : Asleep(op) = {}

\* The values in the ring, oldest first.
At(k) == IF out + k < Bounds THEN out + k ELSE out + k - Bounds
Contents == [k \in 1 .. nelts |-> data[At(k - 1)]]

\* A call as its caller sees it.
StatusOf(t) ==
  [at  |-> IF call[t].pc = "idle" THEN "idle"
           ELSE IF call[t].pc # "returned" THEN "called"
           ELSE IF call[t].ret = "OK" THEN "done" ELSE "failed",
   op  |-> call[t].op,
   val |-> call[t].val]

Fifo == INSTANCE OgsFifo WITH items <- Contents,
                              status <- [t \in Thread |-> StatusOf(t)]

\* queue_push and queue_pop implement a bounded first-in first-out queue whose
\* calls take effect at one moment or not at all.
ImplementsFifo == Fifo!FifoSpec
=============================================================================

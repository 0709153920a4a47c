----------------------------- MODULE EventLoop ------------------------------
(***************************************************************************)
(* The main loop every network function runs (smf_main and its siblings):  *)
(* poll, run what the poll and the timers call, empty the event queue, and *)
(* again.  Events come from the loop itself (socket and timer callbacks,   *)
(* handlers) and from other threads, which notify the poll after a push;   *)
(* the thread that shuts the process down terminates the queue.            *)
(***************************************************************************)
EXTENDS OgsQueue

CONSTANTS Loop,         \* the thread of the main loop
          UserCalls,    \* the calls <<op, mode, value>> each other thread makes
          LoopEvents,   \* the events the loop pushes itself
          Spurious      \* condition variables may wake for no reason

ASSUME LoopAssumption == /\ Loop \in Thread
                         /\ UserCalls \in [Thread \ {Loop} ->
                              SUBSET (Op \X Mode \X (Value \cup {NoValue}))]
                         /\ LoopEvents \subseteq Value
                         /\ Spurious \in BOOLEAN

VARIABLES
  loop,       \* where the main loop is
  notified    \* the poll set's eventfd is not zero

vars == <<queueVars, loop, notified>>

LoopState == {"poll", "callbacks", "drain", "handle", "done", "aborted"}
User == Thread \ {Loop}

Init == QueueInit /\ loop = "poll" /\ notified = FALSE

-----------------------------------------------------------------------------
(* The main loop. *)

\* ogs_pollset_poll returns for the eventfd, which ogs_drain_pollset empties.
poll_notified ==
  /\ loop = "poll" /\ notified
  /\ loop' = "callbacks"
  /\ notified' = FALSE
  /\ UNCHANGED queueVars

\* ogs_pollset_poll returns for a socket or for the next timer.
poll_other ==
  /\ loop = "poll" /\ ~notified
  /\ loop' = "callbacks"
  /\ UNCHANGED <<queueVars, notified>>

\* A callback or a handler pushes an event to the loop's own queue.
loop_push(v) ==
  /\ loop \in {"callbacks", "handle"}
  /\ queue_call(Loop, "push", "wait", v)
  /\ UNCHANGED <<loop, notified>>

\* ... and goes on, whether or not the queue took it.
loop_pushed ==
  /\ loop \in {"callbacks", "handle"}
  /\ queue_return(Loop)
  /\ UNCHANGED <<loop, notified>>

\* Mutant: one event for each round of the loop.
loop_pop_Once ==
  \/ /\ loop = "callbacks"
     /\ queue_call(Loop, "pop", "try", NoValue)
     /\ loop' = "drain"
     /\ UNCHANGED notified
  \/ /\ loop = "handle" /\ call[Loop].pc = "idle"
     /\ loop' = "poll"
     /\ UNCHANGED <<queueVars, notified>>

\* The callbacks, or the handler of the last event, are done: ogs_queue_trypop.
loop_pop ==
  /\ loop \in {"callbacks", "handle"}
  /\ queue_call(Loop, "pop", "try", NoValue)
  /\ loop' = "drain"
  /\ UNCHANGED notified

\* The loop dispatches an event, ends when there are no more, polls again, and
\* asserts that there is no other result.
AfterPop == [OK |-> "handle", DONE |-> "done", RETRY |-> "poll",
             ERROR |-> "aborted", TIMEUP |-> "aborted"]

loop_popped ==
  /\ loop = "drain"
  /\ queue_return(Loop)
  /\ loop' = AfterPop[call[Loop].ret]
  /\ UNCHANGED notified

-----------------------------------------------------------------------------
(* The other threads. *)

user_call(t) ==
  /\ \E c \in UserCalls[t] : queue_call(t, c[1], c[2], c[3])
  /\ UNCHANGED <<loop, notified>>

\* Mutant: only the first event in the queue is announced.
user_return_NoNotify(t) ==
  /\ queue_return(t)
  /\ notified' = (notified \/ (call[t].op = "push" /\ call[t].ret = "OK"
                               /\ nelts = 1))
  /\ UNCHANGED loop

\* A push that succeeded is followed by ogs_pollset_notify; the event of one
\* that failed is freed.
user_return(t) ==
  /\ queue_return(t)
  /\ notified' = (notified \/ (call[t].op = "push" /\ call[t].ret = "OK"))
  /\ UNCHANGED loop

\* Mutant: the poll is not told of the termination.
term_notify_Silent ==
  /\ term = "interrupted"
  /\ term' = "notified"
  /\ UNCHANGED <<ring, waiters, call, loop, notified>>

\* event_termination: ogs_queue_term, then ogs_pollset_notify.
term_notify ==
  /\ term = "interrupted"
  /\ term' = "notified"
  /\ notified' = TRUE
  /\ UNCHANGED <<ring, waiters, call, loop>>

terminate == /\ ogs_queue_term
             /\ UNCHANGED <<loop, notified>>
interrupt == /\ ogs_queue_interrupt_all
             /\ UNCHANGED <<loop, notified>>

step(t) == queue_step(t) /\ UNCHANGED <<loop, notified>>
runs(t) == queue_runs(t) /\ UNCHANGED <<loop, notified>>
spurious(t) == Spurious /\ spurious_wake(t) /\ UNCHANGED <<loop, notified>>

Next == \/ poll_notified \/ poll_other
        \/ \E v \in LoopEvents : loop_push(v)
        \/ loop_pushed \/ loop_pop \/ loop_popped
        \/ \E t \in User : user_call(t) \/ user_return(t)
        \/ \E t \in Thread : step(t) \/ spurious(t)
        \/ terminate \/ interrupt \/ term_notify

Spec == Init /\ [][Next]_vars

\* The scheduler runs every thread that can run, and the callbacks of a round
\* and the handler of an event come to an end.  Nothing has to be pushed,
\* popped or terminated, and no time limit has to expire.
FairSpec ==
  /\ Spec
  /\ WF_vars(poll_notified)
  /\ SF_vars(loop_pop)
  /\ WF_vars(loop_popped) /\ WF_vars(loop_pushed)
  /\ \A t \in Thread : WF_vars(runs(t))
  /\ \A t \in User : WF_vars(user_return(t))
  /\ WF_vars(interrupt) /\ WF_vars(term_notify)

-----------------------------------------------------------------------------
(* Properties. *)

\* The kinds of value of the variables: in and out stay inside the ring.
TypeOK == /\ QueueTypeOK
          /\ loop \in LoopState
          /\ notified \in BOOLEAN

\* The loop blocks in the push to its own queue, which only it empties.
SelfBlocked == Loop \in Asleep("push")

\* Announced(t): a push of t succeeded and its notification is still to come.
Announced(t) == /\ call[t].pc = "returned"
                /\ call[t].op = "push" /\ call[t].ret = "OK"

\* The loop does not sleep in ogs_pollset_poll on an event: an event that
\* came after ogs_queue_trypop found the queue empty has set the eventfd, or
\* its thread is about to.
NoMissedEvent ==
  loop = "poll" /\ nelts > 0 => notified \/ \E t \in User : Announced(t)

\* A full queue is drained, whoever filled it, unless the loop itself blocks
\* in it: then nobody is left to pop.
FullQueueDrains ==
  nelts = Bounds ~> nelts < Bounds \/ SelfBlocked \/ terminated

\* Once event_termination has begun, the main loop ends, wherever it is then:
\* in the poll, in a handler or blocked in its own queue.
ShutdownCompletes == terminated ~> loop = "done"
=============================================================================

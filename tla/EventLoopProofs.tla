-------------------------- MODULE EventLoopProofs ---------------------------
(***************************************************************************)
(* The queue and the main loop, for any number of threads, values and any  *)
(* capacity: the waiter counts are exact, no wake-up and no event is lost, *)
(* and the ring buffer is a first-in first-out queue.                      *)
(***************************************************************************)
EXTENDS EventLoop, TLAPS, FiniteSetTheorems, SequenceTheorems

\* The ring: the next empty slot is nelts slots after the first filled one.
RingOK == in = At(nelts)

\* What the conditions guarantee, for one of them.
Counted(op) == waiters[op] = Cardinality(Asleep(op) \cup Woken(op))
Covered(op) == Asleep(op) # {} => Available(op) <= Cardinality(Woken(op))

\* The inductive invariant of the queue.
QueueInv == /\ QueueTypeOK
            /\ RingOK
            /\ WaitersCounted
            /\ NoLostWakeup
            /\ TermWakesAll

-----------------------------------------------------------------------------
(* Facts about sets of threads. *)

\* Sets of threads are finite.
LEMMA ThreadsFinite ==
  ASSUME NEW op \in Op
  PROVE  /\ IsFiniteSet(Asleep(op)) /\ IsFiniteSet(Woken(op))
         /\ IsFiniteSet(Asleep(op) \cup Woken(op))
         /\ Cardinality(Asleep(op)) \in Nat
         /\ Cardinality(Woken(op)) \in Nat
         /\ Cardinality(Asleep(op) \cup Woken(op)) \in Nat
<1>1. /\ Asleep(op) \in SUBSET Thread
      /\ Woken(op) \in SUBSET Thread
      /\ Asleep(op) \cup Woken(op) \in SUBSET Thread
  BY DEF Asleep, Woken
<1>2. /\ IsFiniteSet(Asleep(op)) /\ IsFiniteSet(Woken(op))
      /\ IsFiniteSet(Asleep(op) \cup Woken(op))
  BY <1>1, FS_Subset, QueueAssumption
<1>. QED
  BY <1>2, FS_CardinalityType

\* A thread that is counted makes the count positive.
LEMMA CountPositive ==
  ASSUME QueueInv, NEW t \in Thread, call[t].pc \in {"waiting", "woken"}
  PROVE  /\ call[t].op \in Op
         /\ waiters[call[t].op] \in Nat
         /\ waiters[call[t].op] >= 1
<1>1. call[t].op \in Op /\ call[t] \in QueueCall
  BY DEF QueueInv, QueueTypeOK, QueueCall
<1>2. t \in Asleep(call[t].op) \cup Woken(call[t].op)
  BY <1>1 DEF Asleep, Woken
<1>3. Cardinality(Asleep(call[t].op) \cup Woken(call[t].op)) # 0
  BY <1>1, <1>2, ThreadsFinite, FS_EmptySet
<1>4. waiters[call[t].op] = Cardinality(Asleep(call[t].op) \cup Woken(call[t].op))
  BY <1>1 DEF QueueInv, WaitersCounted
<1>. QED
  BY <1>1, <1>3, <1>4, ThreadsFinite

\* Nobody enters, leaves or changes places in the conditions.
SameWaits ==
  \A u \in Thread :
    /\ call'[u].pc = "waiting" /\ call'[u].op = "push" <=>
         call[u].pc = "waiting" /\ call[u].op = "push"
    /\ call'[u].pc = "waiting" /\ call'[u].op = "pop" <=>
         call[u].pc = "waiting" /\ call[u].op = "pop"
    /\ call'[u].pc = "woken" /\ call'[u].op = "push" <=>
         call[u].pc = "woken" /\ call[u].op = "push"
    /\ call'[u].pc = "woken" /\ call'[u].op = "pop" <=>
         call[u].pc = "woken" /\ call[u].op = "pop"

\* A step that leaves the conditions and the ring alone keeps the counts.
LEMMA WaitsKept ==
  ASSUME QueueInv, SameWaits, ring' = ring, waiters' = waiters,
         \/ term' = term
         \/ term' = "set"
         \/ term = "interrupted" /\ term' = "notified"
  PROVE  RingOK' /\ WaitersCounted' /\ NoLostWakeup' /\ TermWakesAll'
<1>1. ASSUME NEW op \in Op
      PROVE  Asleep(op)' = Asleep(op) /\ Woken(op)' = Woken(op)
  BY <1>1 DEF SameWaits, Asleep, Woken, Op
<1>2. RingOK'
  BY DEF QueueInv, RingOK, At, ring
<1>3. WaitersCounted'
  <2>. SUFFICES ASSUME NEW op \in Op PROVE Counted(op)'
    BY DEF WaitersCounted, Counted
  <2>. QED
    BY <1>1 DEF QueueInv, WaitersCounted, Counted
<1>4. NoLostWakeup'
  <2>. SUFFICES ASSUME NEW op \in Op PROVE Covered(op)'
    BY DEF NoLostWakeup, Covered
  <2>1. Available(op)' = Available(op)
    BY DEF Available, ring
  <2>. QED
    BY <1>1, <2>1 DEF QueueInv, NoLostWakeup, Covered
<1>5. TermWakesAll'
  BY <1>1 DEF QueueInv, TermWakesAll
<1>. QED
  BY <1>2, <1>3, <1>4, <1>5

-----------------------------------------------------------------------------
(* The steps of a call preserve QueueInv. *)

\* A call that moves on or returns is still a call.
LEMMA CallType ==
  ASSUME NEW c \in QueueCall, NEW p \in Pc, NEW r \in Ret,
         NEW v \in Value \cup {NoValue}
  PROVE  Moved(c, p) \in QueueCall /\ Returned(c, r, v) \in QueueCall
  BY DEF QueueCall, Moved, Returned, Pc

\* A call begins.
LEMMA CallInv ==
  ASSUME QueueInv, NEW t \in Thread, NEW op \in Op, NEW mode \in Mode,
         NEW v \in Value \cup {NoValue}, queue_call(t, op, mode, v)
  PROVE  QueueInv'
<1>1. call \in [Thread -> QueueCall]
  BY DEF QueueInv, QueueTypeOK
<1>2. call'[t] \in QueueCall /\ call'[t].pc \in {"enter", "returned"}
  BY <1>1 DEF queue_call, QueueCall, Pc, Ret
<1>3. QueueTypeOK'
  BY <1>1, <1>2 DEF QueueInv, QueueTypeOK, queue_call, ring
<1>4. SameWaits
  BY <1>1, <1>2 DEF SameWaits, queue_call
<1>5. ring' = ring /\ waiters' = waiters /\ term' = term
  BY DEF queue_call
<1>6. RingOK' /\ WaitersCounted' /\ NoLostWakeup' /\ TermWakesAll'
  BY <1>4, <1>5, WaitsKept
<1>. QED
  BY <1>3, <1>6 DEF QueueInv

\* A call fails, or its caller takes the result: no thread moves in a
\* condition.
LEMMA OutsideInv ==
  ASSUME QueueInv, NEW t \in Thread,
         queue_no_wait(t) \/ queue_interrupted(t) \/ queue_return(t)
  PROVE  QueueInv'
<1>1. call \in [Thread -> QueueCall]
  BY DEF QueueInv, QueueTypeOK
<1>2. /\ call[t].pc \in {"enter", "intr", "returned"}
      /\ call'[t] \in QueueCall
      /\ call'[t].pc \in {"intr", "returned", "idle"}
      /\ call' = [call EXCEPT ![t] = call'[t]]
  <2>1. CASE queue_no_wait(t)
    BY <1>1, <2>1 DEF queue_no_wait, Moved, Returned, QueueCall, Pc, Ret
  <2>2. CASE queue_interrupted(t)
    BY <1>1, <2>2 DEF queue_interrupted, Returned, QueueCall, Pc, Ret
  <2>3. CASE queue_return(t)
    BY <1>1, <2>3 DEF queue_return, QueueCall, NoCall, Pc, Ret, Op, Mode
  <2>. QED
    BY <2>1, <2>2, <2>3
<1>3. ring' = ring /\ waiters' = waiters /\ term' = term
  BY DEF queue_no_wait, queue_interrupted, queue_return
<1>4. QueueTypeOK'
  BY <1>1, <1>2, <1>3 DEF QueueInv, QueueTypeOK, ring
<1>5. SameWaits
  BY <1>1, <1>2 DEF SameWaits
<1>6. RingOK' /\ WaitersCounted' /\ NoLostWakeup' /\ TermWakesAll'
  BY <1>3, <1>5, WaitsKept
<1>. QED
  BY <1>4, <1>6 DEF QueueInv

\* A thread goes to sleep: there was nothing for it, so nothing is missed.
LEMMA WaitInv ==
  ASSUME QueueInv, NEW t \in Thread, queue_wait(t)
  PROVE  QueueInv'
<1>. DEFINE o == call[t].op
<1>1. call \in [Thread -> QueueCall] /\ o \in Op /\ waiters \in [Op -> Nat]
  BY DEF QueueInv, QueueTypeOK, QueueCall
<1>2. QueueTypeOK'
  <2>1. call' \in [Thread -> QueueCall]
    BY <1>1, CallType DEF QueueInv, queue_wait, Moved, QueueCall, Pc
  <2>. QED
    BY <1>1, <2>1 DEF QueueInv, QueueTypeOK, queue_wait, ring
<1>3. t \notin Asleep(o) \cup Woken(o)
  BY DEF Asleep, Woken, Moved, queue_wait
<1>4. ASSUME NEW op \in Op
      PROVE  /\ Asleep(op)' = IF op = o THEN Asleep(op) \cup {t} ELSE Asleep(op)
             /\ Woken(op)' = Woken(op)
  BY <1>1 DEF Asleep, Woken, Moved, queue_wait
<1>5. WaitersCounted'
  <2>. SUFFICES ASSUME NEW op \in Op PROVE Counted(op)'
    BY DEF WaitersCounted, Counted
  <2>1. Counted(op)
    BY DEF QueueInv, WaitersCounted, Counted
  <2>2. CASE op # o
    BY <1>1, <1>4, <2>1, <2>2 DEF Counted, queue_wait
  <2>3. CASE op = o
    <3>1. (Asleep(op) \cup Woken(op))' = (Asleep(op) \cup Woken(op)) \cup {t}
      BY <1>4, <2>3
    <3>2. Cardinality(Asleep(op) \cup Woken(op))'
            = Cardinality(Asleep(op) \cup Woken(op)) + 1
      BY <3>1, <1>3, <2>3, ThreadsFinite, FS_AddElement
    <3>. QED
      BY <1>1, <2>1, <2>3, <3>2 DEF Counted, queue_wait
  <2>. QED
    BY <2>2, <2>3
<1>6. NoLostWakeup'
  <2>. SUFFICES ASSUME NEW op \in Op PROVE Covered(op)'
    BY DEF NoLostWakeup, Covered
  <2>1. Covered(op) /\ Available(op)' = Available(op)
    BY DEF QueueInv, NoLostWakeup, Covered, Available, queue_wait, ring
  <2>2. CASE op # o
    BY <1>4, <2>1, <2>2 DEF Covered
  <2>3. CASE op = o
    <3>1. Available(op) = 0
      BY <2>3, QueueAssumption DEF queue_wait, Blocked, Available
    <3>. QED
      BY <1>4, <2>1, <3>1, ThreadsFinite DEF Covered
  <2>. QED
    BY <2>2, <2>3
<1>7. RingOK' /\ TermWakesAll'
  BY DEF QueueInv, RingOK, At, TermWakesAll, terminated, queue_wait, ring
<1>. QED
  BY <1>2, <1>5, <1>6, <1>7 DEF QueueInv

\* A thread leaves a condition with nothing: its time is up, or it finds the
\* queue full or empty again.
LEMMA LeaveInv ==
  ASSUME QueueInv, NEW t \in Thread,
         queue_timeup(t) \/ queue_resume_blocked(t)
  PROVE  QueueInv'
<1>. DEFINE o == call[t].op
<1>1. call \in [Thread -> QueueCall] /\ o \in Op /\ waiters \in [Op -> Nat]
  BY DEF QueueInv, QueueTypeOK, QueueCall
<1>2. /\ waiters[o] >= 1
      /\ waiters' = [waiters EXCEPT ![o] = @ - 1]
      /\ UNCHANGED <<ring, term>>
  BY CountPositive DEF queue_timeup, queue_resume_blocked
<1>3. QueueTypeOK'
  <2>1. call' \in [Thread -> QueueCall]
    BY <1>1 DEF QueueCall, Moved, Returned, queue_timeup,
       queue_resume_blocked, Pc, Ret
  <2>. QED
    BY <1>1, <1>2, <2>1 DEF QueueInv, QueueTypeOK, ring
<1>4. t \in Asleep(o) \cup Woken(o)
  BY <1>1 DEF Asleep, Woken, Moved, Returned, queue_timeup,
       queue_resume_blocked
<1>5. ASSUME NEW op \in Op
      PROVE  /\ Asleep(op)' = IF op = o THEN Asleep(op) \ {t} ELSE Asleep(op)
             /\ Woken(op)' = IF op = o THEN Woken(op) \ {t} ELSE Woken(op)
  BY <1>1 DEF Asleep, Woken, Moved, Returned, queue_timeup,
       queue_resume_blocked
<1>6. WaitersCounted'
  <2>. SUFFICES ASSUME NEW op \in Op PROVE Counted(op)'
    BY DEF WaitersCounted, Counted
  <2>1. Counted(op)
    BY DEF QueueInv, WaitersCounted, Counted
  <2>2. CASE op # o
    BY <1>1, <1>2, <1>5, <2>1, <2>2 DEF Counted
  <2>3. CASE op = o
    <3>1. (Asleep(op) \cup Woken(op))' = (Asleep(op) \cup Woken(op)) \ {t}
      BY <1>5, <2>3
    <3>2. Cardinality(Asleep(op) \cup Woken(op))'
            = Cardinality(Asleep(op) \cup Woken(op)) - 1
      BY <3>1, <1>4, <2>3, ThreadsFinite, FS_RemoveElement
    <3>. QED
      BY <1>1, <1>2, <2>1, <2>3, <3>2 DEF Counted
  <2>. QED
    BY <2>2, <2>3
<1>7. NoLostWakeup'
  <2>. SUFFICES ASSUME NEW op \in Op PROVE Covered(op)'
    BY DEF NoLostWakeup, Covered
  <2>1. Covered(op) /\ Available(op)' = Available(op)
    BY <1>2 DEF QueueInv, NoLostWakeup, Covered, Available, ring
  <2>2. CASE op # o
    BY <1>5, <2>1, <2>2 DEF Covered
  <2>3. CASE op = o /\ queue_timeup(t)
    <3>1. Woken(op)' = Woken(op)
      BY <1>5, <2>3 DEF Woken, Returned, queue_timeup
    <3>. QED
      BY <1>5, <2>1, <2>3, <3>1 DEF Covered
  <2>4. CASE op = o /\ queue_resume_blocked(t)
    <3>1. Available(op) = 0
      BY <2>4, QueueAssumption DEF queue_resume_blocked, Blocked, Available
    <3>2. Cardinality(Woken(op) \ {t}) \in Nat
      BY ThreadsFinite, FS_RemoveElement, FS_CardinalityType
    <3>. QED
      BY <1>5, <2>1, <2>4, <3>1, <3>2 DEF Covered
  <2>. QED
    BY <2>2, <2>3, <2>4
<1>8. RingOK' /\ TermWakesAll'
  <2>1. RingOK'
    BY <1>2 DEF QueueInv, RingOK, At, ring
  <2>2. TermWakesAll'
    BY <1>2, <1>5 DEF QueueInv, TermWakesAll
  <2>. QED
    BY <2>1, <2>2
<1>. QED
  BY <1>3, <1>6, <1>7, <1>8 DEF QueueInv

\* Everybody who sleeps is woken, or one thread is for no reason.
LEMMA WakeInv ==
  ASSUME QueueInv, NEW S \in SUBSET Thread,
         \A u \in S : call[u].pc = "waiting",
         call' = [u \in Thread |-> IF u \in S THEN Moved(call[u], "woken")
                                              ELSE call[u]],
         UNCHANGED <<ring, waiters>>,
         \/ term' = term
         \/ term' = "interrupted" /\ S = {u \in Thread : call[u].pc = "waiting"}
  PROVE  QueueInv'
<1>1. call \in [Thread -> QueueCall]
  BY DEF QueueInv, QueueTypeOK
<1>2. QueueTypeOK'
  <2>1. call' \in [Thread -> QueueCall]
    BY <1>1 DEF Moved, QueueCall, Pc
  <2>. QED
    BY <2>1 DEF QueueInv, QueueTypeOK, ring
<1>3. ASSUME NEW op \in Op
      PROVE  /\ Asleep(op)' = Asleep(op) \ S
             /\ (Asleep(op) \cup Woken(op))' = Asleep(op) \cup Woken(op)
             /\ Woken(op) \in SUBSET (Woken(op)')
             /\ IsFiniteSet(Woken(op)')
  <2>1. /\ Asleep(op)' = Asleep(op) \ S
        /\ (Asleep(op) \cup Woken(op))' = Asleep(op) \cup Woken(op)
        /\ Woken(op) \in SUBSET (Woken(op)')
        /\ Woken(op)' \in SUBSET Thread
    BY <1>1 DEF Asleep, Woken, Moved
  <2>. QED
    BY <2>1, FS_Subset, QueueAssumption
<1>4. WaitersCounted'
  <2>. SUFFICES ASSUME NEW op \in Op PROVE Counted(op)'
    BY DEF WaitersCounted, Counted
  <2>. QED
    BY <1>3 DEF QueueInv, WaitersCounted, Counted
<1>5. NoLostWakeup'
  <2>. SUFFICES ASSUME NEW op \in Op PROVE Covered(op)'
    BY DEF NoLostWakeup, Covered
  <2>1. Covered(op) /\ Available(op)' = Available(op)
    BY DEF QueueInv, NoLostWakeup, Covered, Available, ring
  <2>2. Available(op) \in Int
    BY QueueAssumption DEF QueueInv, QueueTypeOK, Available
  <2>3. /\ Cardinality(Woken(op)) <= Cardinality(Woken(op)')
        /\ Cardinality(Woken(op)) \in Nat /\ Cardinality(Woken(op)') \in Nat
    BY <1>3, FS_Subset, FS_CardinalityType
  <2>. QED
    BY <1>3, <2>1, <2>2, <2>3 DEF Covered
<1>6. RingOK'
  BY DEF QueueInv, RingOK, At, ring
<1>7. TermWakesAll'
  <2>1. CASE term' = term
    BY <1>3, <2>1 DEF QueueInv, TermWakesAll
  <2>2. CASE S = {u \in Thread : call[u].pc = "waiting"}
    BY <1>3, <2>2 DEF TermWakesAll, Asleep
  <2>. QED
    BY <2>1, <2>2
<1>. QED
  BY <1>2, <1>4, <1>5, <1>6, <1>7 DEF QueueInv

\* What a signal to the sleepers of op makes of the calls c.
LEMMA Signalled ==
  ASSUME NEW op \in Op, NEW c \in [Thread -> QueueCall],
         NEW d \in AfterSignal(op, c)
  PROVE  LET sleepers == {u \in Thread : c[u].pc = "waiting" /\ c[u].op = op}
         IN  \/ d = c /\ (waiters[op] = 0 \/ sleepers = {})
             \/ \E s \in sleepers : d = [c EXCEPT ![s] = Moved(@, "woken")]
  BY DEF AfterSignal

\* The queue moves a value: a thread leaves with it, and one sleeper of the
\* other direction is woken if there is one.
LEMMA TransferWaits ==
  ASSUME QueueInv, NEW t \in Thread, Admitted(t),
         NEW o \in Op, NEW x \in Op, o = call[t].op, x = Other(o),
         NEW v \in Value \cup {NoValue},
         nelts' = IF o = "push" THEN nelts + 1 ELSE nelts - 1,
         call' \in AfterSignal(x, [call EXCEPT ![t] = Returned(@, "OK", v)]),
         UNCHANGED term
  PROVE  /\ call' \in [Thread -> QueueCall] /\ waiters' \in [Op -> Nat]
         /\ WaitersCounted' /\ NoLostWakeup' /\ TermWakesAll'
<1>. DEFINE c == [call EXCEPT ![t] = Returned(@, "OK", v)]
            sleepers == {u \in Thread : c[u].pc = "waiting" /\ c[u].op = x}
<1>1. /\ call \in [Thread -> QueueCall] /\ x # o
      /\ waiters \in [Op -> Nat] /\ nelts \in 0 .. Bounds
      /\ \A op \in Op : op = o \/ op = x
  BY DEF QueueInv, QueueTypeOK, QueueCall, Other, Op
<1>2. c \in [Thread -> QueueCall]
  BY <1>1 DEF QueueCall, Returned, Pc, Ret
<1>3. sleepers = Asleep(x)
  BY <1>1 DEF Asleep, Returned, Admitted
<1>4. \/ call' = c /\ (waiters[x] = 0 \/ Asleep(x) = {})
      \/ \E s \in Asleep(x) : call' = [c EXCEPT ![s] = Moved(@, "woken")]
  <2>1. call' \in AfterSignal(x, c)
    OBVIOUS
  <2>. HIDE DEF c
  <2>. QED
    BY <1>2, <1>3, <2>1, Signalled
<1>5. waiters[x] = 0 => Asleep(x) = {}
  <2>1. waiters[x] = Cardinality(Asleep(x) \cup Woken(x))
    BY <1>1 DEF QueueInv, WaitersCounted
  <2>. QED
    BY <1>1, <2>1, ThreadsFinite, FS_EmptySet
<1>6. /\ waiters' \in [Op -> Nat]
      /\ waiters'[x] = waiters[x]
      /\ waiters'[o] = IF call[t].pc = "woken" THEN waiters[o] - 1
                                                ELSE waiters[o]
  BY <1>1, CountPositive DEF Admitted
<1>7. call' \in [Thread -> QueueCall]
  BY <1>2, <1>4 DEF Moved, QueueCall, Pc
<1>8. /\ Asleep(o)' = Asleep(o)
      /\ Woken(o)' = Woken(o) \ {t}
      /\ t \notin Asleep(o)
      /\ t \in Woken(o) <=> call[t].pc = "woken"
      /\ t \notin Asleep(x) \cup Woken(x)
  BY <1>1, <1>4 DEF Asleep, Woken, Moved, Returned, Admitted
<1>9. \/ /\ Asleep(x) = {}
         /\ Asleep(x)' = {} /\ Woken(x)' = Woken(x)
      \/ \E s \in Asleep(x) : /\ Asleep(x)' = Asleep(x) \ {s}
                               /\ Woken(x)' = Woken(x) \cup {s}
                               /\ s \notin Woken(x)
  <2>1. CASE call' = c /\ Asleep(x) = {}
    BY <1>1, <2>1 DEF Asleep, Woken, Returned, Admitted
  <2>2. ASSUME NEW s \in Asleep(x), call' = [c EXCEPT ![s] = Moved(@, "woken")]
        PROVE  /\ Asleep(x)' = Asleep(x) \ {s}
               /\ Woken(x)' = Woken(x) \cup {s}
               /\ s \notin Woken(x)
    BY <1>1, <2>2 DEF Asleep, Woken, Moved, Returned, Admitted
  <2>. QED
    BY <1>4, <1>5, <2>1, <2>2
<1>10. Counted(o)' /\ Covered(o)'
  <2>1. Counted(o) /\ Covered(o)
    BY <1>1 DEF QueueInv, WaitersCounted, NoLostWakeup, Counted, Covered
  <2>2. (Asleep(o) \cup Woken(o))' = (Asleep(o) \cup Woken(o)) \ {t}
    BY <1>8
  <2>3. Cardinality(Asleep(o) \cup Woken(o))'
          = IF call[t].pc = "woken" THEN Cardinality(Asleep(o) \cup Woken(o)) - 1
                                    ELSE Cardinality(Asleep(o) \cup Woken(o))
    <3>1. IsFiniteSet(Asleep(o) \cup Woken(o))
      BY ThreadsFinite
    <3>2. Cardinality((Asleep(o) \cup Woken(o)) \ {t})
            = IF t \in Asleep(o) \cup Woken(o)
              THEN Cardinality(Asleep(o) \cup Woken(o)) - 1
              ELSE Cardinality(Asleep(o) \cup Woken(o))
      BY <3>1, FS_RemoveElement
    <3>. QED
      BY <1>8, <2>2, <3>2
  <2>4. Cardinality(Woken(o))'
          = IF call[t].pc = "woken" THEN Cardinality(Woken(o)) - 1
                                    ELSE Cardinality(Woken(o))
    <3>1. IsFiniteSet(Woken(o))
      BY ThreadsFinite
    <3>2. Cardinality(Woken(o) \ {t})
            = IF t \in Woken(o) THEN Cardinality(Woken(o)) - 1
                                ELSE Cardinality(Woken(o))
      BY <3>1, FS_RemoveElement
    <3>. QED
      BY <1>8, <3>2
  <2>5. Available(o)' = Available(o) - 1 /\ Available(o) \in Int
    BY <1>1, QueueAssumption DEF Available, Op
  <2>6. Counted(o)'
    BY <1>6, <2>1, <2>3 DEF Counted
  <2>7. Covered(o)'
    <3>1. Cardinality(Woken(o)) \in Nat
      BY ThreadsFinite
    <3>. QED
      BY <1>8, <2>1, <2>4, <2>5, <3>1 DEF Covered
  <2>. QED
    BY <2>6, <2>7
<1>11. Counted(x)' /\ Covered(x)'
  <2>1. Counted(x) /\ Covered(x)
    BY <1>1 DEF QueueInv, WaitersCounted, NoLostWakeup, Counted, Covered
  <2>2. (Asleep(x) \cup Woken(x))' = Asleep(x) \cup Woken(x)
    BY <1>9
  <2>3. Counted(x)'
    BY <1>6, <2>1, <2>2 DEF Counted
  <2>4. Available(x)' = Available(x) + 1 /\ Available(x) \in Int
    BY <1>1, QueueAssumption DEF Available, Op, Other
  <2>5. ASSUME NEW s \in Asleep(x), Woken(x)' = Woken(x) \cup {s},
               s \notin Woken(x)
        PROVE  Covered(x)'
    <3>1. IsFiniteSet(Woken(x)) /\ Cardinality(Woken(x)) \in Nat
      BY ThreadsFinite
    <3>2. Cardinality(Woken(x) \cup {s}) = Cardinality(Woken(x)) + 1
      BY <2>5, <3>1, FS_AddElement
    <3>3. Available(x) <= Cardinality(Woken(x))
      BY <2>1, <2>5 DEF Covered
    <3>. QED
      BY <2>4, <2>5, <3>1, <3>2, <3>3 DEF Covered
  <2>6. Covered(x)'
    BY <1>9, <2>5 DEF Covered
  <2>. QED
    BY <2>3, <2>6
<1>12. TermWakesAll'
  <2>1. Asleep(o)' \subseteq Asleep(o) /\ Asleep(x)' \subseteq Asleep(x)
    BY <1>8, <1>9
  <2>. QED
    BY <1>1, <2>1 DEF QueueInv, TermWakesAll
<1>13. WaitersCounted' /\ NoLostWakeup'
  BY <1>1, <1>10, <1>11 DEF WaitersCounted, NoLostWakeup, Counted, Covered
<1>. QED
  BY <1>6, <1>7, <1>12, <1>13

\* queue_push ends: the value is in the next empty slot.
LEMMA InsertInv ==
  ASSUME QueueInv, NEW t \in Thread, queue_insert(t)
  PROVE  QueueInv'
<1>1. /\ call[t].op = "push" /\ Other("push") = "pop"
      /\ call[t].val \in Value \cup {NoValue}
      /\ "push" \in Op /\ "pop" \in Op
  BY DEF QueueInv, QueueTypeOK, QueueCall, queue_insert, Other, Op
<1>2. /\ call' \in [Thread -> QueueCall] /\ waiters' \in [Op -> Nat]
      /\ WaitersCounted' /\ NoLostWakeup' /\ TermWakesAll'
  BY <1>1, TransferWaits DEF queue_insert
<1>3. nelts \in 0 .. Bounds - 1
  BY <1>1, QueueAssumption DEF QueueInv, QueueTypeOK, queue_insert, Admitted, Blocked
<1>4. RingOK'
  BY <1>3, QueueAssumption
     DEF QueueInv, QueueTypeOK, RingOK, At, Advance, Slot, queue_insert
<1>5. QueueTypeOK'
  <2>1. in' \in Slot /\ nelts' \in 0 .. Bounds
    BY <1>3, QueueAssumption
       DEF QueueInv, QueueTypeOK, Advance, Slot, queue_insert
  <2>2. data' \in [Slot -> Value \cup {NoValue}]
    BY <1>1 DEF QueueInv, QueueTypeOK, queue_insert
  <2>. QED
    BY <1>2, <2>1, <2>2 DEF QueueInv, QueueTypeOK, queue_insert
<1>. QED
  BY <1>2, <1>4, <1>5 DEF QueueInv

\* queue_pop ends: the first filled slot is given up.
LEMMA RemoveInv ==
  ASSUME QueueInv, NEW t \in Thread, queue_remove(t)
  PROVE  QueueInv'
<1>1. /\ call[t].op = "pop" /\ Other("pop") = "push"
      /\ data[out] \in Value \cup {NoValue}
      /\ "push" \in Op /\ "pop" \in Op
  BY DEF QueueInv, QueueTypeOK, queue_remove, Other, Op
<1>2. /\ call' \in [Thread -> QueueCall] /\ waiters' \in [Op -> Nat]
      /\ WaitersCounted' /\ NoLostWakeup' /\ TermWakesAll'
  BY <1>1, TransferWaits DEF queue_remove
<1>3. nelts \in 1 .. Bounds
  BY <1>1, QueueAssumption
     DEF QueueInv, QueueTypeOK, queue_remove, Admitted, Blocked
<1>4. RingOK'
  BY <1>3, QueueAssumption
     DEF QueueInv, QueueTypeOK, RingOK, At, Advance, Slot, queue_remove
<1>5. QueueTypeOK'
  <2>1. out' \in Slot /\ nelts' \in 0 .. Bounds
    BY <1>3, QueueAssumption
       DEF QueueInv, QueueTypeOK, Advance, Slot, queue_remove
  <2>. QED
    BY <1>2, <2>1 DEF QueueInv, QueueTypeOK, queue_remove
<1>. QED
  BY <1>2, <1>4, <1>5 DEF QueueInv

\* What a step inside a call leaves alone: the operation and the mode of every
\* call, the calls that are not running, and results that are there already.
LEMMA StepKeepsCall ==
  ASSUME QueueTypeOK, NEW t \in Thread, queue_step(t) \/ spurious_wake(t),
         NEW u \in Thread
  PROVE  /\ call'[u].op = call[u].op /\ call'[u].mode = call[u].mode
         /\ call[u].pc \in {"idle", "returned"} => call'[u] = call[u]
<1>1. call \in [Thread -> QueueCall]
  BY DEF QueueTypeOK
<1>2. CASE queue_wait(t) \/ queue_no_wait(t) \/ queue_timeup(t)
  BY <1>1, <1>2 DEF queue_wait, queue_no_wait, queue_timeup, Moved, Returned
<1>3. CASE queue_resume_blocked(t) \/ queue_interrupted(t) \/ spurious_wake(t)
  BY <1>1, <1>3 DEF queue_resume_blocked, queue_interrupted, spurious_wake,
     Moved, Returned
<1>4. ASSUME NEW x \in Op, NEW v \in Value \cup {NoValue},
             call[t].pc \in {"enter", "woken"},
             call' \in AfterSignal(x, [call EXCEPT ![t] = Returned(@, "OK", v)])
      PROVE  /\ call'[u].op = call[u].op /\ call'[u].mode = call[u].mode
             /\ call[u].pc \in {"idle", "returned"} => call'[u] = call[u]
  <2>. DEFINE c == [call EXCEPT ![t] = Returned(@, "OK", v)]
  <2>1. c \in [Thread -> QueueCall]
    BY <1>1 DEF QueueCall, Returned, Pc, Ret
  <2>2. /\ c[u].op = call[u].op /\ c[u].mode = call[u].mode
        /\ call[u].pc \in {"idle", "returned"} => c[u] = call[u]
    BY <1>1, <1>4 DEF Returned
  <2>3. call' \in AfterSignal(x, c)
    BY <1>4
  <2>4. \/ call' = c
        \/ \E s \in {w \in Thread : c[w].pc = "waiting" /\ c[w].op = x} :
             call' = [c EXCEPT ![s] = Moved(@, "woken")]
    <3>. HIDE DEF c
    <3>. QED
      BY <2>1, <2>3, Signalled
  <2>. HIDE DEF c
  <2>. QED
    BY <2>1, <2>2, <2>4 DEF Moved
<1>5. CASE queue_insert(t) \/ queue_remove(t)
  <2>1. call[t].val \in Value \cup {NoValue} /\ data[out] \in Value \cup {NoValue}
    BY <1>1 DEF QueueTypeOK, QueueCall
  <2>. QED
    BY <1>4, <1>5, <2>1 DEF queue_insert, queue_remove, Admitted, Op
<1>. QED
  BY <1>2, <1>3, <1>5 DEF queue_step

\* A push or a pop that ends returns OK, and a signal returns nobody.
LEMMA TransferReturns ==
  ASSUME QueueTypeOK, NEW t \in Thread, NEW x \in Op,
         NEW v \in Value \cup {NoValue}, call[t].pc \in {"enter", "woken"},
         call' \in AfterSignal(x, [call EXCEPT ![t] = Returned(@, "OK", v)])
  PROVE  /\ call'[t].pc = "returned" /\ call'[t].ret = "OK" /\ call'[t].val = v
         /\ call'[t].op = call[t].op
         /\ \A u \in Thread : u # t /\ call'[u].pc = "returned" =>
              call'[u] = call[u]
         /\ \A u \in Thread : u # t /\ call'[u] # call[u] =>
              call[u].pc = "waiting" /\ call'[u] = Moved(call[u], "woken")
<1>. DEFINE c == [call EXCEPT ![t] = Returned(@, "OK", v)]
<1>1. call \in [Thread -> QueueCall]
  BY DEF QueueTypeOK
<1>2. c \in [Thread -> QueueCall] /\ c[t] = Returned(call[t], "OK", v)
      /\ \A u \in Thread : u # t => c[u] = call[u]
  BY <1>1 DEF QueueCall, Returned, Pc, Ret
<1>3. call' \in AfterSignal(x, c)
  OBVIOUS
<1>. HIDE DEF c
<1>4. \/ call' = c
      \/ \E s \in {w \in Thread : c[w].pc = "waiting" /\ c[w].op = x} :
           call' = [c EXCEPT ![s] = Moved(@, "woken")]
  BY <1>2, <1>3, Signalled
<1>. QED
  BY <1>2, <1>4 DEF Moved, Returned

\* The two ends of a call.
LEMMA InsertReturns ==
  ASSUME QueueTypeOK, NEW t \in Thread, queue_insert(t)
  PROVE  call'[t].pc = "returned" /\ call'[t].ret = "OK"
<1>1. call[t].val \in Value \cup {NoValue}
  BY DEF QueueTypeOK, QueueCall
<1>. QED
  BY <1>1, TransferReturns DEF queue_insert, Admitted, Op

LEMMA RemoveReturns ==
  ASSUME QueueTypeOK, NEW t \in Thread, queue_remove(t)
  PROVE  call'[t].pc = "returned" /\ call'[t].ret = "OK"
<1>1. data[out] \in Value \cup {NoValue}
  BY DEF QueueTypeOK
<1>. QED
  BY <1>1, TransferReturns DEF queue_remove, Admitted, Op

\* No step of one thread makes another thread's call return.
LEMMA OtherReturns ==
  ASSUME QueueTypeOK, NEW t \in Thread, queue_step(t) \/ spurious_wake(t),
         NEW u \in Thread, u # t, call'[u].pc = "returned"
  PROVE  call'[u] = call[u]
<1>1. call \in [Thread -> QueueCall]
  BY DEF QueueTypeOK
<1>2. call[t].val \in Value \cup {NoValue} /\ data[out] \in Value \cup {NoValue}
  BY <1>1 DEF QueueTypeOK, QueueCall
<1>3. CASE queue_insert(t)
  BY <1>2, <1>3, TransferReturns DEF queue_insert, Admitted, Op
<1>4. CASE queue_remove(t)
  BY <1>2, <1>4, TransferReturns DEF queue_remove, Admitted, Op
<1>5. CASE ~queue_insert(t) /\ ~queue_remove(t)
  BY <1>1, <1>5 DEF queue_step, queue_wait, queue_no_wait, queue_timeup,
     queue_resume_blocked, queue_interrupted, spurious_wake
<1>. QED
  BY <1>3, <1>4, <1>5

\* Any step of a thread inside its call.
LEMMA StepInv ==
  ASSUME QueueInv, NEW t \in Thread, queue_step(t)
  PROVE  QueueInv'
  BY WaitInv, OutsideInv, LeaveInv, InsertInv, RemoveInv DEF queue_step

\* A condition variable wakes a thread for no reason.
LEMMA SpuriousInv ==
  ASSUME QueueInv, NEW t \in Thread, spurious_wake(t)
  PROVE  QueueInv'
<1>1. call \in [Thread -> QueueCall]
  BY DEF QueueInv, QueueTypeOK
<1>2. call' = [u \in Thread |-> IF u \in {t} THEN Moved(call[u], "woken")
                                             ELSE call[u]]
  BY <1>1 DEF spurious_wake
<1>3. UNCHANGED <<ring, waiters>> /\ term' = term /\ call[t].pc = "waiting"
  BY DEF spurious_wake
<1>4. {t} \in SUBSET Thread
  OBVIOUS
<1>. QED
  BY <1>2, <1>3, <1>4, WakeInv

\* The steps of the thread that terminates the queue.
LEMMA TermInv ==
  ASSUME QueueInv,
         \/ ogs_queue_term \/ ogs_queue_interrupt_all
         \/ term_notify
  PROVE  QueueInv'
<1>1. CASE ogs_queue_term \/ term_notify
  <2>1. ring' = ring /\ waiters' = waiters /\ call' = call
    BY <1>1 DEF ogs_queue_term, term_notify
  <2>2. SameWaits
    BY <2>1 DEF SameWaits
  <2>3. term' = "set" \/ (term = "interrupted" /\ term' = "notified")
    BY <1>1 DEF ogs_queue_term, term_notify
  <2>4. RingOK' /\ WaitersCounted' /\ NoLostWakeup' /\ TermWakesAll'
    BY <2>1, <2>2, <2>3, WaitsKept
  <2>5. QueueTypeOK'
    BY <2>1, <2>3 DEF QueueInv, QueueTypeOK, ring
  <2>. QED
    BY <2>4, <2>5 DEF QueueInv
<1>2. CASE ogs_queue_interrupt_all
  <2>. DEFINE S == {u \in Thread : call[u].pc = "waiting"}
  <2>1. call' = [u \in Thread |-> IF u \in S THEN Moved(call[u], "woken")
                                             ELSE call[u]]
    BY <1>2 DEF ogs_queue_interrupt_all
  <2>2. UNCHANGED <<ring, waiters>> /\ term' = "interrupted"
    BY <1>2 DEF ogs_queue_interrupt_all
  <2>3. S \in SUBSET Thread /\ \A u \in S : call[u].pc = "waiting"
    OBVIOUS
  <2>4. S = {u \in Thread : call[u].pc = "waiting"}
    OBVIOUS
  <2>. HIDE DEF S
  <2>. QED
    BY <2>1, <2>2, <2>3, <2>4, WakeInv
<1>. QED
  BY <1>1, <1>2

\* Steps that leave the queue alone.
LEMMA IdleInv ==
  ASSUME QueueInv, UNCHANGED queueVars
  PROVE  QueueInv'
<1>1. ring' = ring /\ waiters' = waiters /\ term' = term /\ call' = call
  BY DEF queueVars, ring
<1>2. SameWaits
  BY <1>1 DEF SameWaits
<1>3. RingOK' /\ WaitersCounted' /\ NoLostWakeup' /\ TermWakesAll'
  BY <1>1, <1>2, WaitsKept
<1>4. QueueTypeOK'
  BY <1>1 DEF QueueInv, QueueTypeOK, ring
<1>. QED
  BY <1>3, <1>4 DEF QueueInv

-----------------------------------------------------------------------------
(* The system. *)

\* Where the loop's own calls are: no call while it polls, and a pop that
\* does not wait while it drains.
LoopCalls ==
  /\ loop \in {"poll", "done", "aborted"} => call[Loop].pc = "idle"
  /\ loop = "drain" => call[Loop].op = "pop" /\ call[Loop].mode = "try"

\* The loop found the queue empty and has not looked since.
Leaving == \/ loop = "poll"
           \/ /\ loop = "drain" /\ call[Loop].pc = "returned"
              /\ call[Loop].ret = "RETRY"

\* NoMissedEvent, from the moment at which the loop found the queue empty.
EventsSeen == Leaving /\ nelts > 0 => notified \/ \E t \in User : Announced(t)

\* The inductive invariant of the system.
Inv == /\ QueueInv
       /\ loop \in LoopState /\ notified \in BOOLEAN
       /\ LoopCalls
       /\ EventsSeen

\* Init: the ring is empty and nobody is in a call.
LEMMA InitInv ==
  ASSUME Init
  PROVE  Inv
<1>1. \A op \in Op : Asleep(op) = {} /\ Woken(op) = {}
  BY DEF Init, QueueInit, NoCall, Asleep, Woken
<1>2. QueueTypeOK
  BY QueueAssumption DEF Init, QueueInit, QueueTypeOK, NoCall, QueueCall, Pc,
     Op, Mode, Ret, Slot
<1>3. RingOK
  BY QueueAssumption DEF Init, QueueInit, RingOK, At
<1>4. WaitersCounted
  BY <1>1, FS_EmptySet DEF Init, QueueInit, WaitersCounted
<1>5. NoLostWakeup /\ TermWakesAll
  BY <1>1 DEF NoLostWakeup, TermWakesAll
<1>6. LoopCalls /\ EventsSeen
  BY LoopAssumption DEF Init, QueueInit, NoCall, LoopCalls, EventsSeen
<1>. QED
  BY <1>2, <1>3, <1>4, <1>5, <1>6 DEF Init, Inv, QueueInv, LoopState

\* Every step preserves the queue's part of Inv.
LEMMA NextQueueInv ==
  ASSUME Inv, [Next]_vars
  PROVE  QueueInv'
<1>. USE DEF Inv
<1>1. CASE UNCHANGED vars
  BY <1>1, IdleInv DEF vars
<1>2. CASE poll_notified \/ poll_other
  BY <1>2, IdleInv DEF poll_notified, poll_other
<1>3. ASSUME NEW v \in LoopEvents, loop_push(v)
      PROVE  QueueInv'
  BY <1>3, CallInv, LoopAssumption DEF loop_push, Op, Mode
<1>4. CASE loop_pushed \/ loop_popped
  BY <1>4, OutsideInv, LoopAssumption DEF loop_pushed, loop_popped
<1>5. CASE loop_pop
  BY <1>5, CallInv, LoopAssumption DEF loop_pop, Op, Mode
<1>6. ASSUME NEW t \in User, user_call(t)
      PROVE  QueueInv'
  <2>1. PICK c \in UserCalls[t] : queue_call(t, c[1], c[2], c[3])
    BY <1>6 DEF user_call
  <2>2. c \in Op \X Mode \X (Value \cup {NoValue})
    BY LoopAssumption DEF User
  <2>3. /\ c[1] \in Op /\ c[2] \in Mode /\ c[3] \in Value \cup {NoValue}
        /\ t \in Thread
    BY <2>2 DEF User
  <2>. QED
    BY <2>1, <2>3, CallInv
<1>7. ASSUME NEW t \in User, user_return(t)
      PROVE  QueueInv'
  BY <1>7, OutsideInv DEF user_return, User
<1>8. ASSUME NEW t \in Thread, step(t) \/ spurious(t)
      PROVE  QueueInv'
  BY <1>8, StepInv, SpuriousInv DEF step, spurious
<1>9. CASE terminate \/ interrupt \/ term_notify
  BY <1>9, TermInv DEF terminate, interrupt
<1>. QED
  BY <1>1, <1>2, <1>3, <1>4, <1>5, <1>6, <1>7, <1>8, <1>9 DEF Next

\* Every step preserves the loop's part of Inv.
LEMMA NextLoopInv ==
  ASSUME Inv, [Next]_vars
  PROVE  loop' \in LoopState /\ notified' \in BOOLEAN /\ LoopCalls'
<1>0. /\ call \in [Thread -> QueueCall] /\ Loop \in Thread
      /\ LoopCalls /\ loop \in LoopState /\ notified \in BOOLEAN
  BY LoopAssumption DEF Inv, QueueInv, QueueTypeOK
<1>1. CASE UNCHANGED vars
  BY <1>0, <1>1 DEF vars, queueVars, LoopCalls
<1>2. CASE poll_notified \/ poll_other
  BY <1>0, <1>2 DEF poll_notified, poll_other, LoopCalls, LoopState, queueVars
<1>3. ASSUME NEW v \in LoopEvents, loop_push(v)
      PROVE  loop' \in LoopState /\ notified' \in BOOLEAN /\ LoopCalls'
  BY <1>0, <1>3 DEF loop_push, queue_call, LoopCalls
<1>4. CASE loop_pushed
  BY <1>0, <1>4 DEF loop_pushed, queue_return, LoopCalls
<1>5. CASE loop_popped
  <2>1. call[Loop].ret \in Ret
    BY <1>0 DEF QueueCall
  <2>2. loop' \in LoopState /\ loop' # "drain"
    BY <1>5, <2>1 DEF loop_popped, AfterPop, Ret, LoopState
  <2>. QED
    BY <1>0, <1>5, <2>2 DEF loop_popped, queue_return, NoCall, LoopCalls
<1>6. CASE loop_pop
  BY <1>0, <1>6 DEF loop_pop, queue_call, LoopCalls, LoopState
<1>7. ASSUME NEW t \in User, user_call(t) \/ user_return(t)
      PROVE  loop' \in LoopState /\ notified' \in BOOLEAN /\ LoopCalls'
  <2>1. call'[Loop] = call[Loop] /\ loop' = loop
    BY <1>0, <1>7 DEF user_call, user_return, queue_call, queue_return, User
  <2>2. notified' \in BOOLEAN
    BY <1>0, <1>7, Zenon DEF user_call, user_return
  <2>. QED
    BY <1>0, <2>1, <2>2 DEF LoopCalls
<1>8. ASSUME NEW t \in Thread, step(t) \/ spurious(t)
      PROVE  loop' \in LoopState /\ notified' \in BOOLEAN /\ LoopCalls'
  <2>1. /\ call'[Loop].op = call[Loop].op /\ call'[Loop].mode = call[Loop].mode
        /\ call[Loop].pc = "idle" => call'[Loop].pc = "idle"
    BY <1>0, <1>8, StepKeepsCall DEF step, spurious, Inv, QueueInv
  <2>. QED
    BY <1>0, <1>8, <2>1 DEF LoopCalls, step, spurious
<1>9. CASE terminate \/ interrupt \/ term_notify
  <2>1. /\ call'[Loop].op = call[Loop].op /\ call'[Loop].mode = call[Loop].mode
        /\ call[Loop].pc = "idle" => call'[Loop].pc = "idle"
    BY <1>0, <1>9 DEF terminate, interrupt, term_notify, ogs_queue_term,
       ogs_queue_interrupt_all, Moved
  <2>. QED
    BY <1>0, <1>9, <2>1 DEF LoopCalls, terminate, interrupt, term_notify
<1>. QED
  BY <1>1, <1>2, <1>3, <1>4, <1>5, <1>6, <1>7, <1>8, <1>9 DEF Next

\* A step of another thread inside its call: if it is a push that ends, it
\* announces the event.
LEMMA UserStepSeen ==
  ASSUME Inv, NEW t \in User, queue_step(t) \/ spurious_wake(t),
         UNCHANGED <<loop, notified>>
  PROVE  EventsSeen'
<1>0. /\ QueueTypeOK /\ call \in [Thread -> QueueCall] /\ nelts \in Nat
      /\ t \in Thread /\ Loop \in Thread /\ EventsSeen
  BY LoopAssumption DEF Inv, QueueInv, QueueTypeOK, User
<1>1. ASSUME Leaving'
      PROVE  Leaving
  <2>1. CASE loop = "poll"
    BY <2>1 DEF Leaving
  <2>2. CASE loop = "drain" /\ call'[Loop].pc = "returned"
             /\ call'[Loop].ret = "RETRY"
    <3>1. call'[Loop] = call[Loop]
      BY <1>0, <2>2, OtherReturns DEF User
    <3>. QED
      BY <2>2, <3>1 DEF Leaving
  <2>. QED
    BY <1>1, <2>1, <2>2 DEF Leaving
<1>2. ASSUME NEW u \in User, Announced(u)
      PROVE  Announced(u)'
  BY <1>0, <1>2, StepKeepsCall DEF Announced, User
<1>3. CASE nelts > 0
  BY <1>0, <1>1, <1>2, <1>3 DEF EventsSeen
<1>4. CASE nelts = 0 /\ ~queue_insert(t)
  <2>1. nelts' = 0
    BY <1>0, <1>4 DEF queue_step, queue_wait, queue_no_wait, queue_timeup,
       queue_resume_blocked, queue_interrupted, queue_remove, spurious_wake,
       Admitted, Blocked, ring
  <2>. QED
    BY <2>1 DEF EventsSeen
<1>5. CASE queue_insert(t)
  <2>1. call[t].op = "push" /\ call'[t].op = "push"
    BY <1>0, <1>5, StepKeepsCall DEF queue_insert
  <2>2. call'[t].pc = "returned" /\ call'[t].ret = "OK"
    BY <1>0, <1>5, InsertReturns
  <2>. QED
    BY <2>1, <2>2 DEF EventsSeen, Announced
<1>. QED
  BY <1>0, <1>3, <1>4, <1>5

\* A step of the loop inside its call: it finds the queue empty, or has not
\* finished looking.
LEMMA LoopStepSeen ==
  ASSUME Inv, queue_step(Loop) \/ spurious_wake(Loop), UNCHANGED <<loop, notified>>
  PROVE  EventsSeen'
<1>0. /\ QueueTypeOK /\ call \in [Thread -> QueueCall] /\ nelts \in Nat
      /\ Loop \in Thread /\ LoopCalls
  BY LoopAssumption DEF Inv, QueueInv, QueueTypeOK
<1>1. call[Loop].pc \notin {"idle", "returned"}
  BY <1>0 DEF queue_step, queue_wait, queue_no_wait, queue_timeup,
     queue_resume_blocked, queue_interrupted, queue_insert, queue_remove,
     spurious_wake, Admitted
<1>2. SUFFICES ASSUME loop = "drain", call'[Loop].pc = "returned",
                      call'[Loop].ret = "RETRY"
               PROVE  nelts' = 0
  BY <1>0, <1>1 DEF EventsSeen, Leaving, LoopCalls
<1>3. ~queue_insert(Loop) /\ ~queue_remove(Loop)
  <2>1. ~queue_insert(Loop)
    BY <1>0, <1>2 DEF queue_insert, LoopCalls
  <2>2. queue_remove(Loop) => call'[Loop].ret = "OK"
    BY <1>0, RemoveReturns
  <2>. QED
    BY <1>2, <2>1, <2>2
<1>4. queue_no_wait(Loop)
  BY <1>0, <1>2, <1>3 DEF queue_step, queue_wait, queue_timeup,
     queue_resume_blocked, queue_interrupted, spurious_wake, Moved, Returned
<1>. QED
  BY <1>0, <1>2, <1>4 DEF queue_no_wait, Blocked, LoopCalls, ring

\* Every step preserves EventsSeen.
LEMMA NextSeen ==
  ASSUME Inv, [Next]_vars
  PROVE  EventsSeen'
<1>0. /\ call \in [Thread -> QueueCall] /\ Loop \in Thread /\ Loop \notin User
      /\ LoopCalls /\ EventsSeen /\ notified \in BOOLEAN
  BY LoopAssumption DEF Inv, QueueInv, QueueTypeOK, User
<1>1. CASE UNCHANGED vars
  BY <1>0, <1>1 DEF vars, queueVars, EventsSeen, Leaving, Announced
<1>2. CASE poll_notified \/ poll_other
  BY <1>2 DEF poll_notified, poll_other, EventsSeen, Leaving
<1>3. ASSUME NEW v \in LoopEvents, loop_push(v)
      PROVE  EventsSeen'
  BY <1>3 DEF loop_push, EventsSeen, Leaving
<1>4. CASE loop_pushed
  BY <1>4 DEF loop_pushed, EventsSeen, Leaving
<1>5. CASE loop_popped
  <2>1. \A u \in User : call'[u] = call[u]
    BY <1>0, <1>5 DEF loop_popped, queue_return, User
  <2>2. loop' = "poll" => call[Loop].ret = "RETRY"
    <3>1. call[Loop].ret \in Ret
      BY <1>0 DEF QueueCall
    <3>. QED
      BY <1>5, <3>1 DEF loop_popped, AfterPop, Ret
  <2>3. loop' # "drain"
    BY <1>0, <1>5 DEF loop_popped, AfterPop, QueueCall, Ret
  <2>4. Leaving' => Leaving
    BY <1>5, <2>2, <2>3 DEF Leaving, loop_popped, queue_return
  <2>. QED
    BY <1>0, <1>5, <2>1, <2>4
       DEF EventsSeen, Announced, loop_popped, queue_return, ring
<1>6. CASE loop_pop
  BY <1>0, <1>6 DEF loop_pop, queue_call, EventsSeen, Leaving
<1>7. ASSUME NEW t \in User, user_call(t)
      PROVE  EventsSeen'
  <2>1. /\ nelts' = nelts /\ call'[Loop] = call[Loop]
        /\ loop' = loop /\ notified' = notified
        /\ \A u \in User : u # t => call'[u] = call[u]
        /\ call[t].pc = "idle"
    BY <1>0, <1>7 DEF user_call, queue_call, ring, User
  <2>. QED
    BY <1>0, <2>1 DEF EventsSeen, Leaving, Announced
<1>8. ASSUME NEW t \in User, user_return(t)
      PROVE  EventsSeen'
  <2>1. /\ nelts' = nelts /\ call'[Loop] = call[Loop] /\ loop' = loop
        /\ \A u \in User : u # t => call'[u] = call[u]
    BY <1>0, <1>8 DEF user_return, queue_return, ring, User
  <2>2. notified' = (notified \/ Announced(t))
    BY <1>8 DEF user_return, queue_return, Announced
  <2>. QED
    BY <1>0, <2>1, <2>2 DEF EventsSeen, Leaving, Announced
<1>9. ASSUME NEW t \in Thread, step(t) \/ spurious(t)
      PROVE  EventsSeen'
  BY <1>9, UserStepSeen, LoopStepSeen DEF step, spurious, User
<1>10. CASE terminate \/ interrupt
  <2>1. /\ nelts' = nelts /\ loop' = loop /\ notified' = notified
        /\ \A u \in Thread : \/ call'[u] = call[u]
                              \/ /\ call[u].pc = "waiting"
                                 /\ call'[u].pc = "woken"
    BY <1>0, <1>10 DEF terminate, interrupt, ogs_queue_term, Moved,
       ogs_queue_interrupt_all, ring
  <2>. QED
    BY <1>0, <2>1 DEF EventsSeen, Leaving, Announced, User
<1>11. CASE term_notify
  BY <1>11 DEF term_notify, EventsSeen
<1>. QED
  BY <1>1, <1>2, <1>3, <1>4, <1>5, <1>6, <1>7, <1>8, <1>9, <1>10, <1>11 DEF Next

\* Inv is an invariant.
THEOREM Invariance == Spec => []Inv
<1>1. Init => Inv
  BY InitInv
<1>2. Inv /\ [Next]_vars => Inv'
  BY NextQueueInv, NextLoopInv, NextSeen DEF Inv
<1>. QED
  BY <1>1, <1>2, PTL DEF Spec

\* The variables of queue and loop keep their types, for any number of
\* threads and any capacity: the ring's indices stay inside it.
THEOREM TypeCorrect == Spec => []TypeOK
<1>1. Inv => TypeOK
  BY DEF Inv, QueueInv, TypeOK
<1>. QED
  BY <1>1, Invariance, PTL

\* full_waiters and empty_waiters are exact on every path through queue_push
\* and queue_pop.
THEOREM CountsExact == Spec => []WaitersCounted
<1>1. Inv => WaitersCounted
  BY DEF Inv, QueueInv
<1>. QED
  BY <1>1, Invariance, PTL

\* No wake-up of queue_push and queue_pop is lost.
THEOREM WakeupsReach == Spec => []NoLostWakeup
<1>1. Inv => NoLostWakeup
  BY DEF Inv, QueueInv
<1>. QED
  BY <1>1, Invariance, PTL

\* ogs_queue_term leaves nobody asleep.
THEOREM TerminationWakes == Spec => []TermWakesAll
<1>1. Inv => TermWakesAll
  BY DEF Inv, QueueInv
<1>. QED
  BY <1>1, Invariance, PTL

\* The main loop does not go to sleep on an event.
THEOREM EventsReachLoop == Spec => []NoMissedEvent
<1>1. Inv => NoMissedEvent
  BY DEF Inv, EventsSeen, Leaving, NoMissedEvent
<1>. QED
  BY <1>1, Invariance, PTL

-----------------------------------------------------------------------------
(* The ring implements the abstract queue. *)

Status == [t \in Thread |-> StatusOf(t)]

\* The ring's contents are a sequence.
LEMMA ContentsSeq ==
  ASSUME QueueTypeOK
  PROVE  /\ Contents \in Seq(Value \cup {NoValue})
         /\ Len(Contents) = nelts
         /\ \A k \in 1 .. nelts : Contents[k] = data[At(k - 1)]
<1>1. \A k \in 1 .. nelts : At(k - 1) \in Slot
  BY QueueAssumption DEF QueueTypeOK, At, Slot
<1>2. \A k \in 1 .. nelts : data[At(k - 1)] \in Value \cup {NoValue}
  BY <1>1 DEF QueueTypeOK
<1>3. nelts \in Nat
  BY QueueAssumption DEF QueueTypeOK
<1>. QED
  BY <1>2, <1>3 DEF Contents

\* A value put into the next empty slot is the last of the contents.
LEMMA ContentsAppend ==
  ASSUME QueueInv, NEW t \in Thread, queue_insert(t)
  PROVE  Contents' = Append(Contents, call[t].val) /\ nelts < Bounds
<1>1. QueueTypeOK /\ QueueTypeOK' /\ RingOK
  BY InsertInv DEF QueueInv
<1>2. nelts \in 0 .. Bounds - 1 /\ nelts' = nelts + 1 /\ out' = out
  BY <1>1, QueueAssumption DEF QueueTypeOK, queue_insert, Admitted, Blocked
<1>3. \A k \in 1 .. nelts : At(k - 1) \in Slot /\ At(k - 1) # in
  BY <1>1, <1>2, QueueAssumption DEF QueueTypeOK, RingOK, At, Slot
<1>4. \A k \in 1 .. nelts + 1 :
        At(k - 1)' = At(k - 1)
  BY <1>2 DEF At
<1>5. \A k \in 1 .. nelts : data'[At(k - 1)] = data[At(k - 1)]
  BY <1>1, <1>3 DEF QueueTypeOK, queue_insert
<1>6. At(nelts) = in /\ data'[in] = call[t].val
  BY <1>1 DEF QueueTypeOK, RingOK, queue_insert
<1>7. /\ Contents \in Seq(Value \cup {NoValue}) /\ Len(Contents) = nelts
      /\ \A k \in 1 .. nelts : Contents[k] = data[At(k - 1)]
  BY <1>1, ContentsSeq
<1>8. Contents' = [k \in 1 .. nelts + 1 |-> data'[At(k - 1)]]
  BY <1>2, <1>4 DEF Contents
<1>9. call[t].val \in Value \cup {NoValue}
  BY <1>1 DEF QueueTypeOK, QueueCall
<1>10. \A k \in 1 .. nelts + 1 :
         data'[At(k - 1)] = IF k = nelts + 1 THEN call[t].val ELSE Contents[k]
  <2>. SUFFICES ASSUME NEW k \in 1 .. nelts + 1
                PROVE  data'[At(k - 1)] = IF k = nelts + 1 THEN call[t].val
                                                           ELSE Contents[k]
    OBVIOUS
  <2>1. CASE k = nelts + 1
    <3>1. k - 1 = nelts
      BY <1>2, <2>1
    <3>. QED
      BY <1>6, <2>1, <3>1
  <2>2. CASE k # nelts + 1
    <3>1. k \in 1 .. nelts
      BY <1>2, <2>2
    <3>. QED
      BY <1>5, <1>7, <2>2, <3>1
  <2>. QED
    BY <2>1, <2>2
<1>. DEFINE S == Value \cup {NoValue}
            app == Append(Contents, call[t].val)
<1>11. /\ app \in Seq(S) /\ Len(app) = nelts + 1
       /\ \A k \in 1 .. nelts : app[k] = Contents[k]
       /\ app[nelts + 1] = call[t].val
  BY <1>7, <1>9, AppendProperties
<1>. HIDE DEF app
<1>12. \A k \in 1 .. nelts + 1 : data'[At(k - 1)] = app[k] /\ app[k] \in S
  BY <1>2, <1>10, <1>11, ElementOfSeq
<1>13. Contents' = [k \in 1 .. nelts + 1 |-> app[k]]
  BY <1>8, <1>12
<1>14. app = [k \in 1 .. nelts + 1 |-> app[k]]
  BY <1>2, <1>11, LenProperties
<1>. QED
  BY <1>2, <1>13, <1>14, QueueAssumption DEF app

\* The value taken from the first filled slot is the first of the contents.
LEMMA ContentsTail ==
  ASSUME QueueInv, NEW t \in Thread, queue_remove(t)
  PROVE  /\ Contents # <<>>
         /\ Contents' = Tail(Contents)
         /\ data[out] = Head(Contents)
<1>1. QueueTypeOK /\ QueueTypeOK'
  BY RemoveInv DEF QueueInv
<1>2. nelts \in 1 .. Bounds /\ nelts' = nelts - 1 /\ data' = data
  BY <1>1, QueueAssumption DEF QueueTypeOK, queue_remove, Admitted, Blocked
<1>3. \A k \in 1 .. nelts - 1 : At(k - 1)' = At(k)
  BY <1>1, <1>2, QueueAssumption DEF QueueTypeOK, At, Advance, Slot, queue_remove
<1>4. /\ Contents \in Seq(Value \cup {NoValue}) /\ Len(Contents) = nelts
      /\ \A k \in 1 .. nelts : Contents[k] = data[At(k - 1)]
  BY <1>1, ContentsSeq
<1>5. Contents' = [k \in 1 .. nelts - 1 |-> data[At(k)]]
  BY <1>2, <1>3 DEF Contents
<1>6. /\ Contents # <<>> /\ Head(Contents) = Contents[1]
      /\ Tail(Contents) \in Seq(Value \cup {NoValue})
      /\ Len(Tail(Contents)) = nelts - 1
      /\ \A k \in 1 .. nelts - 1 : Tail(Contents)[k] = Contents[k + 1]
  BY <1>2, <1>4, HeadTailProperties, EmptySeq
<1>7. Contents[1] = data[At(0)] /\ At(0) = out
  BY <1>1, <1>2, <1>4, QueueAssumption DEF QueueTypeOK, At, Slot
<1>8. \A k \in 1 .. nelts - 1 : Contents[k + 1] = data[At(k)]
  <2>. SUFFICES ASSUME NEW k \in 1 .. nelts - 1
                PROVE  Contents[k + 1] = data[At(k)]
    OBVIOUS
  <2>1. k + 1 \in 1 .. nelts /\ (k + 1) - 1 = k
    BY <1>2
  <2>. QED
    BY <1>4, <2>1
<1>9. Tail(Contents) = [k \in 1 .. nelts - 1 |-> Tail(Contents)[k]]
  BY <1>2, <1>6, LenProperties
<1>10. Contents' = [k \in 1 .. nelts - 1 |-> Tail(Contents)[k]]
  BY <1>5, <1>6, <1>8
<1>. QED
  BY <1>6, <1>7, <1>9, <1>10

\* How the step of thread t looks to the caller: only t's status changes.
StatusBecomes(t, st) == Status' = [Status EXCEPT ![t] = st]

\* If nothing but t's call changes in a way its caller sees, the status does.
LEMMA StatusStep ==
  ASSUME QueueTypeOK, NEW t \in Thread,
         call' \in [Thread -> QueueCall],
         \A u \in Thread : u # t => StatusOf(u)' = StatusOf(u)
  PROVE  StatusBecomes(t, StatusOf(t)')
  BY DEF StatusBecomes, Status

\* A signal is not seen by callers.
LEMMA SignalUnseen ==
  ASSUME QueueTypeOK, NEW u \in Thread,
         \/ call'[u] = call[u]
         \/ call[u].pc = "waiting" /\ call'[u] = Moved(call[u], "woken")
  PROVE  StatusOf(u)' = StatusOf(u)
  BY DEF StatusOf, Moved

\* A step inside a call fails it, moves one value, or is not seen.
LEMMA StepRefines ==
  ASSUME QueueInv, NEW t \in Thread, queue_step(t) \/ spurious_wake(t)
  PROVE  [Fifo!FifoNext]_(Fifo!fifoVars)
<1>0. QueueTypeOK /\ QueueTypeOK' /\ call \in [Thread -> QueueCall]
      /\ call' \in [Thread -> QueueCall]
  BY StepInv, SpuriousInv DEF QueueInv, QueueTypeOK
<1>1. call[t].val \in Value \cup {NoValue} /\ data[out] \in Value \cup {NoValue}
  BY <1>0 DEF QueueTypeOK, QueueCall
<1>2. CASE queue_insert(t)
  <2>1. /\ call'[t].pc = "returned" /\ call'[t].ret = "OK"
        /\ call'[t].val = call[t].val /\ call'[t].op = "push"
        /\ call[t].op = "push" /\ call[t].pc \in {"enter", "woken"}
        /\ \A u \in Thread : u # t => \/ call'[u] = call[u]
                                      \/ /\ call[u].pc = "waiting"
                                         /\ call'[u] = Moved(call[u], "woken")
    BY <1>0, <1>1, <1>2, TransferReturns DEF queue_insert, Admitted, Op
  <2>2. StatusBecomes(t, StatusOf(t)')
    BY <1>0, <2>1, SignalUnseen, StatusStep
  <2>3. Contents' = Append(Contents, call[t].val) /\ nelts < Bounds
    BY <1>2, ContentsAppend
  <2>4. Len(Contents) = nelts
    BY <1>0, ContentsSeq
  <2>5. Fifo!Enqueue(t)
    BY <2>1, <2>2, <2>3, <2>4 DEF Fifo!Enqueue, StatusBecomes, Status, StatusOf
  <2>. QED
    BY <2>5 DEF Fifo!FifoNext
<1>3. CASE queue_remove(t)
  <2>1. /\ call'[t].pc = "returned" /\ call'[t].ret = "OK"
        /\ call'[t].val = data[out] /\ call'[t].op = "pop"
        /\ call[t].op = "pop" /\ call[t].pc \in {"enter", "woken"}
        /\ \A u \in Thread : u # t => \/ call'[u] = call[u]
                                      \/ /\ call[u].pc = "waiting"
                                         /\ call'[u] = Moved(call[u], "woken")
    BY <1>0, <1>1, <1>3, TransferReturns DEF queue_remove, Admitted, Op
  <2>2. StatusBecomes(t, StatusOf(t)')
    BY <1>0, <2>1, SignalUnseen, StatusStep
  <2>3. /\ Contents # <<>> /\ Contents' = Tail(Contents)
        /\ data[out] = Head(Contents)
    BY <1>3, ContentsTail
  <2>4. Fifo!Dequeue(t)
    BY <2>1, <2>2, <2>3 DEF Fifo!Dequeue, StatusBecomes, Status, StatusOf
  <2>. QED
    BY <2>4 DEF Fifo!FifoNext
<1>4. CASE queue_wait(t) \/ queue_resume_blocked(t) \/ spurious_wake(t)
  <2>1. Contents' = Contents
    BY <1>4 DEF queue_wait, queue_resume_blocked, spurious_wake, ring, Contents, At
  <2>2. \A u \in Thread : StatusOf(u)' = StatusOf(u)
    BY <1>0, <1>4 DEF StatusOf, queue_wait, queue_resume_blocked, spurious_wake,
       Moved
  <2>. QED
    BY <2>1, <2>2 DEF Fifo!fifoVars
<1>5. CASE queue_no_wait(t) \/ queue_timeup(t) \/ queue_interrupted(t)
  <2>1. Contents' = Contents
    BY <1>5 DEF queue_no_wait, queue_timeup, queue_interrupted, ring, Contents, At
  <2>2. \A u \in Thread : u # t => call'[u] = call[u]
    BY <1>0, <1>5 DEF queue_no_wait, queue_timeup, queue_interrupted
  <2>3. StatusBecomes(t, StatusOf(t)')
    BY <1>0, <2>2, SignalUnseen, StatusStep
  <2>4. \/ StatusOf(t)' = StatusOf(t)
        \/ /\ StatusOf(t).at = "called"
           /\ StatusOf(t)' = [at |-> "failed", op |-> StatusOf(t).op,
                              val |-> StatusOf(t).val]
    BY <1>0, <1>5 DEF queue_no_wait, queue_timeup, queue_interrupted, StatusOf,
       Moved, Returned
  <2>5. CASE StatusOf(t)' = StatusOf(t)
    BY <2>1, <2>3, <2>5 DEF Fifo!fifoVars, StatusBecomes, Status
  <2>6. CASE /\ StatusOf(t).at = "called"
             /\ StatusOf(t)' = [at |-> "failed", op |-> StatusOf(t).op,
                                val |-> StatusOf(t).val]
    <3>1. Fifo!Fail(t)
      BY <2>1, <2>3, <2>6 DEF Fifo!Fail, StatusBecomes, Status
    <3>. QED
      BY <3>1 DEF Fifo!FifoNext
  <2>. QED
    BY <2>4, <2>5, <2>6
<1>. QED
  BY <1>2, <1>3, <1>4, <1>5 DEF queue_step

\* A call begins, or is refused because the queue is terminated.
LEMMA CallRefines ==
  ASSUME QueueInv, NEW t \in Thread, NEW op \in Op, NEW mode \in Mode,
         NEW v \in Value \cup {NoValue}, queue_call(t, op, mode, v)
  PROVE  [Fifo!FifoNext]_(Fifo!fifoVars)
<1>0. QueueTypeOK /\ QueueTypeOK' /\ call \in [Thread -> QueueCall]
      /\ call' \in [Thread -> QueueCall]
  BY CallInv DEF QueueInv, QueueTypeOK
<1>1. Contents' = Contents
  BY DEF queue_call, ring, Contents, At
<1>2. StatusBecomes(t, StatusOf(t)')
  <2>1. \A u \in Thread : u # t => call'[u] = call[u]
    BY <1>0 DEF queue_call
  <2>. QED
    BY <1>0, <2>1, SignalUnseen, StatusStep
<1>3. /\ StatusOf(t).at = "idle"
      /\ StatusOf(t)' = [at |-> IF terminated THEN "failed" ELSE "called",
                         op |-> op, val |-> v]
      /\ op \in {"push", "pop"} /\ (op = "push" <=> v \in Value)
  BY <1>0 DEF queue_call, StatusOf, Op
<1>4. Fifo!Call(t) \/ Fifo!Refuse(t)
  BY <1>1, <1>2, <1>3 DEF Fifo!Call, Fifo!Refuse, StatusBecomes, Status
<1>. QED
  BY <1>4 DEF Fifo!FifoNext

\* The caller takes the result.
LEMMA ReturnRefines ==
  ASSUME QueueInv, NEW t \in Thread, queue_return(t)
  PROVE  [Fifo!FifoNext]_(Fifo!fifoVars)
<1>0. QueueTypeOK /\ QueueTypeOK' /\ call \in [Thread -> QueueCall]
      /\ call' \in [Thread -> QueueCall]
  BY OutsideInv DEF QueueInv, QueueTypeOK
<1>1. Contents' = Contents
  BY DEF queue_return, ring, Contents, At
<1>2. StatusBecomes(t, StatusOf(t)')
  <2>1. \A u \in Thread : u # t => call'[u] = call[u]
    BY <1>0 DEF queue_return
  <2>. QED
    BY <1>0, <2>1, SignalUnseen, StatusStep
<1>3. StatusOf(t).at \in {"done", "failed"} /\ StatusOf(t)' = Fifo!Idle
  BY <1>0 DEF queue_return, StatusOf, NoCall, Fifo!Idle
<1>4. Fifo!Return(t)
  BY <1>1, <1>2, <1>3 DEF Fifo!Return, StatusBecomes, Status
<1>. QED
  BY <1>4 DEF Fifo!FifoNext

\* Steps that callers of the queue do not see.
LEMMA UnseenRefines ==
  ASSUME QueueInv, ring' = ring,
         \A u \in Thread : \/ call'[u] = call[u]
                           \/ /\ call[u].pc = "waiting"
                              /\ call'[u] = Moved(call[u], "woken")
  PROVE  [Fifo!FifoNext]_(Fifo!fifoVars)
<1>1. Contents' = Contents
  BY DEF ring, Contents, At
<1>2. \A u \in Thread : StatusOf(u)' = StatusOf(u)
  BY SignalUnseen DEF QueueInv
<1>. QED
  BY <1>1, <1>2 DEF Fifo!fifoVars

\* queue_push and queue_pop, used by any number of threads while the queue is
\* terminated at any moment, implement a bounded first-in first-out queue.
THEOREM Refinement == Spec => ImplementsFifo
<1>1. Init => Fifo!FifoInit
  <2>. SUFFICES ASSUME Init PROVE Fifo!FifoInit
    OBVIOUS
  <2>1. Contents = <<>>
    BY DEF Init, QueueInit, Contents
  <2>2. \A t \in Thread : StatusOf(t) = Fifo!Idle
    BY DEF Init, QueueInit, NoCall, StatusOf, Fifo!Idle
  <2>. QED
    BY <2>1, <2>2 DEF Fifo!FifoInit
<1>2. Inv /\ [Next]_vars => [Fifo!FifoNext]_(Fifo!fifoVars)
  <2>. SUFFICES ASSUME Inv, [Next]_vars
                PROVE  [Fifo!FifoNext]_(Fifo!fifoVars)
    OBVIOUS
  <2>0. QueueInv /\ call \in [Thread -> QueueCall] /\ Loop \in Thread
    BY LoopAssumption DEF Inv, QueueInv, QueueTypeOK
  <2>1. CASE UNCHANGED queueVars
    BY <2>0, <2>1, UnseenRefines DEF queueVars, ring
  <2>2. ASSUME NEW v \in LoopEvents, loop_push(v)
        PROVE  [Fifo!FifoNext]_(Fifo!fifoVars)
    BY <2>0, <2>2, CallRefines, LoopAssumption DEF loop_push, Op, Mode
  <2>3. CASE loop_pop
    BY <2>0, <2>3, CallRefines DEF loop_pop, Op, Mode
  <2>4. CASE loop_pushed \/ loop_popped
    BY <2>0, <2>4, ReturnRefines DEF loop_pushed, loop_popped
  <2>5. ASSUME NEW t \in User, user_call(t)
        PROVE  [Fifo!FifoNext]_(Fifo!fifoVars)
    <3>1. PICK c \in UserCalls[t] : queue_call(t, c[1], c[2], c[3])
      BY <2>5 DEF user_call
    <3>2. c \in Op \X Mode \X (Value \cup {NoValue})
      BY LoopAssumption DEF User
    <3>3. /\ c[1] \in Op /\ c[2] \in Mode /\ c[3] \in Value \cup {NoValue}
          /\ t \in Thread
      BY <3>2 DEF User
    <3>. QED
      BY <2>0, <3>1, <3>3, CallRefines
  <2>6. ASSUME NEW t \in User, user_return(t)
        PROVE  [Fifo!FifoNext]_(Fifo!fifoVars)
    BY <2>0, <2>6, ReturnRefines DEF user_return, User
  <2>7. ASSUME NEW t \in Thread, step(t) \/ spurious(t)
        PROVE  [Fifo!FifoNext]_(Fifo!fifoVars)
    BY <2>0, <2>7, StepRefines DEF step, spurious
  <2>8. CASE terminate \/ interrupt \/ term_notify
    <3>1. ring' = ring
      BY <2>8 DEF terminate, interrupt, term_notify, ogs_queue_term,
         ogs_queue_interrupt_all
    <3>2. \A u \in Thread : \/ call'[u] = call[u]
                            \/ /\ call[u].pc = "waiting"
                               /\ call'[u] = Moved(call[u], "woken")
      BY <2>0, <2>8 DEF terminate, interrupt, term_notify, ogs_queue_term,
         ogs_queue_interrupt_all
    <3>. QED
      BY <2>0, <3>1, <3>2, UnseenRefines
  <2>9. CASE poll_notified \/ poll_other
    BY <2>1, <2>9 DEF poll_notified, poll_other
  <2>10. CASE UNCHANGED vars
    BY <2>1, <2>10 DEF vars
  <2>. QED
    BY <2>2, <2>3, <2>4, <2>5, <2>6, <2>7, <2>8, <2>9, <2>10 DEF Next
<1>. QED
  BY <1>1, <1>2, Invariance, PTL DEF Spec, ImplementsFifo, Fifo!FifoSpec
=============================================================================

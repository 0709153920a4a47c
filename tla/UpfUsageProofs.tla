--------------------------- MODULE UpfUsageProofs ---------------------------
(***************************************************************************)
(* Usage reporting of the UPF, for any timers, triggers, durations and     *)
(* thresholds: what the reports of a session add up to, who owns a timer,  *)
(* and the walk over the expired timers while their callbacks work on the  *)
(* timers.                                                                 *)
(***************************************************************************)
EXTENDS UpfUsage, DataLemmas, SequenceTheorems, FiniteSetTheorems

-----------------------------------------------------------------------------
(* The counters of a session. *)

\* The counters of a session: all that was reported is counted in last, and
\* no report is ahead of what was forwarded.
Counted == /\ total \in Nat /\ last \in Nat /\ reported = last /\ last <= total
           /\ sess \in BOOLEAN
           /\ sess => total - last < Threshold
           /\ ~sess => last = total

\* The numbers the counters are compared with.
LEMMA Numbers == Threshold \in Nat \ {0} /\ MaxVolume \in Nat
  BY UsageAssumption

\* A packet is counted and, if it reaches the threshold, reported.
LEMMA PacketCounted ==
  ASSUME Counted, NEW size \in 1 .. Threshold, packet(size)
  PROVE  Counted'
<1>1. size \in Nat /\ total' = total + size /\ sess /\ sess' = sess
  BY Numbers DEF packet
<1>2. CASE ThresholdReached(total + size)
  <2>1. reported' = reported + ((total + size) - last) /\ last' = total + size
    BY <1>2 DEF packet, Reported
  <2>. QED
    BY <1>1, <2>1, Numbers DEF Counted
<1>3. CASE ~ThresholdReached(total + size)
  <2>1. reported' = reported /\ last' = last
    BY <1>3 DEF packet
  <2>. QED
    BY <1>1, <1>3, <2>1, Numbers DEF Counted, ThresholdReached
<1>. QED
  BY <1>2, <1>3

\* A report of all there is: a timer has expired or the session is deleted.
LEMMA AllReported ==
  ASSUME Counted, Reported(total), total' = total, sess' \in BOOLEAN
  PROVE  Counted'
<1>1. last' = total /\ reported' = total
  BY DEF Counted, Reported
<1>. QED
  BY <1>1, Numbers DEF Counted

\* Every step keeps the counters in order.
LEMMA NextCounted ==
  ASSUME Counted, [Next]_vars
  PROVE  Counted'
<1>1. CASE UNCHANGED <<total, last, reported, sess>>
  BY <1>1 DEF Counted
<1>2. CASE session_establishment
  BY <1>2, Numbers DEF session_establishment, Counted
<1>3. CASE session_deletion
  BY <1>3, AllReported DEF session_deletion
<1>4. CASE expire_trigger
  BY <1>4, AllReported DEF expire_trigger, Counted
<1>. QED
  BY <1>1, <1>2, <1>3, <1>4, PacketCounted DEF Next, vars, report_response,
     report_dropped, expire, expire_response, tick

\* Nothing has been forwarded yet.
LEMMA InitCounted ==
  ASSUME Init
  PROVE  Counted
<1>1. total = 0 /\ last = 0 /\ reported = 0
  BY Zenon DEF Init
<1>2. /\ total \in Nat /\ last \in Nat /\ reported = last
      /\ last <= total /\ last = total
  BY <1>1
<1>3. sess \in BOOLEAN /\ ~sess
  BY Zenon DEF Init
<1>. QED
  BY <1>2, <1>3, Zenon DEF Counted

\* Whatever timers expire in whatever order, with reports lost or repeated:
\* what a session has forwarded and not reported stays below the threshold,
\* and with its deletion all of it has been reported, no octet twice
\* (upf_sess_urr_acc_add, upf_sess_urr_acc_snapshot).
THEOREM AllUsageReported == Spec => []UsageReported
<1>1. Init => Counted
  BY InitCounted
<1>2. Counted /\ [Next]_vars => Counted'
  BY NextCounted
<1>3. Counted => UsageReported
  BY DEF Counted, UsageReported
<1>. QED
  BY <1>1, <1>2, <1>3, PTL DEF Spec

-----------------------------------------------------------------------------
(* The order of the timers. *)

\* No timer is twice in a sequence.
Distinct(q) == \A i, j \in 1 .. Len(q) : q[i] = q[j] => i = j

\* Only keeps the members of S and their order.
LEMMA OnlySelects ==
  ASSUME NEW q \in Seq(Slot), NEW S
  PROVE  /\ Only(q, S) \in Seq(Slot)
         /\ ToSet(Only(q, S)) = ToSet(q) \cap S
         /\ Distinct(q) => Distinct(Only(q, S))
<1>. DEFINE n == Len(q)
            A == Seq(Slot)
            Step(i, p) == IF q[i] \in S THEN Append(p, q[i]) ELSE p
            Value(f, i) == IF i = 0 THEN <<>> ELSE Step(i, f[i - 1])
            Solves(f) == f = [i \in 0 .. n |-> Value(f, i)]
            h == CHOOSE f : Solves(f)
<1>1. \E f : Solves(f)
  <2>. DEFINE step == [i \in 1 .. n |-> [p \in A |-> Step(i, p)]]
  <2>1. n \in Nat /\ <<>> \in A /\ \A i \in 1 .. n : \A p \in A : Step(i, p) \in A
    OBVIOUS
  <2>. HIDE DEF n, A, Step
  <2>2. step \in [1 .. n -> [A -> A]]
    BY <2>1, Zenon
  <2>. HIDE DEF step
  <2>3. PICK f : Iterates(f, n, A, <<>>, step)
    BY <2>1, <2>2, Iteration
  <2>4. /\ f \in [0 .. n -> A] /\ f[0] = <<>>
        /\ \A i \in 1 .. n : f[i] = step[i][f[i - 1]]
    BY <2>3 DEF Iterates
  <2>5. \A i \in 0 .. n : f[i] = Value(f, i)
    <3>1. ASSUME NEW i \in 1 .. n PROVE f[i] = Step(i, f[i - 1])
      <4>1. i - 1 \in 0 .. n
        BY <2>1
      <4>2. f[i - 1] \in A
        BY <2>4, <4>1
      <4>. QED
        BY <2>4, <4>2 DEF step
    <3>2. \A i \in 0 .. n : i = 0 \/ i \in 1 .. n
      BY <2>1
    <3>. QED
      BY <2>4, <3>1, <3>2
  <2>. HIDE DEF Value
  <2>6. Solves(f)
    BY <2>4, <2>5, Zenon
  <2>. HIDE DEF Solves
  <2>. QED
    BY <2>6, Zenon
<1>2. Solves(h)
  <2>. HIDE DEF Solves
  <2>. QED
    BY <1>1, Zenon
<1>3. Only(q, S) = h[n]
  BY DEF Only
<1>. HIDE DEF h
<1>4. h[0] = <<>> /\ \A i \in 1 .. n : h[i] = Step(i, h[i - 1])
  <2>1. \A i \in 0 .. n : h[i] = Value(h, i)
    <3>. HIDE DEF Value
    <3>. QED
      BY <1>2, Zenon
  <2>2. 0 \in 0 .. n /\ \A i \in 1 .. n : i \in 0 .. n /\ i # 0
    OBVIOUS
  <2>. QED
    BY <2>1, <2>2
<1>. HIDE DEF Solves
<1>. DEFINE Good(k) ==
              /\ h[k] \in Seq(Slot)
              /\ \A j \in 1 .. Len(h[k]) : \E i \in 1 .. k : h[k][j] = q[i]
              /\ \A j \in 1 .. Len(h[k]) : h[k][j] \in S
              /\ \A i \in 1 .. k : q[i] \in S =>
                   \E j \in 1 .. Len(h[k]) : h[k][j] = q[i]
              /\ Distinct(q) => Distinct(h[k])
            G == {k \in 0 .. n : Good(k)}
<1>6. Good(0)
  BY <1>4 DEF Distinct
<1>7. ASSUME NEW k \in 1 .. n, Good(k - 1)
      PROVE  Good(k)
  <2>. DEFINE p == h[k - 1]
  <2>1. q[k] \in Slot /\ k - 1 \in Nat
    OBVIOUS
  <2>2. CASE q[k] \notin S
    <3>1. h[k] = p
      BY <1>4, <2>2
    <3>2. \A i \in 1 .. k : i = k \/ i \in 1 .. k - 1
      OBVIOUS
    <3>3. 1 .. k - 1 \subseteq 1 .. k
      OBVIOUS
    <3>. HIDE DEF Step
    <3>. QED
      BY <1>7, <2>2, <3>1, <3>2, <3>3
  <2>3. CASE q[k] \in S
    <3>1. h[k] = Append(p, q[k]) /\ p \in Seq(Slot)
      BY <1>4, <1>7, <2>3
    <3>. HIDE DEF p
    <3>2. /\ h[k] \in Seq(Slot) /\ Len(h[k]) = Len(p) + 1
          /\ \A j \in 1 .. Len(p) : h[k][j] = p[j]
          /\ h[k][Len(p) + 1] = q[k]
      BY <2>1, <3>1
    <3>3. \A j \in 1 .. Len(h[k]) : j \in 1 .. Len(p) \/ j = Len(p) + 1
      BY <3>1, <3>2
    <3>4. 1 .. Len(p) \subseteq 1 .. Len(h[k]) /\ Len(p) + 1 \in 1 .. Len(h[k])
      BY <3>1, <3>2
    <3>5. \A j \in 1 .. Len(h[k]) : \E i \in 1 .. k : h[k][j] = q[i]
      <4>1. 1 .. k - 1 \subseteq 1 .. k /\ k \in 1 .. k
        OBVIOUS
      <4>. QED
        BY <1>7, <3>2, <3>3, <4>1 DEF p
    <3>6. \A j \in 1 .. Len(h[k]) : h[k][j] \in S
      BY <1>7, <2>3, <3>2, <3>3 DEF p
    <3>7. \A i \in 1 .. k : q[i] \in S =>
            \E j \in 1 .. Len(h[k]) : h[k][j] = q[i]
      <4>. TAKE i \in 1 .. k
      <4>1. i = k \/ i \in 1 .. k - 1
        OBVIOUS
      <4>. QED
        BY <1>7, <4>1, <3>2, <3>4 DEF p
    <3>8. ASSUME Distinct(q) PROVE Distinct(h[k])
      <4>1. \A j \in 1 .. Len(p) : p[j] # q[k]
        BY <1>7, <3>8 DEF p, Distinct
      <4>2. \A i, j \in 1 .. Len(p) : p[i] = p[j] => i = j
        BY <1>7, <3>8 DEF p, Distinct
      <4>. QED
        BY <4>1, <4>2, <3>2, <3>3 DEF Distinct
    <3>. QED
      BY <3>2, <3>5, <3>6, <3>7, <3>8
  <2>. QED
    BY <2>2, <2>3
<1>. HIDE DEF Good
<1>8. Good(n)
  <2>1. n \in Nat /\ n \in 0 .. n
    OBVIOUS
  <2>2. G \in SUBSET (0 .. n) /\ 0 \in G /\ \A i \in 1 .. n : i - 1 \in G => i \in G
    BY <1>6, <1>7
  <2>. HIDE DEF G, n
  <2>3. G = 0 .. n
    BY <2>1, <2>2, SetInduction
  <2>. QED
    BY <2>1, <2>3 DEF G
<1>. DEFINE p == Only(q, S)
<1>9. /\ p \in Seq(Slot)
      /\ \A j \in 1 .. Len(p) : \E i \in 1 .. Len(q) : p[j] = q[i]
      /\ \A j \in 1 .. Len(p) : p[j] \in S
      /\ \A i \in 1 .. Len(q) : q[i] \in S => \E j \in 1 .. Len(p) : p[j] = q[i]
      /\ Distinct(q) => Distinct(p)
  BY <1>3, <1>8 DEF Good
<1>. HIDE DEF p
<1>10. DOMAIN p = 1 .. Len(p) /\ DOMAIN q = 1 .. Len(q)
  BY <1>9
<1>11. ToSet(p) = ToSet(q) \cap S
  <2>1. /\ ToSet(p) = {p[j] : j \in 1 .. Len(p)}
        /\ ToSet(q) = {q[i] : i \in 1 .. Len(q)}
    BY <1>10, Zenon DEF ToSet
  <2>. QED
    BY <1>9, <2>1
<1>. QED
  BY <1>9, <1>11 DEF p

-----------------------------------------------------------------------------
(* The operations on a timer manager. *)

\* The elements of a sequence.
LEMMA InSequence ==
  ASSUME NEW q \in Seq(Slot)
  PROVE  \A x : x \in ToSet(q) <=> \E i \in 1 .. Len(q) : q[i] = x
  BY DEF ToSet

\* A manager with no timer twice in the pool or in the tree, and none in both.
Ordered(m) == /\ m \in Manager
              /\ Distinct(m.free) /\ Distinct(m.tree)
              /\ Free(m) \cap Running(m) = {}

\* The fields of a manager.
LEMMA Fields ==
  ASSUME NEW m \in Manager
  PROVE  /\ m.free \in Seq(Slot) /\ m.tree \in Seq(Slot)
         /\ m.left \in [Slot -> 0 .. MaxDuration]
         /\ m.next \in [Slot -> Slot \cup {Null}]
         /\ m.use \in [Slot -> User]
         /\ Free(m) \subseteq Slot /\ Running(m) \subseteq Slot
  BY DEF Manager, Free, Running, ToSet

\* A timer that is stopped leaves the tree and nothing else.
LEMMA StopTimer ==
  ASSUME NEW m, Ordered(m), NEW s \in Slot
  PROVE  LET n == timer_stop(m, s)
         IN  /\ Ordered(n)
             /\ n.free = m.free /\ n.next = m.next /\ n.use = m.use
             /\ Running(n) = Running(m) \ {s}
<1>. DEFINE n == timer_stop(m, s)
            q == Only(m.tree, Slot \ {s})
<1>1. m \in Manager /\ m.tree \in Seq(Slot) /\ Running(m) \subseteq Slot
  BY Fields DEF Ordered
<1>2. q \in Seq(Slot) /\ ToSet(q) = ToSet(m.tree) \cap (Slot \ {s}) /\ Distinct(q)
  BY <1>1, OnlySelects DEF Ordered
<1>. HIDE DEF q
<1>3. 0 \in 0 .. MaxDuration
  BY TimerAssumption
<1>4. n = [m EXCEPT !.tree = q, !.left[s] = 0]
  BY DEF timer_stop, q
<1>5. /\ n \in Manager /\ n.tree = q
      /\ n.free = m.free /\ n.next = m.next /\ n.use = m.use
  <2>. DEFINE l == [m.left EXCEPT ![s] = 0]
  <2>1. l \in [Slot -> 0 .. MaxDuration]
    BY <1>1, <1>3, Fields
  <2>2. n = [m EXCEPT !.tree = q, !.left = l]
    BY <1>4
  <2>. HIDE DEF n, l
  <2>. QED
    BY <1>1, <1>2, <2>1, <2>2 DEF Manager
<1>. HIDE DEF n
<1>6. Running(n) = Running(m) \ {s}
  BY <1>1, <1>2, <1>5 DEF Running
<1>7. Ordered(n)
  BY <1>2, <1>5, <1>6 DEF Ordered, Free
<1>. QED
  BY <1>5, <1>6, <1>7 DEF n

\* A timer that is started is in the tree, wherever it was before.
LEMMA StartTimer ==
  ASSUME NEW m, Ordered(m), NEW s \in Slot \ Free(m), NEW d \in 1 .. MaxDuration
  PROVE  LET n == timer_start(m, s, d)
         IN  /\ Ordered(n)
             /\ n.free = m.free /\ n.next = m.next /\ n.use = m.use
             /\ Running(n) = Running(m) \cup {s}
<1>. DEFINE n == timer_start(m, s, d)
            B == {t \in Slot \ {s} : m.left[t] <= d}
            A == {t \in Slot \ {s} : m.left[t] > d}
            b == Only(m.tree, B)
            a == Only(m.tree, A)
            q == Append(b, s) \o a
<1>1. /\ m \in Manager /\ m.tree \in Seq(Slot) /\ Running(m) \subseteq Slot
      /\ m.left \in [Slot -> 0 .. MaxDuration] /\ MaxDuration \in Nat
  BY Fields, TimerAssumption DEF Ordered
<1>2. A \cup B = Slot \ {s} /\ A \cap B = {}
  BY <1>1
<1>3. /\ a \in Seq(Slot) /\ ToSet(a) = ToSet(m.tree) \cap A /\ Distinct(a)
      /\ b \in Seq(Slot) /\ ToSet(b) = ToSet(m.tree) \cap B /\ Distinct(b)
  BY <1>1, OnlySelects DEF Ordered
<1>4. n = [m EXCEPT !.tree = q, !.left[s] = d]
  BY DEF timer_start
<1>. HIDE DEF n, A, B, a, b
<1>5. /\ q \in Seq(Slot) /\ Len(q) = Len(b) + 1 + Len(a)
      /\ Len(a) \in Nat /\ Len(b) \in Nat
      /\ \A i \in 1 .. Len(b) : q[i] = b[i]
      /\ q[Len(b) + 1] = s
      /\ \A i \in 1 .. Len(a) : q[Len(b) + 1 + i] = a[i]
  BY <1>3
<1>. HIDE DEF q
<1>6. \A i \in 1 .. Len(q) : \/ i \in 1 .. Len(b) /\ q[i] = b[i] /\ b[i] \in B
                             \/ i = Len(b) + 1 /\ q[i] = s
                             \/ /\ i - Len(b) - 1 \in 1 .. Len(a)
                                /\ q[i] = a[i - Len(b) - 1]
                                /\ a[i - Len(b) - 1] \in A
  <2>1. /\ \A i \in 1 .. Len(b) : b[i] \in B
        /\ \A i \in 1 .. Len(a) : a[i] \in A
    BY <1>3 DEF ToSet
  <2>. TAKE i \in 1 .. Len(q)
  <2>2. CASE i \in 1 .. Len(b)
    BY <1>5, <2>1, <2>2
  <2>3. CASE i = Len(b) + 1
    BY <1>5, <2>3
  <2>4. CASE i > Len(b) + 1
    <3>1. /\ i - Len(b) - 1 \in 1 .. Len(a)
          /\ Len(b) + 1 + (i - Len(b) - 1) = i
      BY <1>5, <2>4
    <3>. QED
      BY <1>5, <2>1, <3>1
  <2>. QED
    BY <1>5, <2>2, <2>3, <2>4
<1>7. Distinct(q)
  <2>. SUFFICES ASSUME NEW i \in 1 .. Len(q), NEW j \in 1 .. Len(q), q[i] = q[j]
                PROVE  i = j
    BY DEF Distinct
  <2>1. s \notin A /\ s \notin B
    BY <1>2
  <2>2. CASE i \in 1 .. Len(b) /\ j \in 1 .. Len(b) /\ b[i] = b[j]
    BY <1>3, <2>2 DEF Distinct
  <2>3. CASE /\ i - Len(b) - 1 \in 1 .. Len(a) /\ j - Len(b) - 1 \in 1 .. Len(a)
             /\ a[i - Len(b) - 1] = a[j - Len(b) - 1]
    <3>1. i - Len(b) - 1 = j - Len(b) - 1
      BY <1>3, <2>3 DEF Distinct
    <3>. QED
      BY <1>5, <3>1
  <2>. QED
    BY <1>2, <1>6, <2>1, <2>2, <2>3
<1>8. ToSet(q) = ToSet(m.tree) \cup {s}
  <2>1. \A x \in ToSet(q) : x \in ToSet(m.tree) \cup {s}
    <3>1. /\ \A i \in 1 .. Len(b) : b[i] \in ToSet(m.tree)
          /\ \A i \in 1 .. Len(a) : a[i] \in ToSet(m.tree)
      BY <1>3, InSequence
    <3>. QED
      <4>. TAKE x \in ToSet(q)
      <4>1. PICK i \in 1 .. Len(q) : q[i] = x
        BY <1>5, InSequence
      <4>. QED
        BY <1>6, <3>1, <4>1
  <2>2. s \in ToSet(q)
    BY <1>5 DEF ToSet
  <2>3. \A x \in ToSet(m.tree) : x \in ToSet(q)
    <3>. TAKE x \in ToSet(m.tree)
    <3>1. CASE x \in ToSet(a)
      <4>1. PICK i \in 1 .. Len(a) : a[i] = x
        BY <1>3, <3>1 DEF ToSet
      <4>2. Len(b) + 1 + i \in 1 .. Len(q)
        BY <1>5
      <4>. QED
        BY <1>5, <4>1, <4>2 DEF ToSet
    <3>2. CASE x \in ToSet(b)
      <4>1. PICK i \in 1 .. Len(b) : b[i] = x
        BY <1>3, <3>2 DEF ToSet
      <4>2. i \in 1 .. Len(q)
        BY <1>5
      <4>. QED
        BY <1>5, <4>1, <4>2 DEF ToSet
    <3>3. x \in Slot
      BY <1>1 DEF Running
    <3>. QED
      BY <1>2, <1>3, <2>2, <3>1, <3>2, <3>3
  <2>. QED
    BY <2>1, <2>2, <2>3
<1>9. /\ n \in Manager /\ n.tree = q
      /\ n.free = m.free /\ n.next = m.next /\ n.use = m.use
  <2>. DEFINE l == [m.left EXCEPT ![s] = d]
  <2>1. l \in [Slot -> 0 .. MaxDuration]
    BY <1>1
  <2>2. n = [m EXCEPT !.tree = q, !.left = l]
    BY <1>4
  <2>. HIDE DEF l
  <2>. QED
    BY <1>1, <1>5, <2>1, <2>2 DEF Manager
<1>10. Running(n) = Running(m) \cup {s}
  BY <1>8, <1>9 DEF Running
<1>11. Ordered(n)
  BY <1>7, <1>9, <1>10 DEF Ordered, Free
<1>. QED
  BY <1>9, <1>10, <1>11 DEF n

\* A timer that is deleted is back in the pool.
LEMMA DeleteTimer ==
  ASSUME NEW m, Ordered(m), NEW s \in Slot \ Free(m)
  PROVE  LET n == timer_delete(m, s)
         IN  /\ Ordered(n)
             /\ n.next = m.next /\ n.use = m.use
             /\ Free(n) = Free(m) \cup {s}
             /\ Running(n) = Running(m) \ {s}
<1>. DEFINE k == timer_stop(m, s)
            n == timer_delete(m, s)
            q == Append(m.free, s)
<1>1. /\ Ordered(k) /\ k \in Manager
      /\ k.free = m.free /\ k.next = m.next /\ k.use = m.use
      /\ Running(k) = Running(m) \ {s}
  BY StopTimer DEF Ordered
<1>2. n = [k EXCEPT !.free = q]
  BY <1>1 DEF timer_delete
<1>. HIDE DEF k, n
<1>3. m.free \in Seq(Slot)
  BY Fields DEF Ordered
<1>4. /\ q \in Seq(Slot) /\ Len(q) = Len(m.free) + 1 /\ q[Len(m.free) + 1] = s
      /\ \A i \in 1 .. Len(m.free) : q[i] = m.free[i]
  BY <1>3
<1>. HIDE DEF q
<1>5. \A i \in 1 .. Len(q) : i \in 1 .. Len(m.free) \/ i = Len(m.free) + 1
  BY <1>3, <1>4
<1>6. \A i \in 1 .. Len(m.free) : m.free[i] # s
  BY <1>3 DEF Free, ToSet
<1>7. Distinct(q)
  BY <1>4, <1>5, <1>6 DEF Ordered, Distinct
<1>8. ToSet(q) = ToSet(m.free) \cup {s}
  <2>1. 1 .. Len(m.free) \subseteq 1 .. Len(q) /\ Len(m.free) + 1 \in 1 .. Len(q)
    BY <1>3, <1>4
  <2>. QED
    BY <1>3, <1>4, <1>5, <2>1, SMTT(20) DEF ToSet
<1>9. /\ n \in Manager /\ n.free = q /\ n.tree = k.tree
      /\ n.next = m.next /\ n.use = m.use
  BY <1>1, <1>2, <1>4 DEF Manager
<1>10. Free(n) = Free(m) \cup {s} /\ Running(n) = Running(m) \ {s}
  BY <1>1, <1>8, <1>9 DEF Free, Running
<1>11. Ordered(n)
  BY <1>1, <1>7, <1>9, <1>10 DEF Ordered
<1>. QED
  BY <1>9, <1>10, <1>11 DEF n

\* A timer that is added leaves the pool.
LEMMA AddTimer ==
  ASSUME NEW m, Ordered(m), m.free # <<>>, NEW u \in User
  PROVE  LET n == timer_add(m, u)
             s == Fresh(m)
         IN  /\ s \in Free(m) /\ s \in Slot
             /\ Ordered(n)
             /\ n.next = [m.next EXCEPT ![s] = Null]
             /\ n.use = [m.use EXCEPT ![s] = u]
             /\ Free(n) = Free(m) \ {s}
             /\ Running(n) = Running(m)
<1>. DEFINE n == timer_add(m, u)
            s == Fresh(m)
            q == Tail(m.free)
<1>1. /\ m \in Manager /\ m.free \in Seq(Slot)
      /\ m.next \in [Slot -> Slot \cup {Null}] /\ m.use \in [Slot -> User]
  BY Fields DEF Ordered
<1>2. /\ Len(m.free) \in Nat \ {0} /\ s = m.free[1] /\ s \in Slot
      /\ q \in Seq(Slot) /\ Len(q) = Len(m.free) - 1
      /\ \A i \in 1 .. Len(q) : q[i] = m.free[i + 1]
  BY <1>1 DEF Fresh
<1>3. n = [m EXCEPT !.free = q, !.next[s] = Null, !.use[s] = u]
  BY DEF timer_add
<1>. HIDE DEF n, s, q
<1>4. \A i \in 1 .. Len(q) : i + 1 \in 1 .. Len(m.free) /\ i + 1 # 1
  BY <1>2
<1>5. Distinct(q)
  BY <1>2, <1>4 DEF Ordered, Distinct
<1>6. ToSet(q) = ToSet(m.free) \ {s} /\ s \in ToSet(m.free)
  <2>1. \A i \in 1 .. Len(m.free) : i = 1 \/ i - 1 \in 1 .. Len(q)
    BY <1>2
  <2>2. \A i \in 1 .. Len(q) : m.free[i + 1] # s
    BY <1>2, <1>4 DEF Ordered, Distinct
  <2>3. 1 \in 1 .. Len(m.free)
    BY <1>2
  <2>4. \A x : x \in ToSet(q) => x \in ToSet(m.free) \ {s}
    BY <1>1, <1>2, <1>4, <2>2, InSequence
  <2>5. \A x \in ToSet(m.free) : x = s \/ x \in ToSet(q)
    <3>. TAKE x \in ToSet(m.free)
    <3>1. PICK i \in 1 .. Len(m.free) : m.free[i] = x
      BY <1>1, InSequence
    <3>2. i = 1 \/ (q[i - 1] = x /\ i - 1 \in 1 .. Len(q))
      <4>1. i # 1 => i - 1 \in 1 .. Len(q)
        BY <2>1
      <4>2. i # 1 => q[i - 1] = m.free[i]
        BY <1>2, <4>1
      <4>. QED
        BY <3>1, <4>1, <4>2
    <3>. QED
      BY <1>2, <3>1, <3>2, InSequence
  <2>6. s \in ToSet(m.free)
    BY <1>1, <1>2, <2>3, InSequence
  <2>. QED
    BY <2>4, <2>5, <2>6
<1>7. /\ n \in Manager /\ n.free = q /\ n.tree = m.tree
      /\ n.next = [m.next EXCEPT ![s] = Null]
      /\ n.use = [m.use EXCEPT ![s] = u]
  BY <1>1, <1>2, <1>3 DEF Manager
<1>8. Free(n) = Free(m) \ {s} /\ Running(n) = Running(m) /\ s \in Free(m)
  BY <1>6, <1>7 DEF Free, Running
<1>9. Ordered(n)
  BY <1>5, <1>7, <1>8 DEF Ordered
<1>. QED
  BY <1>2, <1>7, <1>8, <1>9 DEF n, s

-----------------------------------------------------------------------------
(* The operations of the UPF on its timers. *)

\* The constants, one by one.
LEMMA Constants ==
  /\ Null \notin Slot /\ MaxDuration \in Nat \ {0}
  /\ Pool \in Seq(Slot) /\ ToSet(Pool) = Slot /\ Distinct(Pool)
  /\ Triggers \in Seq(User) /\ Distinct(Triggers)
  /\ Trigger = {Triggers[i] : i \in 1 .. Len(Triggers)}
  /\ User = Trigger \cup {Report} /\ Report \notin Trigger
  /\ \A t \in Trigger : Period[t] \in 1 .. MaxDuration
  /\ T1 \in 1 .. MaxDuration
  /\ N1 \in Nat \ {0} /\ N1 \in 0 .. N1 /\ 0 \in 0 .. N1
<1>1. /\ Pool \in Seq(Slot) /\ IsInjective(Pool)
      /\ Triggers \in Seq(User) /\ IsInjective(Triggers)
  BY UsageAssumption
<1>2. Distinct(Pool) /\ Distinct(Triggers)
  BY <1>1 DEF Distinct, IsInjective
<1>3. Trigger = {Triggers[i] : i \in 1 .. Len(Triggers)}
  BY <1>1 DEF Trigger, ToSet
<1>. QED
  BY <1>1, <1>2, <1>3, TimerAssumption, UsageAssumption

\* A timer is in the pool if and only if it is of no transaction and of no
\* trigger, and what it is for is what it is used for - so that no timer has
\* two owners.
Owned(m, u, r) ==
  /\ \A s \in Slot : s \in Free(m) <=> (r[s] = 0 /\ \A t \in Trigger : u[t] # s)
  /\ \A s \in Slot : r[s] > 0 => m.use[s] = Report
  /\ \A t \in Trigger : u[t] # Null => m.use[u[t]] = t

Sound(w) == /\ w \in Work
            /\ Ordered(w.mgr)
            /\ Owned(w.mgr, w.urr, w.rcount)

\* From w to v nothing is taken away: what runs goes on, nothing returns to
\* the pool, no link of a timer outside the pool changes, a trigger keeps its
\* timer and a transaction the state of its own, and a new transaction has one
\* that runs.
Grown(w, v) ==
  /\ Running(w.mgr) \subseteq Running(v.mgr)
  /\ \A s \in Slot \ Free(w.mgr) :
       s \notin Free(v.mgr) /\ v.mgr.next[s] = w.mgr.next[s]
  /\ \A s \in Slot : v.rcount[s] > 0 => w.rcount[s] > 0 \/ s \in Running(v.mgr)
  /\ \A s \in Slot : w.rcount[s] > 0 =>
       v.rcount[s] > 0 /\ (s \in Running(v.mgr) => s \in Running(w.mgr))
  /\ \A t \in Trigger : w.urr[t] # Null => v.urr[t] = w.urr[t]
  /\ v.ok => w.ok

\* The fields of what the operations work on.
LEMMA WorkFields ==
  ASSUME NEW w \in Work
  PROVE  /\ w.mgr \in Manager /\ w.urr \in [Trigger -> Slot \cup {Null}]
         /\ w.rcount \in [Slot -> 0 .. N1] /\ w.ok \in BOOLEAN
  BY DEF Work

\* Nothing is taken away by doing nothing.
LEMMA GrownRefl ==
  ASSUME NEW w
  PROVE  Grown(w, w)
  BY DEF Grown

\* Steps that take nothing away, one after the other.
LEMMA GrownTrans ==
  ASSUME NEW w, NEW v, NEW x, Grown(w, v), Grown(v, x)
  PROVE  Grown(w, x)
<1>1. Running(w.mgr) \subseteq Running(x.mgr)
  BY DEF Grown
<1>2. \A s \in Slot \ Free(w.mgr) :
        s \notin Free(x.mgr) /\ x.mgr.next[s] = w.mgr.next[s]
  BY DEF Grown
<1>3. \A s \in Slot : x.rcount[s] > 0 => w.rcount[s] > 0 \/ s \in Running(x.mgr)
  BY DEF Grown
<1>4. \A t \in Trigger : w.urr[t] # Null => x.urr[t] = w.urr[t]
  BY DEF Grown
<1>5. x.ok => w.ok
  BY DEF Grown
<1>6. \A s \in Slot : w.rcount[s] > 0 =>
        x.rcount[s] > 0 /\ (s \in Running(x.mgr) => s \in Running(w.mgr))
  BY DEF Grown
<1>. QED
  BY <1>1, <1>2, <1>3, <1>4, <1>5, <1>6 DEF Grown

\* Stopping a timer.
LEMMA StopSound ==
  ASSUME NEW w, Sound(w), NEW s \in Slot
  PROVE  LET v == [w EXCEPT !.mgr = timer_stop(@, s)]
         IN  /\ Sound(v)
             /\ v.mgr.free = w.mgr.free /\ v.mgr.next = w.mgr.next
             /\ v.mgr.use = w.mgr.use
             /\ Running(v.mgr) = Running(w.mgr) \ {s}
             /\ v.urr = w.urr /\ v.rcount = w.rcount /\ v.ok = w.ok
<1>. DEFINE n == timer_stop(w.mgr, s)
            v == [w EXCEPT !.mgr = n]
<1>1. /\ Ordered(n)
      /\ n.free = w.mgr.free /\ n.next = w.mgr.next /\ n.use = w.mgr.use
      /\ Running(n) = Running(w.mgr) \ {s}
  BY StopTimer DEF Sound
<1>2. n \in Manager /\ w \in Work
  BY <1>1 DEF Ordered, Sound
<1>. HIDE DEF n
<1>3. /\ v \in Work /\ v.mgr = n
      /\ v.urr = w.urr /\ v.rcount = w.rcount /\ v.ok = w.ok
  BY <1>2 DEF Work
<1>4. [w EXCEPT !.mgr = timer_stop(@, s)] = v
  BY DEF n
<1>. HIDE DEF v
<1>5. Owned(n, w.urr, w.rcount)
  BY <1>1 DEF Sound, Owned, Free
<1>6. Sound(v)
  BY <1>1, <1>3, <1>5 DEF Sound
<1>. QED
  BY <1>1, <1>3, <1>4, <1>6

\* Starting a timer that is not in the pool.
LEMMA StartSound ==
  ASSUME NEW w, Sound(w), NEW s \in Slot \ Free(w.mgr), NEW d \in 1 .. MaxDuration
  PROVE  LET v == [w EXCEPT !.mgr = timer_start(@, s, d)]
         IN  /\ Sound(v)
             /\ v.mgr.free = w.mgr.free /\ v.mgr.next = w.mgr.next
             /\ v.mgr.use = w.mgr.use
             /\ Running(v.mgr) = Running(w.mgr) \cup {s}
             /\ v.urr = w.urr /\ v.rcount = w.rcount /\ v.ok = w.ok
<1>. DEFINE n == timer_start(w.mgr, s, d)
            v == [w EXCEPT !.mgr = n]
<1>1. /\ Ordered(n)
      /\ n.free = w.mgr.free /\ n.next = w.mgr.next /\ n.use = w.mgr.use
      /\ Running(n) = Running(w.mgr) \cup {s}
  BY StartTimer DEF Sound
<1>2. n \in Manager /\ w \in Work
  BY <1>1 DEF Ordered, Sound
<1>. HIDE DEF n
<1>3. /\ v \in Work /\ v.mgr = n
      /\ v.urr = w.urr /\ v.rcount = w.rcount /\ v.ok = w.ok
  BY <1>2 DEF Work
<1>4. [w EXCEPT !.mgr = timer_start(@, s, d)] = v
  BY DEF n
<1>. HIDE DEF v
<1>5. Owned(n, w.urr, w.rcount)
  BY <1>1 DEF Sound, Owned, Free
<1>6. Sound(v)
  BY <1>1, <1>3, <1>5 DEF Sound
<1>. QED
  BY <1>1, <1>3, <1>4, <1>6

\* A timer of the pool is added and started: the manager.
LEMMA FreshTimer ==
  ASSUME NEW w, Sound(w), w.mgr.free # <<>>, NEW u \in User,
         NEW d \in 1 .. MaxDuration
  PROVE  LET s == Fresh(w.mgr)
             n == timer_start(timer_add(w.mgr, u), s, d)
         IN  /\ s \in Free(w.mgr) /\ s \in Slot /\ Ordered(n)
             /\ n.next = [w.mgr.next EXCEPT ![s] = Null]
             /\ n.use = [w.mgr.use EXCEPT ![s] = u]
             /\ Free(n) = Free(w.mgr) \ {s}
             /\ Running(n) = Running(w.mgr) \cup {s}
<1>. DEFINE s == Fresh(w.mgr)
            k == timer_add(w.mgr, u)
            n == timer_start(k, s, d)
<1>1. Ordered(w.mgr)
  BY DEF Sound
<1>2. /\ s \in Free(w.mgr) /\ s \in Slot /\ Ordered(k)
      /\ k.next = [w.mgr.next EXCEPT ![s] = Null]
      /\ k.use = [w.mgr.use EXCEPT ![s] = u]
      /\ Free(k) = Free(w.mgr) \ {s} /\ Running(k) = Running(w.mgr)
  BY <1>1, AddTimer
<1>. HIDE DEF s, k
<1>3. s \in Slot \ Free(k)
  BY <1>2
<1>4. /\ Ordered(n) /\ n.free = k.free /\ n.next = k.next /\ n.use = k.use
      /\ Running(n) = Running(k) \cup {s}
  BY <1>2, <1>3, StartTimer
<1>5. Free(n) = Free(k)
  BY <1>4 DEF Free
<1>. QED
  BY <1>2, <1>4, <1>5 DEF s, k

\* A pool without a timer: nothing but ok changes.
LEMMA FailSound ==
  ASSUME NEW w, Sound(w)
  PROVE  LET v == [w EXCEPT !.ok = FALSE]
         IN  Sound(v) /\ Grown(w, v) /\ ~v.ok
<1>. DEFINE v == [w EXCEPT !.ok = FALSE]
<1>1. w \in Work
  BY DEF Sound
<1>2. /\ v \in Work /\ v.mgr = w.mgr /\ v.urr = w.urr /\ v.rcount = w.rcount
      /\ v.ok = FALSE
  BY <1>1 DEF Work
<1>. HIDE DEF v
<1>3. Sound(v) /\ Grown(w, v)
  BY <1>2 DEF Sound, Grown
<1>. QED
  BY <1>2, <1>3 DEF v

\* A report takes a timer from the pool, or fails.
LEMMA SendReport ==
  ASSUME NEW w, Sound(w)
  PROVE  Sound(send_report(w)) /\ Grown(w, send_report(w))
<1>1. CASE w.mgr.free = <<>>
  BY <1>1, FailSound DEF send_report
<1>2. CASE w.mgr.free # <<>>
  <2>. DEFINE s == Fresh(w.mgr)
              n == timer_start(timer_add(w.mgr, Report), s, T1)
              r == [w.rcount EXCEPT ![s] = N1]
              v == [w EXCEPT !.mgr = n, !.rcount = r]
  <2>1. /\ s \in Free(w.mgr) /\ s \in Slot /\ Ordered(n)
        /\ n.next = [w.mgr.next EXCEPT ![s] = Null]
        /\ n.use = [w.mgr.use EXCEPT ![s] = Report]
        /\ Free(n) = Free(w.mgr) \ {s}
        /\ Running(n) = Running(w.mgr) \cup {s}
    BY <1>2, Constants, FreshTimer
  <2>2. send_report(w) = v
    BY <1>2 DEF send_report
  <2>3. w \in Work /\ n \in Manager
    BY <2>1 DEF Sound, Ordered
  <2>. HIDE DEF s, n
  <2>4. r \in [Slot -> 0 .. N1] /\ r[s] = N1 /\ \A x \in Slot \ {s} : r[x] = w.rcount[x]
    BY <2>1, <2>3, WorkFields, Constants
  <2>. HIDE DEF r
  <2>5. /\ v \in Work /\ v.mgr = n /\ v.urr = w.urr /\ v.rcount = r /\ v.ok = w.ok
    BY <2>3, <2>4 DEF Work
  <2>. HIDE DEF v
  <2>6. /\ \A x \in Slot \ {s} : n.use[x] = w.mgr.use[x] /\ n.next[x] = w.mgr.next[x]
        /\ n.use[s] = Report
    BY <2>1, <2>3, WorkFields, Fields
  <2>7. Owned(n, w.urr, r)
    <3>1. \A t \in Trigger : w.urr[t] # s /\ (w.urr[t] # Null => w.urr[t] \in Slot)
      BY <2>1, <2>3, WorkFields DEF Sound, Owned
    <3>2. r[s] # 0 /\ r[s] > 0
      BY <2>4, Constants
    <3>3. \A x \in Slot : x \in Free(n) <=> (r[x] = 0 /\ \A t \in Trigger : w.urr[t] # x)
      BY <2>1, <2>4, <3>2 DEF Sound, Owned
    <3>4. \A x \in Slot : r[x] > 0 => n.use[x] = Report
      BY <2>4, <2>6 DEF Sound, Owned
    <3>5. \A t \in Trigger : w.urr[t] # Null => n.use[w.urr[t]] = t
      BY <2>6, <3>1 DEF Sound, Owned
    <3>. QED
      BY <3>3, <3>4, <3>5 DEF Owned
  <2>8. Sound(v)
    BY <2>1, <2>5, <2>7 DEF Sound
  <2>9. Grown(w, v)
    <3>1. w.rcount[s] = 0
      BY <2>1 DEF Sound, Owned
    <3>2. \A x \in Slot : w.rcount[x] > 0 => x # s
      BY <3>1
    <3>. QED
      BY <2>1, <2>4, <2>5, <2>6, <3>2 DEF Grown
  <2>. QED
    BY <2>2, <2>8, <2>9
<1>. QED
  BY <1>1, <1>2

\* The timer of a trigger is started, after it has been added if need be.
LEMMA TriggerSetup ==
  ASSUME NEW w, Sound(w), NEW t \in Trigger
  PROVE  LET v == trigger_setup(w, t)
         IN  /\ Sound(v) /\ Grown(w, v)
             /\ v.ok => v.urr[t] \in Running(v.mgr)
             /\ v.rcount = w.rcount
<1>0. w \in Work /\ t \in User /\ Period[t] \in 1 .. MaxDuration
  BY Constants DEF Sound
<1>1. CASE w.urr[t] # Null
  <2>. DEFINE s == w.urr[t]
              v == [w EXCEPT !.mgr = timer_start(@, s, Period[t])]
  <2>1. trigger_setup(w, t) = v
    BY <1>0, <1>1 DEF trigger_setup
  <2>2. s \in Slot \ Free(w.mgr)
    BY <1>0, <1>1, WorkFields DEF Sound, Owned
  <2>3. /\ Sound(v)
        /\ v.mgr.free = w.mgr.free /\ v.mgr.next = w.mgr.next
        /\ Running(v.mgr) = Running(w.mgr) \cup {s}
        /\ v.urr = w.urr /\ v.rcount = w.rcount /\ v.ok = w.ok
    BY <1>0, <2>2, StartSound
  <2>. HIDE DEF v
  <2>4. Grown(w, v)
    <3>1. \A x \in Slot : w.rcount[x] > 0 => x # s
      <4>1. w.mgr.use[s] = t /\ t # Report
        BY <1>1, Constants DEF Sound, Owned
      <4>. HIDE DEF s
      <4>. QED
        BY <4>1 DEF Sound, Owned
    <3>. HIDE DEF s
    <3>. QED
      BY <2>3, <3>1 DEF Grown, Free
  <2>. QED
    BY <2>1, <2>3, <2>4
<1>2. CASE w.urr[t] = Null /\ w.mgr.free = <<>>
  <2>. DEFINE v == [w EXCEPT !.ok = FALSE]
  <2>1. trigger_setup(w, t) = v
    BY <1>0, <1>2 DEF trigger_setup
  <2>2. v.rcount = w.rcount
    BY <1>0 DEF Work
  <2>. QED
    BY <2>1, <2>2, FailSound
<1>3. CASE w.urr[t] = Null /\ w.mgr.free # <<>>
  <2>. DEFINE d == Period[t]
              s == Fresh(w.mgr)
              n == timer_start(timer_add(w.mgr, t), s, d)
              u == [w.urr EXCEPT ![t] = s]
              v == [w EXCEPT !.mgr = n, !.urr = u]
  <2>1. /\ s \in Free(w.mgr) /\ s \in Slot /\ Ordered(n)
        /\ n.next = [w.mgr.next EXCEPT ![s] = Null]
        /\ n.use = [w.mgr.use EXCEPT ![s] = t]
        /\ Free(n) = Free(w.mgr) \ {s}
        /\ Running(n) = Running(w.mgr) \cup {s}
    <3>1. d \in 1 .. MaxDuration
      BY <1>0
    <3>2. t \in User /\ w.mgr.free # <<>>
      BY <1>0, <1>3
    <3>. HIDE DEF d, u, v
    <3>. QED
      BY <3>1, <3>2, FreshTimer, Zenon
  <2>2. trigger_setup(w, t) = v
    BY <1>0, <1>3 DEF trigger_setup
  <2>3. n \in Manager
    BY <2>1 DEF Ordered
  <2>. HIDE DEF s, n
  <2>4. /\ u \in [Trigger -> Slot \cup {Null}] /\ u[t] = s
        /\ \A x \in Trigger \ {t} : u[x] = w.urr[x]
    BY <1>0, <2>1, WorkFields
  <2>. HIDE DEF u
  <2>5. /\ v \in Work /\ v.mgr = n /\ v.urr = u /\ v.rcount = w.rcount
        /\ v.ok = w.ok
    BY <1>0, <2>3, <2>4 DEF Work
  <2>. HIDE DEF v
  <2>6. /\ \A x \in Slot \ {s} : n.use[x] = w.mgr.use[x] /\ n.next[x] = w.mgr.next[x]
        /\ n.use[s] = t
    BY <1>0, <2>1, WorkFields, Fields
  <2>7. Owned(n, u, w.rcount)
    <3>1. /\ \A x \in Trigger : w.urr[x] # s /\ (w.urr[x] # Null => w.urr[x] \in Slot)
          /\ w.rcount[s] = 0
      BY <1>0, <2>1, WorkFields DEF Sound, Owned
    <3>2. \A x \in Slot : x \in Free(n) <=> (w.rcount[x] = 0 /\ \A y \in Trigger : u[y] # x)
      <4>. TAKE x \in Slot
      <4>1. x # Null /\ (x \in Free(w.mgr) <=>
              (w.rcount[x] = 0 /\ \A y \in Trigger : w.urr[y] # x))
        BY Constants DEF Sound, Owned
      <4>2. x # s => ((\A y \in Trigger : u[y] # x)
                        <=> (\A y \in Trigger : w.urr[y] # x))
        BY <1>3, <2>4, <4>1
      <4>3. x = s => x \notin Free(n) /\ ~(\A y \in Trigger : u[y] # x)
        BY <2>1, <2>4
      <4>. QED
        BY <2>1, <4>1, <4>2, <4>3
    <3>3. \A x \in Slot : w.rcount[x] > 0 => n.use[x] = Report
      BY <2>6, <3>1 DEF Sound, Owned
    <3>4. \A x \in Trigger : u[x] # Null => n.use[u[x]] = x
      BY <2>4, <2>6, <3>1 DEF Sound, Owned
    <3>. QED
      BY <3>2, <3>3, <3>4 DEF Owned
  <2>8. Sound(v)
    BY <2>1, <2>5, <2>7 DEF Sound
  <2>9. Grown(w, v)
    <3>1. w.rcount[s] = 0
      BY <2>1 DEF Sound, Owned
    <3>2. \A x \in Slot : w.rcount[x] > 0 => x # s
      BY <3>1
    <3>3. \A x \in Slot : w.rcount[x] > 0 =>
            v.rcount[x] > 0 /\ (x \in Running(v.mgr) => x \in Running(w.mgr))
      BY <2>1, <2>5, <3>2
    <3>4. \A x \in Trigger : w.urr[x] # Null => v.urr[x] = w.urr[x]
      BY <1>3, <2>4, <2>5
    <3>. QED
      BY <2>1, <2>5, <2>6, <3>3, <3>4 DEF Grown
  <2>. QED
    BY <2>1, <2>2, <2>4, <2>5, <2>8, <2>9
<1>. QED
  BY <1>1, <1>2, <1>3

\* The set-up of all triggers, one after the other.
LEMMA TimersSetup ==
  ASSUME NEW w, Sound(w)
  PROVE  LET v == timers_setup(w)
         IN  /\ Sound(v) /\ Grown(w, v)
             /\ v.ok => \A t \in Trigger : v.urr[t] \in Running(v.mgr)
             /\ v.rcount = w.rcount
<1>. DEFINE n == Len(Triggers)
            A == {v \in Work : Sound(v)}
            Step(i, v) == trigger_setup(v, Triggers[i])
            Value(f, i) == IF i = 0 THEN w ELSE Step(i, f[i - 1])
            Solves(f) == f = [i \in 0 .. n |-> Value(f, i)]
            h == CHOOSE f : Solves(f)
<1>0. n \in Nat /\ w \in A /\ \A i \in 1 .. n : Triggers[i] \in Trigger
  BY Constants DEF Sound
<1>1. \E f : Solves(f)
  <2>. DEFINE step == [i \in 1 .. n |-> [v \in A |-> Step(i, v)]]
  <2>1. \A i \in 1 .. n : \A v \in A : Step(i, v) \in A
    BY <1>0, TriggerSetup DEF Sound
  <2>. HIDE DEF n, A, Step
  <2>2. step \in [1 .. n -> [A -> A]]
    BY <2>1, Zenon
  <2>. HIDE DEF step
  <2>3. PICK f : Iterates(f, n, A, w, step)
    BY <1>0, <2>2, Iteration
  <2>4. /\ f \in [0 .. n -> A] /\ f[0] = w
        /\ \A i \in 1 .. n : f[i] = step[i][f[i - 1]]
    BY <2>3 DEF Iterates
  <2>5. \A i \in 0 .. n : f[i] = Value(f, i)
    <3>1. ASSUME NEW i \in 1 .. n PROVE f[i] = Step(i, f[i - 1])
      <4>1. i - 1 \in 0 .. n
        BY <1>0
      <4>2. f[i - 1] \in A
        BY <2>4, <4>1
      <4>. QED
        BY <2>4, <4>2 DEF step
    <3>2. \A i \in 0 .. n : i = 0 \/ i \in 1 .. n
      BY <1>0
    <3>. QED
      BY <2>4, <3>1, <3>2
  <2>. HIDE DEF Value
  <2>6. Solves(f)
    BY <2>4, <2>5, Zenon
  <2>. HIDE DEF Solves
  <2>. QED
    BY <2>6, Zenon
<1>2. Solves(h)
  <2>. HIDE DEF Solves
  <2>. QED
    BY <1>1, Zenon
<1>3. timers_setup(w) = h[n]
  BY DEF timers_setup
<1>. HIDE DEF h
<1>4. h[0] = w /\ \A i \in 1 .. n : h[i] = trigger_setup(h[i - 1], Triggers[i])
  <2>1. \A i \in 0 .. n : h[i] = Value(h, i)
    <3>. HIDE DEF Value
    <3>. QED
      BY <1>2, Zenon
  <2>2. 0 \in 0 .. n /\ \A i \in 1 .. n : i \in 0 .. n /\ i # 0
    BY <1>0
  <2>. QED
    BY <2>1, <2>2
<1>. HIDE DEF Solves, A
<1>. DEFINE Good(i) ==
              /\ Sound(h[i]) /\ Grown(w, h[i])
              /\ h[i].ok => \A j \in 1 .. i :
                              h[i].urr[Triggers[j]] \in Running(h[i].mgr)
              /\ h[i].rcount = w.rcount
            G == {i \in 0 .. n : Good(i)}
<1>5. Good(0)
  BY <1>4, GrownRefl
<1>6. ASSUME NEW i \in 1 .. n, Good(i - 1)
      PROVE  Good(i)
  <2>. DEFINE v == h[i - 1]
              x == h[i]
  <2>1. x = trigger_setup(v, Triggers[i]) /\ Triggers[i] \in Trigger
    BY <1>0, <1>4
  <2>. HIDE DEF x
  <2>2. /\ Sound(v) /\ Grown(w, v) /\ v.rcount = w.rcount
        /\ v.ok => \A j \in 1 .. i - 1 : v.urr[Triggers[j]] \in Running(v.mgr)
    BY <1>6
  <2>. HIDE DEF v
  <2>3. /\ Sound(x) /\ Grown(v, x) /\ x.rcount = v.rcount
        /\ x.ok => x.urr[Triggers[i]] \in Running(x.mgr)
    BY <2>1, <2>2, TriggerSetup
  <2>4. Grown(w, x)
    BY <2>2, <2>3, GrownTrans
  <2>5. ASSUME x.ok, NEW j \in 1 .. i
        PROVE  x.urr[Triggers[j]] \in Running(x.mgr)
    <3>1. CASE j = i
      BY <2>3, <2>5, <3>1
    <3>2. CASE j # i
      <4>1. j \in 1 .. i - 1 /\ j \in 1 .. n
        BY <1>0, <3>2
      <4>2. Triggers[j] \in Trigger /\ v.ok
        BY <1>0, <2>3, <2>5, <4>1 DEF Grown
      <4>3. v.urr[Triggers[j]] \in Running(v.mgr)
        BY <2>2, <4>1, <4>2
      <4>4. v.urr[Triggers[j]] # Null
        BY <2>2, <4>3, Fields, Constants DEF Sound, Ordered
      <4>. QED
        BY <2>3, <4>2, <4>3, <4>4 DEF Grown
    <3>. QED
      BY <3>1, <3>2
  <2>. QED
    BY <2>2, <2>3, <2>4, <2>5 DEF x
<1>. HIDE DEF Good
<1>7. Good(n)
  <2>1. G \in SUBSET (0 .. n) /\ 0 \in G /\ \A i \in 1 .. n : i - 1 \in G => i \in G
    BY <1>0, <1>5, <1>6
  <2>. HIDE DEF G, n
  <2>2. G = 0 .. n /\ n \in 0 .. n
    BY <1>0, <2>1, SetInduction
  <2>. QED
    BY <2>2 DEF G
<1>8. h[n].ok => \A t \in Trigger : h[n].urr[t] \in Running(h[n].mgr)
  BY <1>7, Constants DEF Good
<1>. QED
  BY <1>3, <1>7, <1>8 DEF Good

\* The timer of a transaction is returned.
LEMMA XactDelete ==
  ASSUME NEW w, Sound(w), NEW s \in Slot, w.rcount[s] > 0
  PROVE  LET v == xact_delete(w, s)
         IN  /\ Sound(v)
             /\ Running(v.mgr) = Running(w.mgr) \ {s}
             /\ v.mgr.next = w.mgr.next
             /\ v.urr = w.urr /\ v.ok = w.ok
             /\ v.rcount = [w.rcount EXCEPT ![s] = 0]
<1>. DEFINE n == timer_delete(w.mgr, s)
            r == [w.rcount EXCEPT ![s] = 0]
            v == [w EXCEPT !.mgr = n, !.rcount = r]
<1>1. /\ w \in Work /\ Ordered(w.mgr) /\ s \in Slot \ Free(w.mgr)
      /\ w.mgr.use[s] = Report /\ w.rcount \in [Slot -> 0 .. N1]
      /\ w.urr \in [Trigger -> Slot \cup {Null}]
  <2>1. /\ w \in Work /\ Ordered(w.mgr) /\ w.rcount \in [Slot -> 0 .. N1]
        /\ w.urr \in [Trigger -> Slot \cup {Null}]
    BY WorkFields DEF Sound
  <2>2. w.rcount[s] # 0
    BY <2>1, Constants
  <2>. QED
    BY <2>1, <2>2 DEF Sound, Owned
<1>2. /\ Ordered(n) /\ n.next = w.mgr.next /\ n.use = w.mgr.use
      /\ Free(n) = Free(w.mgr) \cup {s} /\ Running(n) = Running(w.mgr) \ {s}
  BY <1>1, DeleteTimer
<1>3. xact_delete(w, s) = v
  BY DEF xact_delete
<1>4. n \in Manager
  BY <1>2 DEF Ordered
<1>. HIDE DEF n
<1>5. r \in [Slot -> 0 .. N1] /\ r[s] = 0 /\ \A x \in Slot \ {s} : r[x] = w.rcount[x]
  BY <1>1, Constants
<1>6. v \in Work /\ v.mgr = n /\ v.urr = w.urr /\ v.rcount = r /\ v.ok = w.ok
  <2>. HIDE DEF r
  <2>. QED
    BY <1>1, <1>4, <1>5 DEF Work
<1>. HIDE DEF v, r
<1>7. Owned(n, w.urr, r)
  <2>1. \A t \in Trigger : w.urr[t] # s
    <3>1. \A t \in Trigger : w.urr[t] # Null => w.mgr.use[w.urr[t]] = t
      BY DEF Sound, Owned
    <3>. QED
      BY <1>1, <3>1, Constants
  <2>2. \A x \in Slot : x \in Free(n) <=> (r[x] = 0 /\ \A t \in Trigger : w.urr[t] # x)
    BY <1>2, <1>5, <2>1 DEF Sound, Owned
  <2>3. \A x \in Slot : r[x] > 0 => n.use[x] = Report
    BY <1>2, <1>5 DEF Sound, Owned
  <2>4. \A t \in Trigger : w.urr[t] # Null => n.use[w.urr[t]] = t
    BY <1>2 DEF Sound, Owned
  <2>. QED
    BY <2>2, <2>3, <2>4 DEF Owned
<1>8. Sound(v)
  BY <1>2, <1>6, <1>7 DEF Sound
<1>. QED
  BY <1>2, <1>3, <1>6, <1>8 DEF r

\* What is deleted from a manager is one again.
LEMMA DeleteType ==
  ASSUME NEW m \in Manager, NEW s \in Slot
  PROVE  timer_delete(m, s) \in Manager
<1>. DEFINE q == Only(m.tree, Slot \ {s})
            l == [m.left EXCEPT ![s] = 0]
            f == Append(m.free, s)
<1>1. q \in Seq(Slot) /\ f \in Seq(Slot) /\ l \in [Slot -> 0 .. MaxDuration]
  BY Fields, OnlySelects, TimerAssumption
<1>2. timer_delete(m, s) = [m EXCEPT !.tree = q, !.left = l, !.free = f]
  BY DEF timer_delete, timer_stop, Manager
<1>. HIDE DEF q, l, f
<1>. QED
  BY <1>1, <1>2 DEF Manager

\* All timers of a session's triggers are returned.
LEMMA RemoveAll ==
  ASSUME NEW w, Sound(w), \A t \in Trigger : w.urr[t] \in Slot
  PROVE  LET v == remove_all(w)
         IN  /\ Sound(v)
             /\ \A s \in Slot : w.rcount[s] > 0 /\ s \in Running(w.mgr)
                                  => s \in Running(v.mgr)
             /\ Running(v.mgr) \subseteq Running(w.mgr)
             /\ v.urr = [t \in Trigger |-> Null]
             /\ v.rcount = w.rcount /\ v.ok = w.ok
<1>. DEFINE n == Len(Triggers)
            Of(i) == w.urr[Triggers[i]]
            Step(i, m) == timer_delete(m, Of(i))
            Value(f, i) == IF i = 0 THEN w.mgr ELSE Step(i, f[i - 1])
            Solves(f) == f = [i \in 0 .. n |-> Value(f, i)]
            h == CHOOSE f : Solves(f)
<1>0. /\ n \in Nat /\ w \in Work /\ w.mgr \in Manager /\ Ordered(w.mgr)
      /\ \A i \in 1 .. n : Triggers[i] \in Trigger /\ Of(i) \in Slot
  <2>1. n \in Nat /\ \A i \in 1 .. n : Triggers[i] \in Trigger
    BY Constants
  <2>2. w \in Work /\ w.mgr \in Manager /\ Ordered(w.mgr)
    BY WorkFields DEF Sound
  <2>. QED
    BY <2>1, <2>2
<1>1. \E f : Solves(f)
  <2>. DEFINE a == w.mgr
              step == [i \in 1 .. n |-> [m \in Manager |-> Step(i, m)]]
  <2>1. \A i \in 1 .. n : \A m \in Manager : Step(i, m) \in Manager
    BY <1>0, DeleteType
  <2>. HIDE DEF n, Step
  <2>2. step \in [1 .. n -> [Manager -> Manager]]
    BY <2>1, Zenon
  <2>3. a \in Manager
    BY <1>0
  <2>. HIDE DEF step, a
  <2>4. PICK f : Iterates(f, n, Manager, a, step)
    BY <1>0, <2>2, <2>3, Iteration
  <2>5. /\ f \in [0 .. n -> Manager] /\ f[0] = a
        /\ \A i \in 1 .. n : f[i] = step[i][f[i - 1]]
    BY <2>4 DEF Iterates
  <2>6. \A i \in 0 .. n : f[i] = Value(f, i)
    <3>1. ASSUME NEW i \in 1 .. n PROVE f[i] = Step(i, f[i - 1])
      <4>1. i - 1 \in 0 .. n
        BY <1>0
      <4>2. f[i - 1] \in Manager
        BY <2>5, <4>1
      <4>. QED
        BY <2>5, <4>2 DEF step
    <3>2. \A i \in 0 .. n : i = 0 \/ i \in 1 .. n
      BY <1>0
    <3>. QED
      BY <2>5, <3>1, <3>2 DEF a
  <2>. HIDE DEF Value
  <2>7. Solves(f)
    BY <2>5, <2>6, Zenon
  <2>. HIDE DEF Solves
  <2>. QED
    BY <2>7, Zenon
<1>2. Solves(h)
  <2>. HIDE DEF Solves
  <2>. QED
    BY <1>1, Zenon
<1>. DEFINE u == [t \in Trigger |-> Null]
            v == [w EXCEPT !.mgr = h[n], !.urr = u]
<1>3. remove_all(w) = v
  BY DEF remove_all
<1>. HIDE DEF h, u
<1>4. h[0] = w.mgr /\ \A i \in 1 .. n : h[i] = timer_delete(h[i - 1], Of(i))
  <2>1. \A i \in 0 .. n : h[i] = Value(h, i)
    <3>. HIDE DEF Value
    <3>. QED
      BY <1>2, Zenon
  <2>2. 0 \in 0 .. n /\ \A i \in 1 .. n : i \in 0 .. n /\ i # 0
    BY <1>0
  <2>. QED
    BY <2>1, <2>2
<1>5. /\ \A i, j \in 1 .. n : Of(i) = Of(j) => i = j
      /\ \A i \in 1 .. n : Of(i) \notin Free(w.mgr) /\ w.rcount[Of(i)] = 0
      /\ \A t \in Trigger : \E i \in 1 .. n : t = Triggers[i]
  <2>1. \A i \in 1 .. n : w.mgr.use[Of(i)] = Triggers[i] /\ Of(i) \notin Free(w.mgr)
    <3>1. \A t \in Trigger : w.urr[t] # Null /\ w.urr[t] \in Slot
      BY Constants
    <3>2. \A t \in Trigger : w.mgr.use[w.urr[t]] = t /\ w.urr[t] \notin Free(w.mgr)
      BY <3>1 DEF Sound, Owned
    <3>. QED
      BY <1>0, <3>2
  <2>2. \A i \in 1 .. n : w.rcount[Of(i)] = 0
    <3>1. \A i \in 1 .. n : w.mgr.use[Of(i)] # Report /\ w.rcount[Of(i)] \in 0 .. N1
      BY <1>0, <2>1, WorkFields, Constants
    <3>2. \A i \in 1 .. n : ~(w.rcount[Of(i)] > 0)
      BY <1>0, <3>1 DEF Sound, Owned
    <3>. QED
      BY <3>1, <3>2, Constants
  <2>3. \A i, j \in 1 .. n : Triggers[i] = Triggers[j] => i = j
    BY Constants DEF Distinct
  <2>4. \A i, j \in 1 .. n : Of(i) = Of(j) => i = j
    BY <2>1, <2>3
  <2>. QED
    BY <2>1, <2>2, <2>4, Constants
<1>. HIDE DEF Solves
<1>. DEFINE Good(i) ==
              /\ Ordered(h[i]) /\ h[i].use = w.mgr.use
              /\ Free(h[i]) = Free(w.mgr) \cup {Of(j) : j \in 1 .. i}
              /\ Running(h[i]) = Running(w.mgr) \ {Of(j) : j \in 1 .. i}
            G == {i \in 0 .. n : Good(i)}
<1>6. Good(0)
  <2>1. {Of(j) : j \in 1 .. 0} = {}
    OBVIOUS
  <2>. QED
    BY <1>0, <1>4, <2>1
<1>7. ASSUME NEW i \in 1 .. n, Good(i - 1)
      PROVE  Good(i)
  <2>. DEFINE m == h[i - 1]
              k == h[i]
              s == Of(i)
              old == {Of(j) : j \in 1 .. i - 1}
              all == {Of(j) : j \in 1 .. i}
  <2>1. s \notin old /\ all = old \cup {s} /\ s \in Slot /\ s \notin Free(w.mgr)
    <3>1. \A j \in 1 .. i : j = i \/ j \in 1 .. i - 1
      BY <1>0
    <3>2. \A j \in 1 .. i - 1 : j \in 1 .. i /\ j \in 1 .. n /\ j # i
      BY <1>0
    <3>3. i \in 1 .. i
      BY <1>0
    <3>. HIDE DEF Of
    <3>4. all \subseteq old \cup {s}
      BY <3>1
    <3>5. old \cup {s} \subseteq all
      BY <3>2, <3>3
    <3>6. s \notin old
      BY <1>5, <3>2
    <3>. QED
      BY <1>0, <1>5, <3>4, <3>5, <3>6
  <2>2. k = timer_delete(m, s)
    BY <1>4
  <2>3. /\ Ordered(m) /\ m.use = w.mgr.use /\ Free(m) = Free(w.mgr) \cup old
        /\ Running(m) = Running(w.mgr) \ old
    BY <1>7
  <2>. HIDE DEF m, k, s, old, all
  <2>4. s \in Slot \ Free(m)
    BY <2>1, <2>3
  <2>5. /\ Ordered(k) /\ k.use = m.use /\ Free(k) = Free(m) \cup {s}
        /\ Running(k) = Running(m) \ {s}
    BY <2>2, <2>3, <2>4, DeleteTimer
  <2>6. /\ Ordered(k) /\ k.use = w.mgr.use /\ Free(k) = Free(w.mgr) \cup all
        /\ Running(k) = Running(w.mgr) \ all
    BY <2>1, <2>3, <2>5
  <2>. QED
    BY <2>6 DEF k, all
<1>. HIDE DEF Good
<1>8. Good(n)
  <2>1. G \in SUBSET (0 .. n) /\ 0 \in G /\ \A i \in 1 .. n : i - 1 \in G => i \in G
    BY <1>0, <1>6, <1>7
  <2>. HIDE DEF G, n
  <2>2. G = 0 .. n /\ n \in 0 .. n
    BY <1>0, <2>1, SetInduction
  <2>. QED
    BY <2>2 DEF G
<1>. DEFINE m == h[n]
            all == {Of(j) : j \in 1 .. n}
<1>9. /\ Ordered(m) /\ m \in Manager /\ m.use = w.mgr.use
      /\ Free(m) = Free(w.mgr) \cup all /\ Running(m) = Running(w.mgr) \ all
  BY <1>8 DEF Good, Ordered
<1>10. u \in [Trigger -> Slot \cup {Null}] /\ \A t \in Trigger : u[t] = Null
  BY DEF u
<1>11. \A s \in Slot : s \in all <=> \E t \in Trigger : w.urr[t] = s
  BY <1>0, <1>5
<1>. HIDE DEF m, all
<1>12. /\ v \in Work /\ v.mgr = m /\ v.urr = u /\ v.rcount = w.rcount
       /\ v.ok = w.ok
  BY <1>0, <1>9, <1>10 DEF Work, m
<1>. HIDE DEF v
<1>13. Owned(m, u, w.rcount)
  <2>1. \A s \in all : s \in Slot => w.rcount[s] = 0
    BY <1>5 DEF all
  <2>2. \A s \in Slot : s \in Free(m) <=> (w.rcount[s] = 0 /\ \A t \in Trigger : u[t] # s)
    <3>1. Null \notin Slot /\ \A s \in Slot : \A t \in Trigger : u[t] # s
      BY <1>10, Constants
    <3>2. \A s \in Slot : s \in Free(w.mgr) <=>
            (w.rcount[s] = 0 /\ \A t \in Trigger : w.urr[t] # s)
      BY DEF Sound, Owned
    <3>. QED
      BY <1>9, <1>11, <2>1, <3>1, <3>2
  <2>3. \A s \in Slot : w.rcount[s] > 0 => m.use[s] = Report
    BY <1>9 DEF Sound, Owned
  <2>. QED
    BY <1>10, <2>2, <2>3 DEF Owned
<1>14. Sound(v)
  BY <1>9, <1>12, <1>13 DEF Sound
<1>15. ASSUME NEW s \in Slot, w.rcount[s] > 0, s \in Running(w.mgr)
       PROVE  s \in Running(v.mgr)
  <2>1. s \notin all
    BY <1>5, <1>15, Constants DEF all
  <2>. QED
    BY <1>9, <1>12, <1>15, <2>1
<1>16. Running(v.mgr) \subseteq Running(w.mgr)
  BY <1>9, <1>12
<1>. QED
  BY <1>3, <1>12, <1>14, <1>15, <1>16 DEF u

-----------------------------------------------------------------------------
(* The walk of ogs_timer_mgr_expire. *)

\* What the steps of the UPF maintain of its timers: who owns them, the list
\* that is walked, and that what is waited for runs.
TimersInv == /\ up \in BOOLEAN /\ sess \in BOOLEAN
             /\ Sound(State)
             /\ batch \in Seq(Slot) /\ Distinct(batch)
             /\ ListIntact
             /\ dropped \subseteq Slot
             /\ TimersRun

\* Which transactions wait in vain, timer by timer.
LEMMA Waiting ==
  ASSUME TimersInv, up
  PROVE  \A s \in Slot :
           s \in dropped <=> (rcount[s] > 0 /\ s \notin Running(mgr))
  BY DEF TimersInv, TimersRun, Reports

\* The fields of State.
LEMMA StateFields ==
  /\ State.mgr = mgr /\ State.urr = urr /\ State.rcount = rcount
  /\ State.ok = TRUE
  BY DEF State

\* Sound, for the variables.
LEMMA SoundState ==
  ASSUME Sound(State)
  PROVE  /\ mgr \in Manager /\ urr \in [Trigger -> Slot \cup {Null}]
         /\ rcount \in [Slot -> 0 .. N1]
         /\ Ordered(mgr) /\ Owned(mgr, urr, rcount)
  BY StateFields, WorkFields DEF Sound

\* The state after operations on the timers.
LEMMA BecomesSound ==
  ASSUME NEW v, Sound(v), Becomes(v)
  PROVE  /\ Sound(State)'
         /\ mgr' = v.mgr /\ urr' = v.urr /\ rcount' = v.rcount /\ up' = v.ok
         /\ up' \in BOOLEAN
<1>1. /\ mgr' = v.mgr /\ urr' = v.urr /\ rcount' = v.rcount /\ up' = v.ok
  BY DEF Becomes
<1>2. v.ok \in BOOLEAN /\ v \in Work
  BY WorkFields DEF Sound
<1>3. /\ State' \in Work /\ State'.mgr = v.mgr /\ State'.urr = v.urr
      /\ State'.rcount = v.rcount
  BY <1>1, <1>2 DEF State, Work
<1>4. Sound(State')
  BY <1>3 DEF Sound
<1>5. Sound(State)'
  BY <1>4 DEF Sound, State
<1>. QED
  BY <1>1, <1>2, <1>5

\* The first element of a list.
LEMMA FirstOfList ==
  ASSUME NEW q \in Seq(Slot)
  PROVE  /\ FirstOf(q) = Null <=> q = <<>>
         /\ q # <<>> => /\ Len(q) \in Nat \ {0} /\ FirstOf(q) = q[1]
                        /\ q[1] \in Slot
  BY Constants DEF FirstOf

\* Outside of ogs_timer_mgr_expire there is no list.
LEMMA IdleList ==
  ASSUME TimersInv, cursor = Null
  PROVE  batch = <<>>
  BY FirstOfList DEF TimersInv, ListIntact

\* An empty list is intact.
LEMMA NoList ==
  ASSUME batch = <<>>, cursor = Null, UNCHANGED <<cursor, batch>>
  PROVE  batch' \in Seq(Slot) /\ Distinct(batch)' /\ ListIntact'
  BY DEF Distinct, ListIntact, FirstOf

\* The walk is at the first timer of the list, which runs.
LEMMA AtCursor ==
  ASSUME TimersInv, cursor # Null
  PROVE  /\ batch # <<>> /\ Len(batch) \in Nat \ {0} /\ batch[1] = cursor
         /\ cursor \in Slot /\ cursor \in Running(mgr) /\ cursor \notin Free(mgr)
<1>1. batch \in Seq(Slot) /\ cursor = FirstOf(batch)
  BY DEF TimersInv, ListIntact
<1>2. /\ batch # <<>> /\ Len(batch) \in Nat \ {0}
      /\ batch[1] = cursor /\ cursor \in Slot
  BY <1>1, FirstOfList
<1>3. cursor \in Running(mgr)
  BY <1>1, <1>2 DEF TimersInv, ListIntact
<1>. QED
  BY <1>2, <1>3, SoundState DEF TimersInv, Ordered

\* A callback that keeps the other timers running and the links of all leaves
\* the rest of the list intact.
LEMMA Walk ==
  ASSUME TimersInv, cursor # Null, Advance,
         Running(mgr) \ {cursor} \subseteq Running(mgr'),
         \A s \in Running(mgr) : mgr'.next[s] = mgr.next[s]
  PROVE  batch' \in Seq(Slot) /\ Distinct(batch)' /\ ListIntact'
<1>. DEFINE q == Tail(batch)
<1>1. /\ batch \in Seq(Slot) /\ Distinct(batch)
      /\ \A i \in 1 .. Len(batch) :
           /\ mgr.next[batch[i]] = IF i = Len(batch) THEN Null ELSE batch[i + 1]
           /\ batch[i] \in Running(mgr)
  BY DEF TimersInv, ListIntact
<1>2. /\ batch # <<>> /\ Len(batch) \in Nat \ {0} /\ batch[1] = cursor
      /\ cursor \in Running(mgr)
  BY AtCursor
<1>3. batch' = q /\ cursor' = mgr'.next[cursor]
  BY <1>2 DEF Advance
<1>4. /\ q \in Seq(Slot) /\ Len(q) = Len(batch) - 1
      /\ \A i \in 1 .. Len(q) : q[i] = batch[i + 1]
  BY <1>1, <1>2
<1>. HIDE DEF q
<1>5. \A i \in 1 .. Len(q) : i + 1 \in 1 .. Len(batch) /\ i + 1 # 1
  BY <1>2, <1>4
<1>6. Distinct(q)
  BY <1>1, <1>4, <1>5 DEF Distinct
<1>7. cursor' = FirstOf(q)
  <2>1. cursor' = IF 1 = Len(batch) THEN Null ELSE batch[2]
    <3>1. 1 \in 1 .. Len(batch) /\ 1 + 1 = 2
      BY <1>2
    <3>. QED
      BY <1>1, <1>2, <1>3, <3>1
  <2>2. CASE Len(batch) = 1
    <3>1. q = <<>>
      BY <1>4, <2>2
    <3>. QED
      BY <2>1, <2>2, <3>1 DEF FirstOf
  <2>3. CASE Len(batch) # 1
    <3>1. q # <<>> /\ 1 \in 1 .. Len(q)
      BY <1>2, <1>4, <2>3
    <3>2. q[1] = batch[2]
      BY <1>4, <3>1
    <3>. QED
      BY <1>4, <2>1, <2>3, <3>1, <3>2, FirstOfList
  <2>. QED
    BY <2>2, <2>3
<1>8. ASSUME NEW i \in 1 .. Len(q)
      PROVE  /\ mgr'.next[q[i]] = IF i = Len(q) THEN Null ELSE q[i + 1]
             /\ q[i] \in Running(mgr')
  <2>1. /\ i + 1 \in 1 .. Len(batch) /\ q[i] = batch[i + 1]
        /\ batch[i + 1] \in Running(mgr) /\ batch[i + 1] # cursor
    BY <1>1, <1>2, <1>4, <1>5 DEF Distinct
  <2>2. mgr'.next[q[i]] = IF i + 1 = Len(batch) THEN Null ELSE batch[(i + 1) + 1]
    BY <1>1, <2>1
  <2>3. i # Len(q) => i + 1 \in 1 .. Len(q)
    BY <1>4
  <2>4. i # Len(q) => q[i + 1] = batch[(i + 1) + 1]
    BY <1>4, <2>3
  <2>5. i = Len(q) <=> i + 1 = Len(batch)
    BY <1>2, <1>4
  <2>. QED
    BY <2>1, <2>2, <2>4, <2>5
<1>9. DOMAIN q = 1 .. Len(q)
  BY <1>4
<1>10. ListIntact'
  BY <1>3, <1>7, <1>8, <1>9 DEF ListIntact
<1>11. Distinct(batch)'
  BY <1>3, <1>6 DEF Distinct
<1>. QED
  BY <1>3, <1>4, <1>10, <1>11

\* The report timer of a transaction is started again, or the transaction ends.
LEMMA ResponseTimeout ==
  ASSUME NEW w, Sound(w), cursor \in Slot, w.rcount[cursor] > 0
  PROVE  LET v == response_timeout(w)
         IN  /\ Sound(v)
             /\ v.mgr.next = w.mgr.next
             /\ Running(w.mgr) \ {cursor} \subseteq Running(v.mgr)
             /\ Running(v.mgr) \subseteq Running(w.mgr) \cup {cursor}
             /\ v.urr = w.urr /\ v.ok = w.ok
             /\ \A x \in Slot \ {cursor} : v.rcount[x] = w.rcount[x]
             /\ v.rcount[cursor] > 0 => cursor \in Running(v.mgr)
<1>1. CASE w.rcount[cursor] > 1
  <2>. DEFINE x == [w EXCEPT !.mgr = timer_start(@, cursor, T1)]
              r == [w.rcount EXCEPT ![cursor] = @ - 1]
              v == [x EXCEPT !.rcount = r]
  <2>1. /\ w \in Work /\ w.rcount \in [Slot -> 0 .. N1] /\ N1 \in Nat
        /\ T1 \in 1 .. MaxDuration
    BY WorkFields, Constants DEF Sound
  <2>2. cursor \in Slot \ Free(w.mgr)
    <3>1. w.rcount[cursor] # 0
      BY <1>1, <2>1
    <3>. QED
      BY <3>1 DEF Sound, Owned
  <2>3. response_timeout(w) = v
    BY <1>1, <2>1 DEF response_timeout, Work
  <2>4. /\ Sound(x) /\ x.mgr.next = w.mgr.next
        /\ Running(x.mgr) = Running(w.mgr) \cup {cursor}
        /\ x.urr = w.urr /\ x.rcount = w.rcount /\ x.ok = w.ok
    BY <2>1, <2>2, StartSound
  <2>. HIDE DEF x
  <2>5. /\ r \in [Slot -> 0 .. N1] /\ r[cursor] > 0
        /\ \A s \in Slot \ {cursor} : r[s] = w.rcount[s]
    BY <1>1, <2>1
  <2>6. \A s \in Slot : /\ r[s] > 0 <=> w.rcount[s] > 0
                        /\ r[s] = 0 <=> w.rcount[s] = 0
    BY <1>1, <2>1, <2>5
  <2>. HIDE DEF r
  <2>7. /\ v \in Work /\ v.mgr = x.mgr /\ v.urr = x.urr /\ v.rcount = r
        /\ v.ok = x.ok
    BY <2>4, <2>5 DEF Sound, Work
  <2>. HIDE DEF v
  <2>8. Owned(x.mgr, x.urr, r)
    <3>1. Owned(x.mgr, x.urr, w.rcount)
      BY <2>4 DEF Sound
    <3>. QED
      BY <2>6, <3>1 DEF Owned
  <2>9. Sound(v)
    BY <2>4, <2>7, <2>8 DEF Sound
  <2>. QED
    BY <2>3, <2>4, <2>5, <2>7, <2>9
<1>2. CASE ~(w.rcount[cursor] > 1)
  <2>. DEFINE v == xact_delete(w, cursor)
  <2>1. response_timeout(w) = v
    BY <1>2 DEF response_timeout
  <2>2. w.rcount \in [Slot -> 0 .. N1]
    BY WorkFields DEF Sound
  <2>3. /\ Sound(v) /\ Running(v.mgr) = Running(w.mgr) \ {cursor}
        /\ v.mgr.next = w.mgr.next /\ v.urr = w.urr /\ v.ok = w.ok
        /\ v.rcount = [w.rcount EXCEPT ![cursor] = 0]
    BY XactDelete
  <2>. HIDE DEF v
  <2>4. /\ \A x \in Slot \ {cursor} : v.rcount[x] = w.rcount[x]
        /\ ~(v.rcount[cursor] > 0)
    BY <2>2, <2>3
  <2>. QED
    BY <2>1, <2>3, <2>4
<1>. QED
  BY <1>1, <1>2

\* Setting the timers of a session up, outside of the walk.
LEMMA SetupStep ==
  ASSUME TimersInv, up, cursor = Null, UNCHANGED <<cursor, batch, dropped>>,
         NEW w, Sound(w), Grown(State, w), Becomes(timers_setup(w)), sess' = TRUE
  PROVE  TimersInv'
<1>. DEFINE v == timers_setup(w)
<1>1. /\ Sound(v) /\ Grown(w, v) /\ v.rcount = w.rcount
      /\ v.ok => \A t \in Trigger : v.urr[t] \in Running(v.mgr)
  BY TimersSetup
<1>2. Becomes(v)
  OBVIOUS
<1>. HIDE DEF v
<1>3. Grown(State, v)
  BY <1>1, GrownTrans
<1>4. /\ Sound(State)' /\ up' \in BOOLEAN /\ up' = v.ok
      /\ mgr' = v.mgr /\ urr' = v.urr /\ rcount' = v.rcount
  BY <1>1, <1>2, BecomesSound
<1>5. batch' \in Seq(Slot) /\ Distinct(batch)' /\ ListIntact'
  BY IdleList, NoList
<1>6. /\ Running(mgr) \subseteq Running(mgr')
      /\ \A s \in Slot : rcount'[s] > 0 => rcount[s] > 0 \/ s \in Running(mgr')
      /\ \A s \in Slot : rcount[s] > 0 =>
           rcount'[s] > 0 /\ (s \in Running(mgr') => s \in Running(mgr))
  BY <1>3, <1>4, StateFields DEF Grown
<1>7. \A s \in Slot : s \in dropped <=> (rcount'[s] > 0 /\ s \notin Running(mgr'))
  BY <1>6, Waiting
<1>8. TimersRun'
  BY <1>1, <1>4, <1>7 DEF TimersRun, Reports, TimersInv
<1>. QED
  BY <1>4, <1>5, <1>8 DEF TimersInv

\* The deletion of a session.
LEMMA DeletionStep ==
  ASSUME TimersInv, session_deletion
  PROVE  TimersInv'
<1>. DEFINE v == remove_all(State)
<1>1. /\ up /\ cursor = Null /\ sess /\ sess' = FALSE
      /\ UNCHANGED <<cursor, batch, dropped>> /\ Becomes(v)
  BY DEF session_deletion, Idle
<1>2. Sound(State) /\ Running(mgr) \subseteq Slot
  BY SoundState, Fields DEF TimersInv
<1>3. \A t \in Trigger : State.urr[t] \in Slot
  BY <1>1, <1>2, StateFields DEF TimersInv, TimersRun
<1>4. /\ Sound(v) /\ v.urr = [t \in Trigger |-> Null] /\ v.rcount = rcount
      /\ \A s \in Slot : rcount[s] > 0 /\ s \in Running(mgr) => s \in Running(v.mgr)
      /\ Running(v.mgr) \subseteq Running(mgr)
  BY <1>2, <1>3, RemoveAll, StateFields
<1>. HIDE DEF v
<1>5. /\ Sound(State)' /\ up' \in BOOLEAN
      /\ mgr' = v.mgr /\ urr' = v.urr /\ rcount' = v.rcount
  BY <1>1, <1>4, BecomesSound
<1>6. batch' \in Seq(Slot) /\ Distinct(batch)' /\ ListIntact'
  BY <1>1, IdleList, NoList
<1>7. \A s \in Slot : s \in dropped <=> (rcount'[s] > 0 /\ s \notin Running(mgr'))
  BY <1>1, <1>4, <1>5, Waiting
<1>8. \A t \in Trigger : urr'[t] = Null
  BY <1>4, <1>5
<1>9. TimersRun'
  BY <1>1, <1>7, <1>8 DEF TimersRun, Reports, Timed, TimersInv
<1>. QED
  BY <1>1, <1>5, <1>6, <1>9 DEF TimersInv

\* A transaction's timer is no trigger's.
LEMMA OneOwner ==
  ASSUME Sound(State), NEW s \in Slot, NEW t \in Trigger, rcount[s] > 0
  PROVE  urr[t] # s /\ mgr.use[s] = Report
<1>1. Owned(mgr, urr, rcount)
  BY SoundState
<1>. QED
  BY <1>1, Constants DEF Owned

\* The answer to a report.
LEMMA ResponseStep ==
  ASSUME TimersInv, NEW s \in Slot, report_response(s)
  PROVE  TimersInv'
<1>. DEFINE v == xact_delete(State, s)
<1>1. /\ up /\ cursor = Null /\ rcount[s] > 0 /\ sess' = sess
      /\ UNCHANGED <<cursor, batch>> /\ Becomes(v) /\ dropped' = dropped \ {s}
  BY DEF report_response, Idle
<1>2. Sound(State) /\ rcount \in [Slot -> 0 .. N1]
  BY SoundState DEF TimersInv
<1>3. /\ Sound(v) /\ Running(v.mgr) = Running(mgr) \ {s} /\ v.urr = urr
      /\ v.rcount = [rcount EXCEPT ![s] = 0]
  BY <1>1, <1>2, XactDelete, StateFields
<1>. HIDE DEF v
<1>4. /\ Sound(State)' /\ up' \in BOOLEAN
      /\ mgr' = v.mgr /\ urr' = urr /\ rcount' = v.rcount
  BY <1>1, <1>3, BecomesSound
<1>5. batch' \in Seq(Slot) /\ Distinct(batch)' /\ ListIntact'
  BY <1>1, IdleList, NoList
<1>6. \A x \in Slot : x \in dropped' <=> (rcount'[x] > 0 /\ x \notin Running(mgr'))
  <2>1. \A x \in Slot : rcount'[x] > 0 <=> (rcount[x] > 0 /\ x # s)
    BY <1>2, <1>3, <1>4
  <2>. QED
    BY <1>1, <1>3, <1>4, <2>1, Waiting
<1>7. sess => \A t \in Trigger : urr'[t] \in Running(mgr')
  BY <1>1, <1>2, <1>3, <1>4, OneOwner DEF TimersInv, TimersRun
<1>8. ~sess => Timed' = {}
  BY <1>1, <1>4 DEF TimersInv, TimersRun, Timed
<1>9. TimersRun'
  BY <1>1, <1>6, <1>7, <1>8 DEF TimersRun, Reports, TimersInv
<1>. QED
  BY <1>1, <1>4, <1>5, <1>9 DEF TimersInv

\* An answer that is dropped leaves the transaction without its timer.
LEMMA DropStep ==
  ASSUME TimersInv, NEW s \in Slot, report_dropped(s)
  PROVE  TimersInv'
<1>. DEFINE v == [State EXCEPT !.mgr = timer_stop(@, s)]
<1>1. /\ up /\ cursor = Null /\ rcount[s] > 0 /\ mgr' = timer_stop(mgr, s)
      /\ dropped' = dropped \cup {s}
      /\ UNCHANGED <<up, sess, cursor, batch, urr, rcount>>
  BY DEF report_dropped, Idle
<1>2. Sound(State)
  BY DEF TimersInv
<1>3. /\ Sound(v) /\ v.mgr = mgr' /\ Running(v.mgr) = Running(mgr) \ {s}
  <2>1. v.mgr = mgr'
    BY <1>1 DEF State
  <2>2. Sound(v) /\ Running(v.mgr) = Running(mgr) \ {s}
    BY <1>2, StopSound, StateFields
  <2>. QED
    BY <2>1, <2>2
<1>4. State' = v
  <2>. DEFINE n == mgr'
  <2>1. v = [State EXCEPT !.mgr = n]
    BY <1>1, StateFields
  <2>2. State' = [mgr |-> n, urr |-> urr, rcount |-> rcount, ok |-> TRUE]
    BY <1>1 DEF State
  <2>. HIDE DEF n, v
  <2>. QED
    BY <2>1, <2>2 DEF State
<1>. HIDE DEF v
<1>5. Sound(State)'
  <2>1. Sound(State')
    BY <1>3, <1>4
  <2>. QED
    BY <2>1 DEF Sound, State
<1>6. batch' \in Seq(Slot) /\ Distinct(batch)' /\ ListIntact'
  BY <1>1, IdleList, NoList
<1>7. \A x \in Slot : x \in dropped' <=> (rcount'[x] > 0 /\ x \notin Running(mgr'))
  BY <1>1, <1>3, Waiting
<1>8. sess => \A t \in Trigger : urr'[t] \in Running(mgr')
  BY <1>1, <1>2, <1>3, OneOwner DEF TimersInv, TimersRun
<1>9. ~sess => Timed' = {}
  BY <1>1 DEF TimersInv, TimersRun, Timed
<1>10. TimersRun' /\ dropped' \subseteq Slot
  BY <1>1, <1>7, <1>8, <1>9 DEF TimersRun, Reports, TimersInv
<1>. QED
  BY <1>1, <1>5, <1>6, <1>10 DEF TimersInv

\* The establishment of a session.
LEMMA EstablishmentStep ==
  ASSUME TimersInv, session_establishment
  PROVE  TimersInv'
  BY SetupStep, GrownRefl DEF session_establishment, Idle, TimersInv

\* A packet, with or without a report.
LEMMA PacketStep ==
  ASSUME TimersInv, NEW size \in 1 .. Threshold, packet(size)
  PROVE  TimersInv'
<1>1. /\ up /\ cursor = Null /\ sess /\ sess' = sess
      /\ UNCHANGED <<cursor, batch, dropped>>
  BY DEF packet, Idle
<1>2. CASE ThresholdReached(total + size)
  <2>1. Becomes(timers_setup(send_report(State)))
    BY <1>2 DEF packet
  <2>2. Sound(send_report(State)) /\ Grown(State, send_report(State))
    BY SendReport DEF TimersInv
  <2>3. sess' = TRUE
    BY <1>1 DEF TimersInv
  <2>. QED
    BY <1>1, <2>1, <2>2, <2>3, SetupStep
<1>3. CASE ~ThresholdReached(total + size)
  BY <1>1, <1>3 DEF packet, TimersInv, ListIntact, TimersRun, State, Reports,
     Timed, Sound
<1>. QED
  BY <1>2, <1>3

\* A manager whose links or times change only.
LEMMA SameOwners ==
  ASSUME TimersInv, mgr' \in Manager, UNCHANGED <<urr, rcount>>,
         mgr'.free = mgr.free, mgr'.tree = mgr.tree, mgr'.use = mgr.use
  PROVE  Sound(State)' /\ Running(mgr') = Running(mgr)
<1>1. /\ urr \in [Trigger -> Slot \cup {Null}] /\ rcount \in [Slot -> 0 .. N1]
      /\ Ordered(mgr) /\ Owned(mgr, urr, rcount)
  BY SoundState DEF TimersInv
<1>2. /\ State' \in Work /\ State'.mgr = mgr' /\ State'.urr = urr
      /\ State'.rcount = rcount
  BY <1>1 DEF State, Work
<1>3. Ordered(mgr')
  BY <1>1 DEF Ordered, Free, Running
<1>4. Owned(mgr', urr, rcount)
  BY <1>1 DEF Owned, Free
<1>5. Sound(State')
  BY <1>2, <1>3, <1>4 DEF Sound
<1>6. Sound(State)'
  BY <1>5 DEF Sound, State
<1>. QED
  BY <1>6 DEF Running

\* The timers that are due are linked.
LEMMA ExpireStep ==
  ASSUME TimersInv, expire
  PROVE  TimersInv'
<1>. DEFINE q == Due(mgr)
            At(s) == CHOOSE i \in DOMAIN q : q[i] = s
            Behind(i) == IF i = Len(q) THEN Null ELSE q[i + 1]
            Following(s) == IF Contains(q, s) THEN Behind(At(s)) ELSE Null
            link == [s \in Slot |-> Following(s)]
<1>1. /\ mgr' = Linked(mgr) /\ batch' = q /\ cursor' = FirstOf(q)
      /\ UNCHANGED <<up, urr, rcount, dropped, sess>>
  BY DEF expire
<1>2. mgr \in Manager /\ Ordered(mgr) /\ mgr.tree \in Seq(Slot)
  BY SoundState, Fields DEF TimersInv
<1>3. q \in Seq(Slot) /\ Distinct(q) /\ ToSet(q) \subseteq Running(mgr)
  BY <1>2, OnlySelects DEF Due, Ordered, Running
<1>4. mgr' = [mgr EXCEPT !.next = link]
  BY <1>1 DEF Linked
<1>. HIDE DEF q
<1>5. DOMAIN q = 1 .. Len(q) /\ Len(q) \in Nat
  BY <1>3
<1>6. ASSUME NEW i \in 1 .. Len(q)
      PROVE  Contains(q, q[i]) /\ q[i] \in Slot /\ At(q[i]) = i
  <2>1. \A j \in DOMAIN q : q[j] = q[i] => j = i
    BY <1>3, <1>5 DEF Distinct
  <2>2. At(q[i]) = i
    BY <1>5, <2>1
  <2>. QED
    BY <1>3, <2>2 DEF Contains
<1>. HIDE DEF At
<1>7. \A s \in Slot : Following(s) \in Slot \cup {Null}
  <2>. TAKE s \in Slot
  <2>1. CASE Contains(q, s)
    <3>1. PICK i \in 1 .. Len(q) : q[i] = s
      BY <2>1 DEF Contains
    <3>2. Following(s) = Behind(i)
      BY <1>6, <2>1, <3>1
    <3>3. i # Len(q) => i + 1 \in 1 .. Len(q)
      BY <1>3, <3>1
    <3>4. Behind(i) \in Slot \cup {Null}
      BY <1>3, <3>3
    <3>. QED
      BY <3>2, <3>4
  <2>. QED
    BY <2>1
<1>8. \A i \in 1 .. Len(q) : Following(q[i]) = Behind(i)
  BY <1>6
<1>. HIDE DEF Following
<1>9. link \in [Slot -> Slot \cup {Null}] /\ \A s \in Slot : link[s] = Following(s)
  BY <1>7
<1>. HIDE DEF link
<1>10. /\ mgr' \in Manager /\ mgr'.free = mgr.free /\ mgr'.tree = mgr.tree
       /\ mgr'.use = mgr.use /\ mgr'.next = link
  BY <1>2, <1>4, <1>9 DEF Manager
<1>11. Sound(State)' /\ Running(mgr') = Running(mgr)
  BY <1>1, <1>10, SameOwners
<1>12. ListIntact'
  <2>1. \A i \in 1 .. Len(q) : q[i] \in Running(mgr')
    BY <1>3, <1>11, InSequence
  <2>2. \A i \in 1 .. Len(q) : mgr'.next[q[i]] = Behind(i)
    BY <1>6, <1>8, <1>9, <1>10
  <2>. QED
    BY <1>1, <1>5, <2>1, <2>2 DEF ListIntact
<1>13. Distinct(batch)' /\ batch' \in Seq(Slot)
  BY <1>1, <1>3 DEF Distinct
<1>14. TimersRun'
  BY <1>1, <1>11 DEF TimersInv, TimersRun, Reports, Timed
<1>. QED
  BY <1>1, <1>11, <1>12, <1>13, <1>14 DEF TimersInv

\* Time passes.
LEMMA TickStep ==
  ASSUME TimersInv, tick
  PROVE  TimersInv'
<1>. DEFINE l == [s \in Slot |-> IF mgr.left[s] = 0 THEN 0 ELSE mgr.left[s] - 1]
<1>1. /\ mgr' = Later(mgr)
      /\ UNCHANGED <<up, cursor, batch, urr, rcount, dropped, sess>>
  BY DEF tick
<1>2. mgr \in Manager /\ mgr.left \in [Slot -> 0 .. MaxDuration]
  BY SoundState, Fields DEF TimersInv
<1>3. mgr' = [mgr EXCEPT !.left = l]
  BY <1>1, <1>2 DEF Later, Manager
<1>4. l \in [Slot -> 0 .. MaxDuration]
  BY <1>2, Constants
<1>. HIDE DEF l
<1>5. /\ mgr' \in Manager /\ mgr'.free = mgr.free /\ mgr'.tree = mgr.tree
      /\ mgr'.use = mgr.use /\ mgr'.next = mgr.next
  BY <1>2, <1>3, <1>4 DEF Manager
<1>6. Sound(State)' /\ Running(mgr') = Running(mgr)
  BY <1>1, <1>5, SameOwners
<1>7. ListIntact' /\ Distinct(batch)' /\ batch' \in Seq(Slot)
  BY <1>1, <1>5, <1>6 DEF TimersInv, ListIntact, Distinct
<1>8. TimersRun'
  BY <1>1, <1>6 DEF TimersInv, TimersRun, Reports, Timed
<1>. QED
  BY <1>1, <1>6, <1>7, <1>8 DEF TimersInv

\* The timer at the cursor is stopped.
LEMMA StoppedSound ==
  ASSUME TimersInv, cursor # Null
  PROVE  /\ Sound(Stopped)
         /\ Stopped.mgr.free = mgr.free /\ Stopped.mgr.next = mgr.next
         /\ Running(Stopped.mgr) = Running(mgr) \ {cursor}
         /\ Stopped.urr = urr /\ Stopped.rcount = rcount /\ Stopped.ok = TRUE
<1>1. Sound(State) /\ cursor \in Slot
  BY AtCursor DEF TimersInv
<1>. QED
  BY <1>1, StopSound, StateFields DEF Stopped

\* The callback of a trigger.
LEMMA TriggerStep ==
  ASSUME TimersInv, expire_trigger
  PROVE  TimersInv'
<1>. DEFINE w == Stopped
            v == timers_cb(w)
<1>1. /\ up /\ cursor # Null /\ mgr.use[cursor] \in Trigger /\ Becomes(v)
      /\ Advance /\ sess' = sess /\ dropped' = dropped
  BY DEF expire_trigger
<1>2. /\ cursor \in Slot /\ cursor \in Running(mgr) /\ cursor \notin Free(mgr)
  BY <1>1, AtCursor
<1>3. /\ Sound(w) /\ w.mgr.free = mgr.free /\ w.mgr.next = mgr.next
      /\ Running(w.mgr) = Running(mgr) \ {cursor}
      /\ w.urr = urr /\ w.rcount = rcount
  BY <1>1, StoppedSound
<1>4. /\ Sound(v) /\ Grown(w, v)
      /\ v.ok => \A t \in Trigger : v.urr[t] \in Running(v.mgr)
  <2>. HIDE DEF w
  <2>1. Sound(send_report(w)) /\ Grown(w, send_report(w))
    BY <1>3, SendReport
  <2>. QED
    BY <2>1, TimersSetup, GrownTrans DEF timers_cb
<1>. HIDE DEF w, v
<1>5. /\ Sound(State)' /\ up' \in BOOLEAN /\ up' = v.ok
      /\ mgr' = v.mgr /\ urr' = v.urr /\ rcount' = v.rcount
  BY <1>1, <1>4, BecomesSound
<1>6. /\ Running(mgr) \ {cursor} \subseteq Running(mgr')
      /\ \A s \in Slot \ Free(mgr) : mgr'.next[s] = mgr.next[s]
      /\ \A s \in Slot : rcount'[s] > 0 => rcount[s] > 0 \/ s \in Running(mgr')
      /\ \A s \in Slot : rcount[s] > 0 =>
           rcount'[s] > 0 /\ (s \in Running(mgr') => s \in Running(mgr))
  BY <1>3, <1>4, <1>5 DEF Grown, Free
<1>7. \A s \in Running(mgr) : s \in Slot \ Free(mgr)
  BY SoundState, Fields DEF TimersInv, Ordered
<1>8. batch' \in Seq(Slot) /\ Distinct(batch)' /\ ListIntact'
  BY <1>1, <1>6, <1>7, Walk
<1>9. \A s \in Slot : rcount[s] > 0 => s # cursor
  <2>1. Owned(mgr, urr, rcount)
    BY SoundState DEF TimersInv
  <2>. QED
    BY <1>1, <2>1, Constants DEF Owned
<1>10. sess
  <2>1. Owned(mgr, urr, rcount) /\ rcount \in [Slot -> 0 .. N1]
    BY SoundState DEF TimersInv
  <2>2. rcount[cursor] = 0
    BY <1>2, <1>9, <2>1, Constants
  <2>3. PICK t \in Trigger : urr[t] = cursor
    BY <1>2, <2>1, <2>2 DEF Owned
  <2>4. cursor \in Timed
    BY <1>1, <2>3 DEF Timed
  <2>. QED
    BY <1>1, <2>4 DEF TimersInv, TimersRun
<1>11. \A s \in Slot : s \in dropped <=> (rcount'[s] > 0 /\ s \notin Running(mgr'))
  BY <1>1, <1>6, <1>9, Waiting
<1>12. TimersRun'
  BY <1>1, <1>4, <1>5, <1>10, <1>11 DEF TimersRun, Reports, TimersInv
<1>. QED
  BY <1>1, <1>5, <1>8, <1>12 DEF TimersInv

\* The callback of a transaction.
LEMMA TimeoutStep ==
  ASSUME TimersInv, expire_response
  PROVE  TimersInv'
<1>. DEFINE w == Stopped
            v == response_timeout(w)
<1>1. /\ up /\ cursor # Null /\ mgr.use[cursor] = Report /\ Becomes(v)
      /\ Advance /\ sess' = sess /\ dropped' = dropped
  BY DEF expire_response
<1>2. /\ cursor \in Slot /\ cursor \in Running(mgr) /\ cursor \notin Free(mgr)
  BY <1>1, AtCursor
<1>3. /\ Sound(w) /\ w.mgr.free = mgr.free /\ w.mgr.next = mgr.next
      /\ Running(w.mgr) = Running(mgr) \ {cursor}
      /\ w.urr = urr /\ w.rcount = rcount
  BY <1>1, StoppedSound
<1>4. /\ Owned(mgr, urr, rcount) /\ rcount \in [Slot -> 0 .. N1]
      /\ urr \in [Trigger -> Slot \cup {Null}]
  BY SoundState DEF TimersInv
<1>5. /\ \A t \in Trigger : urr[t] # cursor
      /\ rcount[cursor] > 0
  <2>1. \A t \in Trigger : urr[t] # cursor
    <3>1. \A t \in Trigger : urr[t] # Null => mgr.use[urr[t]] = t
      BY <1>4 DEF Owned
    <3>2. Report \notin Trigger
      BY Constants
    <3>. QED
      BY <1>1, <3>1, <3>2, Zenon
  <2>2. rcount[cursor] # 0
    BY <1>2, <1>4, <2>1 DEF Owned
  <2>. QED
    BY <1>2, <1>4, <2>1, <2>2, Constants
<1>6. /\ Sound(v) /\ v.mgr.next = mgr.next
      /\ Running(mgr) \ {cursor} \subseteq Running(v.mgr)
      /\ Running(v.mgr) \subseteq Running(mgr)
      /\ v.urr = urr
      /\ \A x \in Slot \ {cursor} : v.rcount[x] = rcount[x]
      /\ v.rcount[cursor] > 0 => cursor \in Running(v.mgr)
  <2>1. Sound(w) /\ cursor \in Slot /\ w.rcount[cursor] > 0
    BY <1>2, <1>3, <1>5
  <2>. HIDE DEF w
  <2>2. /\ Sound(v) /\ v.mgr.next = w.mgr.next
        /\ Running(w.mgr) \ {cursor} \subseteq Running(v.mgr)
        /\ Running(v.mgr) \subseteq Running(w.mgr) \cup {cursor}
        /\ v.urr = w.urr
        /\ \A x \in Slot \ {cursor} : v.rcount[x] = w.rcount[x]
        /\ v.rcount[cursor] > 0 => cursor \in Running(v.mgr)
    BY <2>1, ResponseTimeout
  <2>. QED
    BY <1>2, <1>3, <2>2
<1>. HIDE DEF w, v
<1>7. /\ Sound(State)' /\ up' \in BOOLEAN
      /\ mgr' = v.mgr /\ urr' = urr /\ rcount' = v.rcount
  BY <1>1, <1>6, BecomesSound
<1>8. batch' \in Seq(Slot) /\ Distinct(batch)' /\ ListIntact'
  BY <1>1, <1>6, <1>7, Walk
<1>9. \A x \in Slot : x \in dropped <=> (rcount'[x] > 0 /\ x \notin Running(mgr'))
  <2>1. cursor \notin dropped
    BY <1>1, <1>2, Waiting
  <2>2. \A x \in Slot \ {cursor} : x \in Running(mgr') <=> x \in Running(mgr)
    BY <1>6, <1>7
  <2>. QED
    BY <1>1, <1>6, <1>7, <2>1, <2>2, Waiting
<1>10. sess => \A t \in Trigger : urr'[t] \in Running(mgr')
  BY <1>1, <1>5, <1>6, <1>7 DEF TimersInv, TimersRun
<1>11. ~sess => Timed' = {}
  BY <1>1, <1>7 DEF TimersInv, TimersRun, Timed
<1>12. TimersRun'
  BY <1>1, <1>9, <1>10, <1>11 DEF TimersRun, Reports, TimersInv
<1>. QED
  BY <1>1, <1>7, <1>8, <1>12 DEF TimersInv

-----------------------------------------------------------------------------
(* The theorems about the timers. *)

\* At first all timers are in the pool.
LEMMA InitTimers ==
  ASSUME Init
  PROVE  TimersInv
<1>1. /\ mgr = [free |-> Pool, tree |-> <<>>,
                left |-> [s \in Slot |-> 0], next |-> [s \in Slot |-> Null],
                use |-> [s \in Slot |-> Report]]
      /\ cursor = Null /\ batch = <<>>
      /\ urr = [t \in Trigger |-> Null] /\ rcount = [s \in Slot |-> 0]
  BY DEF Init
<1>2. up = TRUE /\ sess = FALSE /\ dropped = {}
  BY Zenon DEF Init
<1>3. mgr \in Manager /\ mgr.free = Pool /\ mgr.tree = <<>>
  BY <1>1, Constants DEF Manager
<1>4. Ordered(mgr) /\ Free(mgr) = Slot
  BY <1>3, Constants DEF Ordered, Distinct, Free, Running, ToSet
<1>5. Owned(mgr, urr, rcount)
  BY <1>1, <1>4, Constants DEF Owned
<1>6. /\ State \in Work /\ State.mgr = mgr /\ State.urr = urr
      /\ State.rcount = rcount
  BY <1>1, <1>3, Constants DEF State, Work
<1>7. Sound(State)
  BY <1>4, <1>5, <1>6 DEF Sound
<1>8. ListIntact /\ Distinct(batch) /\ batch \in Seq(Slot)
  BY <1>1 DEF ListIntact, FirstOf, Distinct
<1>9. Timed = {} /\ Reports = {}
  <2>1. \A t \in Trigger : urr[t] = Null
    BY <1>1
  <2>2. \A s \in Slot : rcount[s] = 0
    BY <1>1
  <2>3. Timed = {}
    BY <2>1 DEF Timed
  <2>4. Reports = {}
    BY <2>2 DEF Reports
  <2>. QED
    BY <2>3, <2>4
<1>10. TimersRun
  BY <1>2, <1>9 DEF TimersRun
<1>. QED
  BY <1>2, <1>7, <1>8, <1>10 DEF TimersInv

\* Every step of the UPF keeps its timers in order.
LEMMA NextTimers ==
  ASSUME TimersInv, [Next]_vars
  PROVE  TimersInv'
<1>1. CASE UNCHANGED vars
  <2>1. State' = State
    BY <1>1 DEF vars, State
  <2>2. Sound(State)'
    BY <2>1, SoundState DEF TimersInv
  <2>3. /\ up' \in BOOLEAN /\ sess' \in BOOLEAN
        /\ batch' \in Seq(Slot) /\ Distinct(batch)'
    BY <1>1 DEF vars, TimersInv, Distinct
  <2>4. ListIntact' /\ TimersRun'
    BY <1>1 DEF vars, TimersInv, ListIntact, TimersRun, Reports, Timed
  <2>. QED
    BY <1>1, <2>2, <2>3, <2>4 DEF vars, TimersInv
<1>. QED
  BY <1>1, EstablishmentStep, DeletionStep, PacketStep, ResponseStep,
     DropStep, ExpireStep, TriggerStep, TimeoutStep, TickStep DEF Next

\* TimersInv holds in every state.
THEOREM TimersInvariance == Spec => []TimersInv
<1>1. Init => TimersInv
  BY InitTimers
<1>2. TimersInv /\ [Next]_vars => TimersInv'
  BY NextTimers
<1>. QED
  BY <1>1, <1>2, PTL DEF Spec

\* As many timers are in the pool as its length says, and as many timers are
\* of triggers as triggers have one.
LEMMA Counts ==
  ASSUME TimersInv
  PROVE  TimersAccounted
<1>1. /\ mgr.free \in Seq(Slot) /\ Distinct(mgr.free)
      /\ urr \in [Trigger -> Slot \cup {Null}]
      /\ rcount \in [Slot -> 0 .. N1] /\ Owned(mgr, urr, rcount)
  BY SoundState, Fields DEF TimersInv, Ordered
<1>2. Len(mgr.free) = Cardinality(Free(mgr))
  <2>. DEFINE q == mgr.free
              n == Len(q)
  <2>1. n \in Nat /\ DOMAIN q = 1 .. n
    BY <1>1
  <2>2. q \in Bijection(1 .. n, ToSet(q))
    BY <1>1 DEF Bijection, Injection, Surjection, IsInjective, Distinct, ToSet
  <2>3. ExistsBijection(1 .. n, ToSet(q))
    BY <2>2 DEF ExistsBijection
  <2>. QED
    BY <2>1, <2>3, FS_CountingElements DEF Free
<1>3. Cardinality(Timed) = Cardinality({t \in Trigger : urr[t] # Null})
  <2>. DEFINE D == {t \in Trigger : urr[t] # Null}
              f == [t \in D |-> urr[t]]
  <2>1. IsFiniteSet(D)
    <3>1. IsFiniteSet(Trigger)
      <4>1. IsFiniteSet(1 .. Len(Triggers))
        BY Constants, FS_Interval
      <4>2. Triggers \in Surjection(1 .. Len(Triggers), Trigger)
        BY Constants DEF Surjection
      <4>. QED
        BY <4>1, <4>2, FS_Surjection
    <3>. QED
      BY <3>1, FS_Subset
  <2>2. f \in Bijection(D, Timed)
    BY <1>1 DEF Bijection, Injection, Surjection, IsInjective, Timed, Owned
  <2>3. ExistsBijection(D, Timed)
    BY <2>2 DEF ExistsBijection
  <2>. QED
    BY <2>1, <2>3, FS_Bijection
<1>4. Reports \cap Timed = {}
  <2>. SUFFICES ASSUME NEW t \in Trigger, urr[t] # Null, urr[t] \in Reports
                PROVE  FALSE
    BY DEF Timed
  <2>1. mgr.use[urr[t]] = t /\ mgr.use[urr[t]] = Report
    BY <1>1 DEF Owned, Reports
  <2>. QED
    BY <2>1, Constants
<1>5. Free(mgr) = Slot \ (Reports \cup Timed)
  <2>1. Free(mgr) \subseteq Slot
    BY SoundState, Fields DEF TimersInv
  <2>2. \A s \in Slot : s \in Reports <=> rcount[s] # 0
    BY <1>1, Constants DEF Reports
  <2>3. \A s \in Slot : s \in Timed <=> \E t \in Trigger : urr[t] = s
    BY Constants DEF Timed
  <2>. QED
    BY <1>1, <2>1, <2>2, <2>3 DEF Owned
<1>. QED
  BY <1>2, <1>3, <1>4, <1>5 DEF TimersAccounted

\* Whatever a callback adds, restarts or deletes: a timer is in the pool, of
\* a trigger or of a transaction, and never two of these or none
\* (ogs_timer_add, ogs_timer_delete, upf_sess_urr_acc_timers_setup).
THEOREM EveryTimerAccounted == Spec => []TimersAccounted
<1>1. TimersInv => TimersAccounted
  BY Counts
<1>. QED
  BY <1>1, TimersInvariance, PTL

\* The callbacks of the UPF delete their own timers and restart others while
\* ogs_timer_mgr_expire walks its list, against the comment above the loop; the
\* rest of the list stays linked, and every timer in it runs.
THEOREM ListStaysIntact == Spec => []ListIntact
<1>1. TimersInv => ListIntact
  BY DEF TimersInv
<1>. QED
  BY <1>1, TimersInvariance, PTL

\* The timer of every unanswered report and of every trigger of the session
\* runs, as long as the pool has not run out; the transactions that wait in vain
\* are those whose response was dropped (response_timeout,
\* upf_sess_urr_acc_timers_cb, upf_sess_urr_acc_remove_all).
THEOREM NobodyWaitsInVain == Spec => []TimersRun
<1>1. TimersInv => TimersRun
  BY DEF TimersInv
<1>. QED
  BY <1>1, TimersInvariance, PTL

\* The counters that are bounded by the volume and the longest duration.
Bounded == total <= MaxVolume /\ quiet \in 0 .. MaxDuration

\* Every step keeps these bounds.
LEMMA NextBounded ==
  ASSUME Counted, Bounded, [Next]_vars
  PROVE  Bounded'
<1>1. total \in Nat /\ MaxVolume \in Nat /\ MaxDuration \in Nat \ {0}
  BY Numbers, Constants DEF Counted
<1>2. CASE session_establishment
  BY <1>1, <1>2 DEF session_establishment, Bounded
<1>3. CASE session_deletion
  BY <1>1, <1>3 DEF session_deletion, Reported, Bounded
<1>4. ASSUME NEW size \in 1 .. Threshold, packet(size)
      PROVE  Bounded'
  <2>1. total' = total + size /\ total' <= MaxVolume
    BY <1>4 DEF packet
  <2>2. quiet' = 0 \/ quiet' = quiet
    BY <1>4 DEF packet, Reported
  <2>. QED
    BY <1>1, <2>1, <2>2 DEF Bounded
<1>5. CASE expire_trigger
  BY <1>1, <1>5 DEF expire_trigger, Reported, Bounded
<1>6. CASE tick
  BY <1>1, <1>6 DEF tick, Bounded
<1>7. CASE UNCHANGED <<total, quiet>>
  BY <1>7 DEF Bounded
<1>. QED
  BY <1>2, <1>3, <1>4, <1>5, <1>6, <1>7 DEF Next, vars, report_response,
     report_dropped, expire, expire_response

\* The types, among them that no report is ahead of the volume
\* (upf_sess_urr_acc_fill_usage_report subtracts without a check).
THEOREM TypeCorrect == Spec => []TypeOK
<1>. DEFINE Inv == Counted /\ Bounded
<1>1. Init => Inv
  <2>1. Init => Bounded
    BY Numbers, Constants DEF Init, Bounded
  <2>. QED
    BY <2>1, InitCounted
<1>2. Inv /\ [Next]_vars => Inv'
  BY NextCounted, NextBounded
<1>3. TimersInv /\ Inv => TypeOK
  <2>. SUFFICES ASSUME TimersInv, Counted, Bounded PROVE TypeOK
    OBVIOUS
  <2>1. /\ mgr \in Manager /\ urr \in [Trigger -> Slot \cup {Null}]
        /\ rcount \in [Slot -> 0 .. N1]
    BY SoundState DEF TimersInv
  <2>2. cursor \in Slot \cup {Null} /\ batch \in Seq(Slot)
    BY AtCursor DEF TimersInv
  <2>3. total \in 0 .. MaxVolume /\ last \in 0 .. total /\ quiet \in 0 .. MaxDuration
    BY Numbers DEF Counted, Bounded
  <2>4. up \in BOOLEAN /\ sess \in BOOLEAN /\ dropped \subseteq Slot
    BY DEF TimersInv
  <2>. QED
    BY <2>1, <2>2, <2>3, <2>4 DEF TypeOK
<1>. QED
  BY <1>1, <1>2, <1>3, TimersInvariance, PTL DEF Spec
=============================================================================

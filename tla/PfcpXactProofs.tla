--------------------------- MODULE PfcpXactProofs ---------------------------
(***************************************************************************)
(* Proofs about PfcpXact for every number of transmissions, every timer    *)
(* length and every set of transaction ids: the type invariant, AtMostOnce *)
(* and that the layer implements PfcpCall.                                 *)
(***************************************************************************)
EXTENDS PfcpXact, TLAPS

\* The arithmetic of retransmissions: rcount - 1 response periods are what is
\* left of the deadline once the running one expires (response_timeout).
LEMMA PeriodArithmetic ==
  ASSUME NEW r \in Nat, r >= 1
  PROVE  /\ (r - 1) * T1 \in Nat
         /\ (1 - 1) * T1 = 0
         /\ r >= 2 => /\ (r - 1) * T1 = ((r - 1) - 1) * T1 + T1
                      /\ ((r - 1) - 1) * T1 \in Nat
         /\ N1 * T1 \in Nat
         /\ T1 + (N1 - 1) * T1 = N1 * T1
         /\ T1 <= N1 * T1
<1>1. T1 \in Nat /\ N1 \in Nat /\ N1 >= 1
  BY TimerAssumption
<1>2. ASSUME NEW a \in Nat PROVE a * T1 \in Nat
  BY <1>1, <1>2
<1>3. (r - 1) \in Nat /\ (N1 - 1) \in Nat /\ (r >= 2 => (r - 1) - 1 \in Nat)
  BY <1>1
<1>4. (1 - 1) * T1 = 0
  BY <1>1
<1>5. (r - 1) * T1 = ((r - 1) - 1) * T1 + T1
  BY <1>1, SMTT(20)
<1>6. T1 + (N1 - 1) * T1 = N1 * T1
  BY <1>1, SMTT(20)
<1>7. T1 <= N1 * T1
  <2>1. (N1 - 1) * T1 \in Nat
    BY <1>2, <1>3
  <2> QED BY <2>1, <1>1, <1>2, <1>6
<1> QED BY <1>1, <1>2, <1>3, <1>4, <1>5, <1>6, <1>7

\* The initial state satisfies the inductive invariant.
LEMMA InitInv == Init => Inv
<1> SUFFICES ASSUME Init PROVE Inv
  OBVIOUS
<1>1. TypeOK
  BY TimerAssumption DEF Init, TypeOK, Datagram, LocalState, RemoteState
<1>2. ASSUME NEW m \in net PROVE InFlight(m)
  BY <1>2 DEF Init
<1>3. ASSUME NEW x \in Xid PROVE Originator(x) /\ Responder(x)
  <2>1. /\ born[x] <= now /\ local[x] = "free" /\ remote[x] = "none"
        /\ handled[x] = 0 /\ handled[x] \in {0, 1} /\ handled[x] # 1
    BY DEF Init
  <2> QED BY <2>1, Zenon DEF Originator, Responder
<1> QED BY <1>1, <1>2, <1>3 DEF Inv

\* Creating a transaction and sending its request (xact_request).
LEMMA RequestInv ==
  ASSUME Inv, NEW x \in Xid, xact_request(x)
  PROVE  Inv'
<1> USE TimerAssumption, DelayAssumption DEF xact_request, remoteVars, Inv
<1> DEFINE P == N1 * T1
           Q == (N1 - 1) * T1
<1>0. P \in Nat /\ Q \in Nat /\ T1 + Q = P /\ T1 <= P
  BY PeriodArithmetic
<1>1. TypeOK'
  BY DEF TypeOK, Datagram, LocalState, Request
<1>2. ASSUME NEW m \in net' PROVE InFlight(m)'
  <2>1. CASE m = Request(x)
    BY <2>1, <1>0 DEF InFlight, Request, TypeOK, Deadline
  <2>2. CASE m \in net
    <3>1. m.xid # x
      BY <2>2 DEF InFlight, TypeOK, Datagram
    <3> QED BY <3>1, <2>2 DEF InFlight, TypeOK, Deadline, Datagram
  <2> QED BY <1>2, <2>1, <2>2
<1>3. ASSUME NEW y \in Xid PROVE Originator(y)' /\ Responder(y)'
  <2>1. CASE y = x
    <3>1. /\ born'[x] = now /\ local'[x] = "sent" /\ rcount'[x] = N1
          /\ response_due'[x] = now + T1
      BY DEF TypeOK
    <3>2. (now + T1) + Q = now + P
      BY <1>0 DEF TypeOK
    <3>3. response_due'[x] + (rcount'[x] - 1) * T1 = Deadline(x)'
      BY <3>1, <3>2 DEF Deadline
    <3>4. Originator(x)'
      BY <3>1, <3>3 DEF TypeOK, Originator
    <3>5. Responder(x)'
      BY DEF Originator, Responder
    <3> QED BY <2>1, <3>4, <3>5
  <2>2. CASE y # x
    <3>1. /\ born'[y] = born[y] /\ local'[y] = local[y] /\ rcount'[y] = rcount[y]
          /\ response_due'[y] = response_due[y]
          /\ Deadline(y)' = Deadline(y)
      BY <2>2 DEF TypeOK, Deadline
    <3> QED BY <3>1 DEF Originator, Responder
  <2> QED BY <2>1, <2>2
<1> QED BY <1>1, <1>2, <1>3

\* The response timer expires (response_timeout).
LEMMA ResponseTimeoutInv ==
  ASSUME Inv, NEW x \in Xid, response_timeout(x)
  PROVE  Inv'
<1> USE TimerAssumption, DelayAssumption DEF response_timeout, remoteVars, Inv
<1> DEFINE r == rcount[x]
           Q == (r - 1) * T1
           R == ((r - 1) - 1) * T1
<1>0. r \in Nat /\ r >= 1 /\ now + Q = Deadline(x) /\ now \in Nat
  BY DEF Originator, TypeOK
<1>1. Q \in Nat /\ (1 - 1) * T1 = 0 /\ (r >= 2 => Q = R + T1 /\ R \in Nat)
  BY <1>0, PeriodArithmetic
<1>2. Deadline(x) \in Nat /\ \A y \in Xid : Deadline(y)' = Deadline(y)
  BY <1>0, <1>1 DEF Deadline, TypeOK
<1>3. TypeOK'
  BY <1>0 DEF TypeOK, Datagram, LocalState, Request
<1>4. ASSUME NEW m \in net' PROVE InFlight(m)'
  <2>1. CASE m \in net
    BY <2>1, <1>2 DEF InFlight, TypeOK, Datagram
  <2>2. CASE m \notin net
    <3>1. m = Request(x) /\ r >= 2
      BY <1>0, <1>4, <2>2
    <3>2. now + T1 <= Deadline(x)
      BY <1>0, <1>1, <1>2, <3>1
    <3> QED BY <3>1, <3>2, <1>0, <1>2 DEF InFlight, Request, TypeOK
  <2> QED BY <2>1, <2>2
<1>5. ASSUME NEW y \in Xid PROVE Originator(y)' /\ Responder(y)'
  <2>1. CASE y = x /\ r >= 2
    <3>1. /\ local'[x] = "sent" /\ rcount'[x] = r - 1
          /\ response_due'[x] = now + T1 /\ born'[x] = born[x]
      BY <1>0, <2>1 DEF TypeOK
    <3>2. (now + T1) + R = Deadline(x)
      BY <1>0, <1>1, <1>2, <2>1
    <3>3. response_due'[x] + (rcount'[x] - 1) * T1 = Deadline(x)'
      BY <3>1, <3>2, <1>2
    <3>4. Originator(x)'
      BY <1>0, <2>1, <3>1, <3>3 DEF Originator
    <3> QED BY <1>2, <2>1, <3>4 DEF Responder
  <2>2. CASE y = x /\ ~(r >= 2)
    <3>1. r = 1 /\ now = Deadline(x)
      BY <1>0, <1>1, <1>2, <2>2
    <3>2. local'[x] = "failed"
      BY <3>1 DEF TypeOK
    <3> QED BY <1>0, <1>2, <2>2, <3>1, <3>2 DEF Originator, Responder
  <2>3. CASE y # x
    <3>1. /\ local'[y] = local[y] /\ rcount'[y] = rcount[y]
          /\ response_due'[y] = response_due[y]
      BY <2>3 DEF TypeOK
    <3> QED BY <3>1, <1>2 DEF Originator, Responder
  <2> QED BY <2>1, <2>2, <2>3
<1> QED BY <1>3, <1>4, <1>5

\* The steps that change only the state of the originator's transaction
\* (receive_response, xact_commit): the network can only shrink.
LEMMA LocalStepInv ==
  ASSUME Inv, NEW x \in Xid, NEW s \in LocalState \ {"free", "failed"},
         local' = [local EXCEPT ![x] = s],
         s = "sent" => local[x] = "sent",
         s # "sent" => handled[x] = 1,
         local[x] # "free",
         net' \subseteq net,
         UNCHANGED <<now, rcount, response_due, born, remoteVars>>
  PROVE  Inv'
<1> USE DEF remoteVars, Inv
<1>1. TypeOK'
  BY DEF TypeOK
<1>2. \A y \in Xid : Deadline(y)' = Deadline(y)
  BY DEF Deadline
<1>3. ASSUME NEW m \in net' PROVE InFlight(m)'
  BY <1>2 DEF InFlight, TypeOK, Datagram
<1>4. ASSUME NEW y \in Xid PROVE Originator(y)' /\ Responder(y)'
  <2>1. CASE y = x
    BY <1>2, <2>1, Zenon DEF Originator, Responder, TypeOK, LocalState
  <2>2. CASE y # x
    BY <1>2, <2>2 DEF Originator, Responder, TypeOK
  <2> QED BY <2>1, <2>2
<1> QED BY <1>1, <1>3, <1>4

\* Steps that leave both ends alone and at most lose datagrams.
LEMMA NetShrinkInv ==
  ASSUME Inv, net' \subseteq net, UNCHANGED <<now, localVars, remoteVars>>
  PROVE  Inv'
<1> USE DEF Inv, localVars, remoteVars
<1>1. TypeOK'
  BY DEF TypeOK
<1>2. \A y \in Xid : Deadline(y)' = Deadline(y)
  BY DEF Deadline
<1>3. ASSUME NEW m \in net' PROVE InFlight(m)'
  BY <1>2 DEF InFlight, TypeOK, Datagram
<1>4. ASSUME NEW y \in Xid PROVE Originator(y)' /\ Responder(y)'
  BY <1>2 DEF Originator, Responder
<1> QED BY <1>1, <1>3, <1>4

\* A response arrives (receive_response).
LEMMA ResponseInv ==
  ASSUME Inv, NEW m \in net, m.type = "response", receive_response(m.xid),
         net' \in AfterReceipt(m, {})
  PROVE  Inv'
<1> DEFINE x == m.xid
<1>1. x \in Xid /\ local[x] # "free" /\ handled[x] = 1
  BY DEF Inv, InFlight, TypeOK, Datagram
<1>2. net' \subseteq net
  BY DEF AfterReceipt
<1>3. local \in [Xid -> LocalState]
  BY DEF Inv, TypeOK
<1>4. CASE local[x] = "sent"
  <2>1. local' = [local EXCEPT ![x] = "answered"]
    BY <1>4 DEF receive_response
  <2> QED BY <2>1, <1>1, <1>2, <1>4, LocalStepInv DEF receive_response, LocalState
<1>5. CASE local[x] = "answered"
  <2>1. local' = [local EXCEPT ![x] = "dropped"]
    BY <1>5 DEF receive_response
  <2> QED BY <2>1, <1>1, <1>2, <1>5, LocalStepInv DEF receive_response, LocalState
<1>6. CASE local[x] \notin {"sent", "answered"}
  <2>1. local' = local
    BY <1>1, <1>3, <1>6 DEF receive_response
  <2> QED BY <2>1, <1>2, NetShrinkInv DEF receive_response, localVars, remoteVars
<1> QED BY <1>4, <1>5, <1>6

\* The user commits (xact_commit).
LEMMA CommitInv ==
  ASSUME Inv, NEW x \in Xid, xact_commit(x)
  PROVE  Inv'
<1>1. handled[x] = 1
  BY DEF xact_commit, Inv, Originator
<1> QED BY <1>1, LocalStepInv DEF xact_commit, LocalState

\* While a request is in flight its originator has not given up: it was sent
\* a response period before the deadline and lives for less than one.
LEMMA RequestBeforeDeadline ==
  ASSUME Inv, NEW m \in net, m.type = "request"
  PROVE  /\ m.xid \in Xid
         /\ now < Deadline(m.xid)
         /\ remote[m.xid] = "none" => handled[m.xid] = 0 /\ local[m.xid] = "sent"
<1>1. m.xid \in Xid /\ m.sent \in Nat /\ now \in Nat
  BY DEF Inv, TypeOK, Datagram
<1>2. Deadline(m.xid) \in Nat
  BY <1>1, PeriodArithmetic, TimerAssumption DEF Inv, TypeOK, Deadline
<1>3. now < Deadline(m.xid)
  BY <1>1, <1>2, TimerAssumption, DelayAssumption DEF Inv, InFlight
<1>4. ~(now >= Deadline(m.xid))
  BY <1>1, <1>2, <1>3
<1>5. ASSUME remote[m.xid] = "none" PROVE handled[m.xid] = 0
  BY <1>1, <1>4, <1>5 DEF Inv, Responder
<1>6. ASSUME remote[m.xid] = "none" PROVE local[m.xid] = "sent"
  <2>1. handled[m.xid] # 1
    BY <1>5, <1>6
  <2> QED BY <1>1, <1>4, <2>1 DEF Inv, InFlight, Originator, TypeOK, LocalState
<1> QED BY <1>1, <1>3, <1>5, <1>6

\* A request arrives that the responder does not remember.
LEMMA NewRequestInv ==
  ASSUME Inv, NEW m \in net, m.type = "request", receive_new_request(m.xid),
         net' \in AfterReceipt(m, {})
  PROVE  Inv'
<1> DEFINE x == m.xid
           P == N1 * T1
<1> USE DEF receive_new_request, localVars, Inv
<1>0. /\ x \in Xid /\ now < Deadline(x) /\ handled[x] = 0 /\ local[x] = "sent"
      /\ P \in Nat /\ H1 \in Nat /\ H1 >= 1
  BY RequestBeforeDeadline, PeriodArithmetic, TimerAssumption
<1>1. /\ handled' = [handled EXCEPT ![x] = 1]
      /\ remote'[x] = "step1" /\ hcount'[x] = H1
      /\ holding_due' = [holding_due EXCEPT ![x] = now + P]
  BY <1>0 DEF TypeOK, HoldingDuration
<1>2. net' \subseteq net
  BY DEF AfterReceipt
<1>3. TypeOK'
  BY <1>0, <1>1, <1>2 DEF TypeOK, RemoteState
<1>4. \A y \in Xid : Deadline(y)' = Deadline(y)
  BY DEF Deadline
<1>5. ASSUME NEW n \in net' PROVE InFlight(n)'
  BY <1>0, <1>1, <1>2, <1>4, <1>5 DEF InFlight, TypeOK, Datagram
<1>6. ASSUME NEW y \in Xid PROVE Originator(y)' /\ Responder(y)'
  <2>1. CASE y = x
    <3>1. holding_due'[x] >= Deadline(x)
      BY <1>0, <1>1 DEF Deadline, Originator, TypeOK
    <3>2. handled'[x] = 1
      BY <1>0, <1>1 DEF TypeOK
    <3>3. Originator(x)'
      BY <1>0, <1>4, <3>2 DEF Originator
    <3>4. Responder(x)'
      BY <1>0, <1>1, <1>4, <3>1, <3>2 DEF Responder
    <3> QED BY <2>1, <3>3, <3>4
  <2>2. CASE y # x
    BY <1>0, <1>1, <1>4, <2>2 DEF Originator, Responder, TypeOK
  <2> QED BY <2>1, <2>2
<1> QED BY <1>3, <1>5, <1>6

\* The responder sends, or sends again, the response of a request it has
\* handled; the holding timer may be restarted and the state advance.
LEMMA RemoteStepInv ==
  ASSUME Inv, NEW x \in Xid, remote[x] # "none",
         NEW s \in RemoteState \ {"none"},
         remote' = [remote EXCEPT ![x] = s],
         NEW d \in {holding_due[x], now + HoldingDuration},
         holding_due' = [holding_due EXCEPT ![x] = d],
         net' \subseteq net \cup {Response(x)},
         UNCHANGED <<now, localVars, hcount, handled>>
  PROVE  Inv'
<1> DEFINE P == N1 * T1
<1> USE DEF localVars, Inv
<1>0. P \in Nat /\ HoldingDuration = P /\ Delay \in Nat
  BY PeriodArithmetic, TimerAssumption, DelayAssumption DEF HoldingDuration
<1>1. TypeOK'
  BY <1>0 DEF TypeOK, Datagram, Response
<1>2. \A y \in Xid : Deadline(y)' = Deadline(y)
  BY DEF Deadline
<1>3. ASSUME NEW m \in net' PROVE InFlight(m)'
  <2>1. CASE m \in net
    BY <1>2, <2>1 DEF InFlight, TypeOK, Datagram
  <2>2. CASE m = Response(x)
    <3>1. local[x] # "free" /\ handled[x] = 1 /\ now \in Nat
      BY DEF Originator, Responder, TypeOK
    <3>2. m.sent = now /\ m.type = "response" /\ m.xid = x
      BY <2>2 DEF Response
    <3> QED BY <1>0, <3>1, <3>2 DEF InFlight
  <2> QED BY <1>3, <2>1, <2>2
<1>4. ASSUME NEW y \in Xid PROVE Originator(y)' /\ Responder(y)'
  <2>1. CASE y = x
    <3>1. /\ holding_due'[x] = d /\ remote'[x] = s
      BY DEF TypeOK
    <3>2. d >= Deadline(x)
      BY <1>0 DEF Deadline, Originator, Responder, TypeOK
    <3> QED BY <1>2, <2>1, <3>1, <3>2 DEF Originator, Responder
  <2>2. CASE y # x
    BY <1>2, <2>2 DEF Originator, Responder, TypeOK
  <2> QED BY <2>1, <2>2
<1> QED BY <1>1, <1>3, <1>4

\* A retransmission arrives (receive_duplicate_request).
LEMMA DuplicateRequestInv ==
  ASSUME Inv, NEW m \in net, m.type = "request", NEW sendAgain \in BOOLEAN,
         receive_duplicate_request(m.xid, sendAgain),
         net' \in AfterReceipt(m, IF sendAgain THEN {Response(m.xid)} ELSE {})
  PROVE  Inv'
<1> DEFINE x == m.xid
           d == IF sendAgain THEN now + HoldingDuration ELSE holding_due[x]
<1>1. x \in Xid /\ remote \in [Xid -> RemoteState] /\ holding_due \in [Xid -> Nat]
  BY DEF Inv, TypeOK, Datagram
<1>2. /\ remote[x] \in RemoteState \ {"none"}
      /\ remote' = [remote EXCEPT ![x] = remote[x]]
      /\ d \in {holding_due[x], now + HoldingDuration}
      /\ holding_due' = [holding_due EXCEPT ![x] = d]
  BY <1>1 DEF receive_duplicate_request
<1>3. net' \subseteq net \cup {Response(x)}
  BY DEF AfterReceipt
<1>4. UNCHANGED <<now, localVars, hcount, handled>> /\ remote[x] # "none"
  BY DEF receive_duplicate_request
<1> HIDE DEF x, d
<1> QED BY <1>1, <1>2, <1>3, <1>4, RemoteStepInv

\* The handler answers (xact_answer).
LEMMA AnswerInv ==
  ASSUME Inv, NEW x \in Xid, xact_answer(x)
  PROVE  Inv'
<1>1. holding_due \in [Xid -> Nat]
  BY DEF Inv, TypeOK
<1>2. holding_due' = [holding_due EXCEPT ![x] = holding_due[x]]
  BY <1>1 DEF xact_answer
<1>3. /\ remote[x] # "none" /\ remote' = [remote EXCEPT ![x] = "step2"]
      /\ net' \subseteq net \cup {Response(x)}
      /\ UNCHANGED <<now, localVars, hcount, handled>>
  BY DEF xact_answer
<1> QED BY <1>2, <1>3, RemoteStepInv DEF RemoteState

\* The holding timer expires (holding_timeout): the deadline has passed.
LEMMA HoldingTimeoutInv ==
  ASSUME Inv, NEW x \in Xid, holding_timeout(x)
  PROVE  Inv'
<1> DEFINE P == N1 * T1
<1> USE DEF holding_timeout, localVars, Inv
<1>0. P \in Nat /\ HoldingDuration = P /\ now \in Nat /\ H1 \in Nat
  BY PeriodArithmetic, TimerAssumption DEF HoldingDuration, TypeOK
<1>1. now >= Deadline(x) /\ Deadline(x) \in Nat /\ hcount[x] \in 1 .. H1
  BY <1>0 DEF Responder, Deadline, TypeOK
<1>2. TypeOK'
  BY <1>0, <1>1 DEF TypeOK, RemoteState
<1>3. \A y \in Xid : Deadline(y)' = Deadline(y)
  BY DEF Deadline
<1>4. ASSUME NEW m \in net' PROVE InFlight(m)'
  BY <1>3 DEF InFlight, TypeOK, Datagram
<1>5. ASSUME NEW y \in Xid PROVE Originator(y)' /\ Responder(y)'
  <2>1. CASE y = x /\ hcount[x] - 1 > 0
    <3>1. /\ remote'[x] = remote[x] /\ hcount'[x] = hcount[x] - 1
          /\ holding_due'[x] = now + P
      BY <1>0, <2>1 DEF TypeOK
    <3>2. holding_due'[x] >= Deadline(x) /\ hcount'[x] >= 1
      BY <1>0, <1>1, <2>1, <3>1
    <3> QED BY <1>3, <2>1, <3>1, <3>2 DEF Originator, Responder
  <2>2. CASE y = x /\ ~(hcount[x] - 1 > 0)
    <3>1. remote'[x] = "none"
      BY <2>2 DEF TypeOK
    <3>2. now' >= Deadline(x)'
      BY <1>1, <1>3
    <3> QED BY <1>3, <2>2, <3>1, <3>2 DEF Originator, Responder
  <2>3. CASE y # x
    <3>1. /\ remote'[y] = remote[y] /\ hcount'[y] = hcount[y]
          /\ holding_due'[y] = holding_due[y]
      BY <2>3 DEF TypeOK
    <3> QED BY <1>3, <3>1 DEF Originator, Responder
  <2> QED BY <2>1, <2>2, <2>3
<1> QED BY <1>2, <1>4, <1>5

\* The clock advances (Tick).
LEMMA TickInv == ASSUME Inv, Tick PROVE Inv'
<1> USE DEF Tick, localVars, remoteVars, Inv
<1>1. now \in Nat /\ now' = now + 1
  BY DEF TypeOK
<1>2. TypeOK'
  BY <1>1 DEF TypeOK
<1>3. \A y \in Xid : Deadline(y)' = Deadline(y) /\ Deadline(y) \in Nat
  BY PeriodArithmetic, TimerAssumption DEF Deadline, TypeOK
<1>4. ASSUME NEW m \in net' PROVE InFlight(m)'
  <2>1. m \in net /\ m.sent \in Nat /\ Delay \in Nat /\ m.xid \in Xid
    BY <1>4, DelayAssumption DEF TypeOK, Datagram
  <2>2. m.sent <= now' /\ now' <= m.sent + Delay
    BY <1>1, <2>1 DEF InFlight
  <2> QED BY <1>3, <2>1, <2>2 DEF InFlight
<1>5. ASSUME NEW y \in Xid PROVE Originator(y)' /\ Responder(y)'
  <2>1. /\ born[y] <= now => born[y] <= now'
        /\ now >= Deadline(y) => now' >= Deadline(y)'
    BY <1>1, <1>3 DEF TypeOK
  <2> QED BY <1>3, <2>1 DEF Originator, Responder
<1> QED BY <1>2, <1>4, <1>5

\* Every step preserves the inductive invariant.
LEMMA NextInv == Inv /\ [Next]_vars => Inv'
<1> SUFFICES ASSUME Inv, [Next]_vars PROVE Inv'
  OBVIOUS
<1>1. ASSUME NEW x \in Xid, xact_request(x) PROVE Inv'
  BY <1>1, RequestInv
<1>2. ASSUME NEW x \in Xid, response_timeout(x) PROVE Inv'
  BY <1>2, ResponseTimeoutInv
<1>3. ASSUME NEW x \in Xid, xact_commit(x) PROVE Inv'
  BY <1>3, CommitInv
<1>4. ASSUME NEW x \in Xid, xact_answer(x) PROVE Inv'
  BY <1>4, AnswerInv
<1>5. ASSUME NEW x \in Xid, holding_timeout(x) PROVE Inv'
  BY <1>5, HoldingTimeoutInv
<1>6. ASSUME NEW m \in net, Receive(m) PROVE Inv'
  BY <1>6, NewRequestInv, DuplicateRequestInv, ResponseInv DEF Receive
<1>7. ASSUME NEW m \in net, Lose(m) PROVE Inv'
  BY <1>7, NetShrinkInv DEF Lose
<1>8. CASE Tick
  BY <1>8, TickInv
<1>9. CASE UNCHANGED vars
  BY <1>9, NetShrinkInv DEF vars, localVars, remoteVars
<1> QED BY <1>1, <1>2, <1>3, <1>4, <1>5, <1>6, <1>7, <1>8, <1>9 DEF Next

\* The inductive invariant holds in every reachable state.
THEOREM Invariant == Spec => []Inv
  BY InitInv, NextInv, PTL DEF Spec

\* TypeOK holds for all timer settings: in particular the retry and holding
\* counters of struct ogs_pfcp_xact_s never go below zero.
THEOREM TypeCorrect == Spec => []TypeOK
<1>1. Inv => TypeOK
  BY DEF Inv
<1> QED BY <1>1, Invariant, PTL

\* The handler of a request runs at most once (AtMostOnce), for all settings
\* with the holding time derived as N1 * T1 and datagrams shorter-lived than
\* one response period.
THEOREM AtMostOnceHolds == Spec => []AtMostOnce
<1>1. Inv => AtMostOnce
  <2> SUFFICES ASSUME Inv, NEW x \in Xid PROVE handled[x] <= 1
    BY DEF AtMostOnce
  <2>1. handled[x] \in {0, 1}
    BY DEF Inv, Responder
  <2> QED BY <2>1
<1> QED BY <1>1, Invariant, PTL

\* What the refinement mapping does to one transaction.
LEMMA CallOfChange ==
  ASSUME Inv, NEW x \in Xid, NEW s \in LocalState,
         local' = [local EXCEPT ![x] = s]
  PROVE  callOf' = [callOf EXCEPT ![x] = CASE s = "free"   -> "idle"
                                           [] s = "sent"   -> "pending"
                                           [] s = "failed" -> "failed"
                                           [] OTHER        -> "ok"]
  BY DEF callOf, Inv, TypeOK

\* Every step is a step of the at-most-once call, or invisible to its user.
LEMMA StepRefines ==
  ASSUME Inv, [Next]_vars
  PROVE  [Call!Next]_(Call!callVars)
<1> USE DEF Call!callVars
<1>0. local \in [Xid -> LocalState] /\ handled \in [Xid -> Nat]
  BY DEF Inv, TypeOK
<1>1. ASSUME NEW x \in Xid, xact_request(x) PROVE Call!Request(x)
  <2>1. callOf' = [callOf EXCEPT ![x] = "pending"]
    BY <1>1, CallOfChange DEF xact_request, LocalState
  <2>2. callOf[x] = "idle"
    BY <1>1 DEF callOf, xact_request
  <2> QED BY <1>1, <2>1, <2>2 DEF Call!Request, xact_request, remoteVars
<1>2. ASSUME NEW x \in Xid, response_timeout(x)
      PROVE  Call!Fail(x) \/ UNCHANGED <<callOf, handled>>
  <2>1. CASE rcount[x] - 1 > 0
    BY <1>2, <2>1 DEF response_timeout, remoteVars, callOf
  <2>2. CASE ~(rcount[x] - 1 > 0)
    <3>1. callOf' = [callOf EXCEPT ![x] = "failed"]
      BY <1>2, <2>2, CallOfChange DEF response_timeout, LocalState
    <3>2. callOf[x] = "pending"
      BY <1>2 DEF callOf, response_timeout
    <3> QED BY <1>2, <3>1, <3>2 DEF Call!Fail, response_timeout, remoteVars
  <2> QED BY <2>1, <2>2
<1>3. ASSUME NEW x \in Xid, xact_commit(x) PROVE UNCHANGED <<callOf, handled>>
  <2>1. callOf' = [callOf EXCEPT ![x] = "ok"]
    BY <1>3, CallOfChange DEF xact_commit, LocalState
  <2>2. callOf[x] = "ok"
    BY <1>3 DEF callOf, xact_commit
  <2> QED BY <1>3, <2>1, <2>2 DEF callOf, xact_commit, remoteVars
<1>4. ASSUME NEW x \in Xid, xact_answer(x) \/ holding_timeout(x)
      PROVE  UNCHANGED <<callOf, handled>>
  BY <1>4 DEF xact_answer, holding_timeout, localVars, callOf
<1>5. ASSUME NEW m \in net, m.type = "request", receive_new_request(m.xid)
      PROVE  Call!Execute(m.xid) /\ m.xid \in Xid
  <2>1. /\ m.xid \in Xid /\ handled[m.xid] = 0 /\ local[m.xid] = "sent"
    BY <1>5, RequestBeforeDeadline DEF receive_new_request
  <2>2. /\ callOf[m.xid] = "pending" /\ callOf' = callOf
        /\ handled' = [handled EXCEPT ![m.xid] = 1]
    BY <1>0, <1>5, <2>1 DEF callOf, receive_new_request, localVars
  <2> QED BY <2>1, <2>2 DEF Call!Execute
<1>6. ASSUME NEW m \in net, NEW b \in BOOLEAN, receive_duplicate_request(m.xid, b)
      PROVE  UNCHANGED <<callOf, handled>>
  BY <1>6 DEF receive_duplicate_request, localVars, callOf
<1>7. ASSUME NEW m \in net, m.type = "response", receive_response(m.xid)
      PROVE  (Call!Succeed(m.xid) /\ m.xid \in Xid) \/ UNCHANGED <<callOf, handled>>
  <2> DEFINE x == m.xid
  <2>0. x \in Xid /\ handled[x] = 1 /\ UNCHANGED handled
    BY <1>7 DEF Inv, InFlight, TypeOK, Datagram, receive_response, remoteVars
  <2>1. CASE local[x] = "sent"
    <3>1. local' = [local EXCEPT ![x] = "answered"]
      BY <1>7, <2>1 DEF receive_response
    <3>2. callOf' = [callOf EXCEPT ![x] = "ok"]
      BY <2>0, <3>1, CallOfChange DEF LocalState
    <3>3. callOf[x] = "pending"
      BY <2>0, <2>1 DEF callOf
    <3> QED BY <2>0, <3>2, <3>3 DEF Call!Succeed
  <2>2. CASE local[x] = "answered"
    <3>1. local' = [local EXCEPT ![x] = "dropped"]
      BY <1>7, <2>2 DEF receive_response
    <3>2. callOf' = [callOf EXCEPT ![x] = "ok"]
      BY <2>0, <3>1, CallOfChange DEF LocalState
    <3>3. callOf[x] = "ok"
      BY <2>0, <2>2 DEF callOf
    <3> QED BY <2>0, <3>2, <3>3 DEF callOf
  <2>3. CASE local[x] \notin {"sent", "answered"}
    <3>1. local' = local
      BY <1>0, <1>7, <2>0, <2>3 DEF receive_response
    <3> QED BY <2>0, <3>1 DEF callOf
  <2> QED BY <2>1, <2>2, <2>3
<1>8. ASSUME NEW m \in net, Receive(m)
      PROVE  (\E x \in Xid : Call!Execute(x) \/ Call!Succeed(x))
             \/ UNCHANGED <<callOf, handled>>
  BY <1>5, <1>6, <1>7, <1>8 DEF Receive
<1>9. ASSUME NEW m \in net, Lose(m) PROVE UNCHANGED <<callOf, handled>>
  BY <1>9 DEF Lose, localVars, remoteVars, callOf
<1>10. ASSUME Tick \/ UNCHANGED vars PROVE UNCHANGED <<callOf, handled>>
  BY <1>10 DEF Tick, vars, localVars, remoteVars, callOf
<1> QED BY <1>1, <1>2, <1>3, <1>4, <1>8, <1>9, <1>10 DEF Next, Call!Next

\* The transaction layer implements the at-most-once call (ImplementsCall):
\* a response reaches the user only after exactly one execution, and nothing
\* is executed after response_timeout gave up.
THEOREM Refinement == Spec => ImplementsCall
<1>1. Init => Call!Init
  BY DEF Init, Call!Init, callOf
<1>2. Inv /\ [Next]_vars => [Call!Next]_(Call!callVars)
  BY StepRefines
<1> QED BY <1>1, <1>2, Invariant, PTL DEF Spec, ImplementsCall, Call!Spec
=============================================================================

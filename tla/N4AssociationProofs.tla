------------------------ MODULE N4AssociationProofs -------------------------
(***************************************************************************)
(* The association of SMF and UPF, for any sessions, any configuration and *)
(* any number of faults: types, and how often the UPF removes sessions of  *)
(* the SMF process that runs.                                              *)
(***************************************************************************)
EXTENDS N4Association, DataLemmas

-----------------------------------------------------------------------------
(* The transactions under way. *)

\* A transaction belongs to the process that runs, and an answer to it is from
\* no later process than runs on the other side.
Current(x) == /\ x.born = recovery[x.from]
              /\ x.stage = "rsp" => x.ts <= recovery[Peer(x.from)]

NetCurrent == \A x \in BagToSet(net) : Current(x)

\* The types, with the owners of the transactions.
Inv == TypeOK /\ NetCurrent

\* A bag that may become net: of transactions that are current.
Fine(b) == /\ IsABag(b)
           /\ \A x \in BagToSet(b) : x \in Xact /\ Current(x)

\* The two sides.
LEMMA Sides ==
  ASSUME NEW s \in Side
  PROVE  Peer(s) \in Side /\ Peer(s) # s /\ Peer(Peer(s)) = s
  BY DEF Side, Peer

\* net is fine, with or without one transaction; a bag stays fine with
\* others that are.
LEMMA FineBags ==
  ASSUME Inv
  PROVE  /\ Fine(net)
         /\ \A x : Fine(Done(x))
         /\ \A b, S : Fine(b) /\ (\A y \in S : y \in Xact /\ Current(y)) =>
              Fine(b (+) SetToBag(S))
<1>1. Fine(net)
  BY DEF Inv, TypeOK, NetCurrent, Fine
<1>2. ASSUME NEW x
      PROVE  Fine(Done(x))
  BY <1>1, BagTake DEF Fine, Done
<1>3. ASSUME NEW b, NEW S, Fine(b), \A y \in S : y \in Xact /\ Current(y)
      PROVE  Fine(b (+) SetToBag(S))
  <2>1. /\ IsABag(b (+) SetToBag(S))
        /\ BagToSet(b (+) SetToBag(S)) = BagToSet(b) \cup S
    BY <1>3, BagAdd DEF Fine
  <2>. QED
    BY <1>3, <2>1 DEF Fine
<1>. QED
  BY <1>1, <1>2, <1>3

\* A new request is current.
LEMMA RequestCurrent ==
  ASSUME Inv, NEW s \in Side, NEW k \in Kind, NEW q \in Seid \cup {NoSeid}
  PROVE  Request(s, k, q) \in Xact /\ Current(Request(s, k, q))
<1>1. recovery[s] \in Nat
  BY DEF Inv, TypeOK
<1>2. Request(s, k, q) \in Xact
  BY <1>1 DEF Request, Xact
<1>3. /\ Request(s, k, q).from = s /\ Request(s, k, q).stage = "req"
      /\ Request(s, k, q).born = recovery[s]
  BY DEF Request
<1>. QED
  BY <1>2, <1>3 DEF Current

\* A transaction is turned into one of another stage.
LEMMA TurnedFine ==
  ASSUME Inv, NEW x \in BagToSet(net),
         NEW g \in {"req", "taken", "rsp", "lost"}, NEW t \in Nat,
         g = "rsp" => t <= recovery[Peer(x.from)]
  PROVE  Fine(Turned(x, [x EXCEPT !.stage = g, !.ts = t]))
<1>. DEFINE y == [x EXCEPT !.stage = g, !.ts = t]
<1>1. x \in Xact /\ Current(x)
  BY DEF Inv, TypeOK, NetCurrent
<1>2. y \in Xact /\ y.from = x.from /\ y.born = x.born /\ y.stage = g /\ y.ts = t
  BY <1>1 DEF Xact
<1>. HIDE DEF y
<1>3. Current(y)
  BY <1>1, <1>2 DEF Current
<1>4. \A z \in {y} : z \in Xact /\ Current(z)
  BY <1>2, <1>3
<1>5. Fine(Done(x) (+) SetToBag({y}))
  BY <1>4, FineBags
<1>. QED
  BY <1>5 DEF Turned, y

\* s has executed a request of its peer.
LEMMA ExecutedFine ==
  ASSUME Inv, NEW x \in BagToSet(net), NEW s \in Side, x.from = Peer(s),
         NEW g \in {"taken", "rsp"}
  PROVE  Fine(Executed(s, x, g))
<1>1. recovery[s] \in Nat /\ recovery[s] <= recovery[Peer(x.from)]
  BY Sides DEF Inv, TypeOK
<1>2. Fine(Turned(x, [x EXCEPT !.stage = g, !.ts = recovery[s]]))
  BY <1>1, TurnedFine
<1>. QED
  BY <1>2 DEF Executed

-----------------------------------------------------------------------------
(* Types. *)

\* What the state machine of a node makes of it is a node.
LEMMA NodeTypes ==
  ASSUME Inv, NEW s \in Side, NEW n \in Node, NEW t \in Nat
  PROVE  /\ Learned(n, t) \in Node
         /\ Settled(s, n) \in Node
         /\ Associated(n) \in Node
         /\ Dissociated(n) \in Node
         /\ StartNode(s) \in Node
         /\ [n EXCEPT !.hb = TRUE] \in Node
         /\ [n EXCEPT !.hb = FALSE] \in Node
         /\ [n EXCEPT !.st = "will_associate"] \in Node
<1>1. \A b \in BOOLEAN : [n EXCEPT !.resto = b, !.remote = t] \in Node
  BY DEF Node
<1>2. Learned(n, t) \in Node
  <2>1. (n.resto \/ (n.remote # 0 /\ n.remote < t)) \in BOOLEAN
    OBVIOUS
  <2>. QED
    BY <1>1, <2>1 DEF Learned
<1>3. /\ [n EXCEPT !.st = "will_associate", !.hb = FALSE] \in Node
      /\ [n EXCEPT !.resto = FALSE] \in Node
      /\ [n EXCEPT !.st = "associated", !.hb = TRUE, !.resto = FALSE] \in Node
      /\ [n EXCEPT !.hb = TRUE] \in Node
      /\ [n EXCEPT !.hb = FALSE] \in Node
      /\ [n EXCEPT !.st = "will_associate"] \in Node
  BY DEF Node
<1>4. StartNode(s) \in Node
  BY DEF StartNode, Node
<1>. QED
  BY <1>2, <1>3, <1>4 DEF Settled, Associated, Dissociated

\* A transition of the node of s, with all that it sends.
LEMMA MoveInv ==
  ASSUME Inv, NEW s \in Side, NEW n, NEW m \in Node, NEW rest, Fine(rest),
         Move(s, n, m, rest), UNCHANGED <<initiator, recovery, faults>>,
         smfSess' \in [Seid -> {"none", "wait", "up"}], belated' \in Nat
  PROVE  Inv'
<1>. DEFINE sent == Entered(s, n, m) \cup
                    IF n.resto /\ ~m.resto THEN Restored(s) ELSE {}
<1>1. \A y \in Entered(s, n, m) : y \in Xact /\ Current(y)
  <2>1. {"heartbeat", "setup"} \subseteq Kind
    BY DEF Kind
  <2>. QED
    BY <2>1, RequestCurrent DEF Entered
<1>2. \A y \in Restored(s) : y \in Xact /\ Current(y)
  <2>1. "establish" \in Kind /\ "smf" \in Side
    BY DEF Kind, Side
  <2>. QED
    BY <2>1, RequestCurrent DEF Restored
<1>3. \A y \in sent : y \in Xact /\ Current(y)
  BY <1>1, <1>2
<1>4. net' = rest (+) SetToBag(sent) /\ node' = [node EXCEPT ![s] = m]
        /\ upfSess' \in {NoSessions, upfSess}
        /\ removals' \in {removals, removals + 1}
  BY DEF Move
<1>. HIDE DEF sent
<1>5. Fine(net')
  BY <1>3, <1>4, FineBags
<1>6. IsABag(net') /\ BagToSet(net') \subseteq Xact /\ NetCurrent'
  BY <1>5 DEF Fine, NetCurrent, Current
<1>7. /\ node' \in [Side -> Node] /\ upfSess' \in [Seid -> Nat]
      /\ removals' \in Nat
  BY <1>4 DEF Inv, TypeOK, NoSessions
<1>. QED
  BY <1>6, <1>7 DEF Inv, TypeOK

\* A step that moves no node.
LEMMA OtherInv ==
  ASSUME Inv, Fine(net'), node' \in [Side -> Node],
         smfSess' \in [Seid -> {"none", "wait", "up"}],
         upfSess' \in [Seid -> Nat], faults' \in 0 .. MaxFault,
         UNCHANGED <<initiator, recovery, history>>
  PROVE  Inv'
<1>1. IsABag(net') /\ BagToSet(net') \subseteq Xact /\ NetCurrent'
  BY DEF Fine, NetCurrent, Current
<1>2. removals' \in Nat /\ belated' \in Nat
  BY DEF Inv, TypeOK, history
<1>. QED
  BY <1>1, <1>2 DEF Inv, TypeOK

\* Messages of the association.
LEMMA NodeMessageInv ==
  ASSUME Inv, NEW x \in BagToSet(net), NEW s \in Side,
         heartbeat_request(s, x) \/ heartbeat_response(s, x)
           \/ association_setup_request(s, x)
           \/ association_setup_response(s, x)
  PROVE  Inv'
<1>1. /\ node[s] \in Node
      /\ smfSess \in [Seid -> {"none", "wait", "up"}]
      /\ x.born \in Nat /\ x.ts \in Nat
  BY DEF Inv, TypeOK, Xact
<1>2. /\ UNCHANGED <<initiator, recovery, smfSess, faults>>
      /\ smfSess' \in [Seid -> {"none", "wait", "up"}]
      /\ belated' \in Nat
  BY <1>1 DEF Inv, TypeOK, heartbeat_request, heartbeat_response,
     association_setup_request, association_setup_response
<1>3. CASE heartbeat_request(s, x)
  <2>. DEFINE n == Learned(node[s], x.born)
  <2>1. Settled(s, n) \in Node
    BY <1>1, NodeTypes
  <2>2. Fine(Answered(s, x))
    BY <1>3, ExecutedFine DEF heartbeat_request, Answered
  <2>3. Move(s, n, Settled(s, n), Answered(s, x))
    BY <1>3 DEF heartbeat_request
  <2>. QED
    BY <1>2, <2>1, <2>2, <2>3, MoveInv
<1>4. CASE heartbeat_response(s, x)
  <2>. DEFINE n == [Learned(node[s], x.ts) EXCEPT !.hb = TRUE]
  <2>1. Settled(s, n) \in Node
    BY <1>1, NodeTypes
  <2>2. Fine(Done(x))
    BY FineBags
  <2>3. Move(s, n, Settled(s, n), Done(x))
    BY <1>4 DEF heartbeat_response
  <2>. QED
    BY <1>2, <2>1, <2>2, <2>3, MoveInv
<1>5. CASE association_setup_request(s, x)
  <2>. DEFINE n == IF node[s].st = "unknown"
                   THEN [node[s] EXCEPT !.st = "will_associate"]
                   ELSE node[s]
  <2>1. 0 \in Nat
    OBVIOUS
  <2>2. Associated(n) \in Node
    <3>1. n \in Node
      BY <1>1, <2>1, NodeTypes
    <3>. QED
      BY <2>1, <3>1, NodeTypes
  <2>3. Fine(Answered(s, x))
    BY <1>5, ExecutedFine DEF association_setup_request, Answered
  <2>4. Move(s, n, Associated(n), Answered(s, x))
    BY <1>5 DEF association_setup_request
  <2>. QED
    BY <1>2, <2>2, <2>3, <2>4, MoveInv
<1>6. CASE association_setup_response(s, x)
  <2>1. Associated(node[s]) \in Node
    BY <1>1, NodeTypes
  <2>2. Fine(Done(x))
    BY FineBags
  <2>3. Move(s, node[s], Associated(node[s]), Done(x))
    BY <1>6 DEF association_setup_response
  <2>. QED
    BY <1>2, <2>1, <2>2, <2>3, MoveInv
<1>. QED
  BY <1>3, <1>4, <1>5, <1>6

\* Messages of the sessions.
LEMMA SessionMessageInv ==
  ASSUME Inv, NEW x \in BagToSet(net),
         session_establishment_request(x) \/ session_establishment_response(x)
  PROVE  Inv'
<1>1. /\ node' \in [Side -> Node] /\ faults' \in 0 .. MaxFault
      /\ UNCHANGED <<initiator, recovery, history>>
  BY DEF session_establishment_request, session_establishment_response, Inv,
     TypeOK
<1>2. CASE session_establishment_request(x)
  <2>1. "upf" \in Side /\ x.from = Peer("upf")
    BY <1>2 DEF session_establishment_request, Side, Peer
  <2>2. Fine(net')
    BY <1>2, <2>1, ExecutedFine DEF session_establishment_request, Answered
  <2>3. upfSess' \in [Seid -> Nat] /\ UNCHANGED smfSess
    BY <1>2 DEF session_establishment_request, Inv, TypeOK, Xact
  <2>. QED
    BY <1>1, <2>2, <2>3, OtherInv DEF Inv, TypeOK
<1>3. CASE session_establishment_response(x)
  <2>1. Fine(net')
    BY <1>3, FineBags DEF session_establishment_response
  <2>2. smfSess' \in [Seid -> {"none", "wait", "up"}] /\ UNCHANGED upfSess
    BY <1>3 DEF session_establishment_response, Inv, TypeOK
  <2>. QED
    BY <1>1, <2>1, <2>2, OtherInv DEF Inv, TypeOK
<1>. QED
  BY <1>2, <1>3

\* Transactions that end, are lost or come again.
LEMMA TransactionInv ==
  ASSUME Inv, NEW x \in BagToSet(net), node_timeout(x) \/ lose(x) \/ retransmit(x)
  PROVE  Inv'
<1>1. x \in Xact /\ x.from \in Side /\ x.ts \in Nat
  BY DEF Inv, TypeOK, Xact
<1>2. CASE node_timeout(x)
  <2>1. Fine(Done(x))
    BY FineBags
  <2>2. smfSess' \in [Seid -> {"none", "wait", "up"}]
          /\ UNCHANGED <<initiator, recovery, faults, belated>>
          /\ belated' \in Nat
    BY <1>2 DEF node_timeout, Inv, TypeOK
  <2>3. CASE x.kind = "heartbeat"
    <3>1. Move(x.from, node[x.from], Dissociated(node[x.from]), Done(x))
      BY <1>2, <2>3 DEF node_timeout
    <3>2. Dissociated(node[x.from]) \in Node
      BY <1>1, NodeTypes DEF Inv, TypeOK
    <3>. QED
      BY <1>1, <2>1, <2>2, <3>1, <3>2, MoveInv
  <2>4. CASE x.kind # "heartbeat"
    <3>1. net' = Done(x) /\ UNCHANGED <<node, upfSess, history>>
      BY <1>2, <2>4 DEF node_timeout, history
    <3>. QED
      BY <2>1, <2>2, <3>1, OtherInv DEF Inv, TypeOK
  <2>. QED
    BY <2>3, <2>4
<1>3. CASE lose(x)
  <2>1. [x EXCEPT !.stage = "lost"] = [x EXCEPT !.stage = "lost", !.ts = x.ts]
    BY <1>1 DEF Xact
  <2>2. Fine(net')
    BY <1>1, <1>3, <2>1, TurnedFine DEF lose
  <2>3. /\ faults' \in 0 .. MaxFault
        /\ UNCHANGED <<initiator, recovery, node, smfSess, upfSess, history>>
    BY <1>3, N4Assumption DEF lose, Inv, TypeOK
  <2>. QED
    BY <2>2, <2>3, OtherInv DEF Inv, TypeOK
<1>4. CASE retransmit(x)
  <2>1. Fine(net')
    BY <1>4, TurnedFine DEF retransmit
  <2>. QED
    BY <1>4, <2>1, OtherInv DEF retransmit, Inv, TypeOK
<1>. QED
  BY <1>2, <1>3, <1>4

\* Timers and new sessions.
LEMMA TimerInv ==
  ASSUME Inv,
         \/ \E s \in Side : association_timer(s) \/ heartbeat_timer(s)
         \/ \E q \in Seid : session_create(q)
  PROVE  Inv'
<1>1. ASSUME NEW y \in Xact, Current(y)
      PROVE  Fine(net (+) SetToBag({y}))
  BY <1>1, FineBags
<1>2. Fine(net) /\ Kind = {"setup", "heartbeat", "establish"}
  BY FineBags DEF Kind
<1>3. ASSUME NEW s \in Side, association_timer(s)
      PROVE  Inv'
  <2>1. Fine(net')
    BY <1>1, <1>2, <1>3, RequestCurrent DEF association_timer
  <2>. QED
    BY <1>3, <2>1, OtherInv DEF association_timer, Inv, TypeOK
<1>4. ASSUME NEW s \in Side, heartbeat_timer(s)
      PROVE  Inv'
  <2>1. Fine(net')
    BY <1>1, <1>2, <1>4, RequestCurrent DEF heartbeat_timer
  <2>2. node' \in [Side -> Node]
    <3>1. [node[s] EXCEPT !.hb = FALSE] \in Node
      BY NodeTypes DEF Inv, TypeOK
    <3>2. node' = [node EXCEPT ![s] = [node[s] EXCEPT !.hb = FALSE]]
      BY <1>4 DEF heartbeat_timer
    <3>. QED
      BY <3>1, <3>2 DEF Inv, TypeOK
  <2>. QED
    BY <1>4, <2>1, <2>2, OtherInv DEF heartbeat_timer, Inv, TypeOK
<1>5. ASSUME NEW q \in Seid, session_create(q)
      PROVE  Inv'
  <2>1. Fine(net')
    BY <1>1, <1>2, <1>5, RequestCurrent DEF session_create, Side
  <2>2. smfSess' \in [Seid -> {"none", "wait", "up"}]
    BY <1>5 DEF session_create, Inv, TypeOK
  <2>. QED
    BY <1>5, <2>1, <2>2, OtherInv DEF session_create, Inv, TypeOK
<1>. QED
  BY <1>3, <1>4, <1>5

\* The transactions of a process go with it.
LEMMA RestartInv ==
  ASSUME Inv, NEW s \in Side, restart(s)
  PROVE  Inv'
<1>. DEFINE left == {x \in BagToSet(net) : x.from = Peer(s)}
            kept == [x \in left |-> net[x]]
            setup == [Request(s, "setup", NoSeid) EXCEPT !.born = @ + 1]
            new == IF s \in initiator THEN {setup} ELSE {}
<1>1. /\ recovery[s] \in Nat /\ recovery' = [recovery EXCEPT ![s] = @ + 1]
      /\ recovery'[s] = recovery[s] + 1
      /\ recovery'[Peer(s)] = recovery[Peer(s)]
      /\ recovery' \in [Side -> Nat]
  BY Sides DEF restart, Inv, TypeOK
<1>2. net' = kept (+) SetToBag(new)
  BY DEF restart
<1>3. ASSUME NEW x \in left
      PROVE  x \in Xact /\ Current(x)'
  <2>1. x \in Xact /\ Current(x) /\ x.from = Peer(s) /\ Peer(x.from) = s
          /\ x.ts \in Nat
    BY Sides DEF Inv, TypeOK, NetCurrent, Xact
  <2>2. x.born = recovery'[x.from]
    BY <1>1, <2>1 DEF Current
  <2>3. x.stage = "rsp" => x.ts <= recovery'[Peer(x.from)]
    BY <1>1, <2>1 DEF Current
  <2>. QED
    BY <2>1, <2>2, <2>3 DEF Current
<1>4. setup \in Xact /\ setup.born = recovery'[setup.from] /\ setup.stage = "req"
  <2>1. setup = [from |-> s, born |-> recovery[s] + 1, kind |-> "setup",
                 seid |-> NoSeid, stage |-> "req", ts |-> 0]
    BY DEF Request
  <2>. HIDE DEF setup
  <2>2. setup.from = s /\ setup.born = recovery[s] + 1 /\ setup.stage = "req"
    BY <2>1
  <2>3. setup \in Xact
    BY <1>1, <2>1 DEF Xact, Kind
  <2>. QED
    BY <1>1, <2>2, <2>3
<1>5. left \subseteq BagToSet(net)
  OBVIOUS
<1>6. IsABag(kept) /\ BagToSet(kept) = left
  BY <1>5, BagKeep DEF Inv, TypeOK
<1>7. \A y \in new : y \in Xact /\ y.born = recovery'[y.from] /\ y.stage = "req"
  <2>. HIDE DEF setup
  <2>. QED
    BY <1>4
<1>. HIDE DEF left, kept, setup, new
<1>8. IsABag(net') /\ BagToSet(net') = left \cup new
  BY <1>2, <1>6, BagAdd
<1>9. BagToSet(net') \subseteq Xact /\ NetCurrent'
  BY <1>3, <1>7, <1>8 DEF NetCurrent, Current
<1>10. node' \in [Side -> Node]
  BY NodeTypes DEF restart, Inv, TypeOK
<1>11. /\ smfSess' \in [Seid -> {"none", "wait", "up"}]
       /\ upfSess' \in [Seid -> Nat]
       /\ faults' \in 0 .. MaxFault /\ initiator' \in Configuration
       /\ removals' \in Nat /\ belated' \in Nat
  BY N4Assumption DEF restart, Inv, TypeOK, NoSessions, history
<1>. QED
  BY <1>1, <1>8, <1>9, <1>10, <1>11 DEF Inv, TypeOK

\* Init: the first processes and their setup requests.
LEMMA InitInv ==
  ASSUME Init
  PROVE  Inv
<1>1. /\ recovery \in [Side -> Nat] /\ initiator \in Configuration
      /\ initiator \subseteq Side
      /\ smfSess \in [Seid -> {"none", "wait", "up"}]
      /\ upfSess \in [Seid -> Nat] /\ faults \in 0 .. MaxFault
      /\ removals \in Nat /\ belated \in Nat
  BY N4Assumption DEF Init, NoSessions, Side
<1>2. node \in [Side -> Node]
  BY DEF Init, StartNode, Node
<1>. DEFINE S == {Request(s, "setup", NoSeid) : s \in initiator}
<1>3. \A x \in S : x \in Xact /\ Current(x)
  <2>. SUFFICES ASSUME NEW s \in initiator
                PROVE  /\ Request(s, "setup", NoSeid) \in Xact
                       /\ Current(Request(s, "setup", NoSeid))
    OBVIOUS
  <2>1. Request(s, "setup", NoSeid) \in Xact
    BY <1>1 DEF Request, Xact, Kind
  <2>2. /\ Request(s, "setup", NoSeid).from = s
        /\ Request(s, "setup", NoSeid).stage = "req"
        /\ Request(s, "setup", NoSeid).born = recovery[s]
    BY DEF Request
  <2>. QED
    BY <2>1, <2>2 DEF Current
<1>4. net = SetToBag(S)
  BY DEF Init
<1>. HIDE DEF S
<1>5. IsABag(net) /\ BagToSet(net) = S
  BY <1>4, BagOfSet
<1>. QED
  BY <1>1, <1>2, <1>3, <1>5 DEF Inv, TypeOK, NetCurrent

\* Every step preserves the types and the owners of the transactions.
LEMMA NextInv ==
  ASSUME Inv, [Next]_vars
  PROVE  Inv'
<1>1. CASE UNCHANGED vars
  BY <1>1 DEF vars, history, Inv, TypeOK, NetCurrent, Current
<1>. QED
  BY <1>1, NodeMessageInv, SessionMessageInv, TransactionInv, TimerInv,
     RestartInv DEF Next

\* The invariant of the association.
THEOREM Invariance == Spec => []Inv
<1>1. Init => Inv
  BY InitInv
<1>2. Inv /\ [Next]_vars => Inv'
  BY NextInv
<1>. QED
  BY <1>1, <1>2, PTL DEF Spec

\* The state machine of a PFCP node rests in no other state, on either side,
\* and messages of the association and of sessions are the only ones there are
\* (smf_pfcp_state_*, upf_pfcp_state_*).
THEOREM TypeCorrect == Spec => []TypeOK
<1>1. Inv => TypeOK
  BY DEF Inv
<1>. QED
  BY <1>1, Invariance, PTL

-----------------------------------------------------------------------------
(* How often sessions of the SMF process that runs are removed.  A removal  *)
(* is still to come if the time stamp the UPF has is not that of the        *)
(* process, and another if a restoration is due that will find sessions of  *)
(* it.  With these counted as well, the bound is kept by every step.        *)

Bit(b) == IF b THEN 1 ELSE 0

\* The UPF has the time stamp of an earlier process, when its node is n.
Outdated(n) == n.remote # 0 /\ n.remote # recovery["smf"]

\* A restoration is due that will remove sessions of the process that runs.
Due(n) == n.resto /\ Established

\* What is still to come, with n for the node of the UPF.
ToCome(n) == Bit(Outdated(n)) + Bit(Due(n))

\* A restoration waits for the association, in which no session comes up.
Waits(n) == n.resto => n.st # "associated"

Counted == /\ removals + ToCome(node["upf"]) <= 1 + belated
           /\ Waits(node["upf"])
           /\ \A q \in Seid : upfSess[q] <= recovery["smf"]

\* The values of Bit.
LEMMA Bits ==
  /\ \A b : Bit(b) \in 0 .. 1
  /\ \A b : b => Bit(b) = 1
  /\ \A b : ~b => Bit(b) = 0
  BY DEF Bit

\* What is still to come is at most two removals.
LEMMA ToComeBound == \A n : ToCome(n) \in 0 .. 2
  BY Bits DEF ToCome

\* A time stamp is taken: more is still to come only if it replaces another and
\* is of an earlier process.
LEMMA LearnedCount ==
  ASSUME Inv, NEW n \in Node, NEW t \in Nat, t <= recovery["smf"]
  PROVE  ToCome(Learned(n, t))
           <= ToCome(n) + Bit(t < recovery["smf"] /\ t # n.remote)
<1>. DEFINE m == Learned(n, t)
            r == recovery["smf"]
<1>1. /\ r \in Nat /\ n.remote \in Nat /\ n.resto \in BOOLEAN
      /\ m.remote = t
      /\ m.resto = (n.resto \/ (n.remote # 0 /\ n.remote < t))
  BY DEF Inv, TypeOK, Side, Node, Learned
<1>. HIDE DEF m
<1>2. CASE t = r
  <2>1. ~Outdated(m)
    BY <1>1, <1>2 DEF Outdated
  <2>2. Due(m) => Due(n) \/ Outdated(n)
    BY <1>1, <1>2 DEF Due, Outdated
  <2>. QED
    BY <2>1, <2>2, Bits DEF ToCome, m
<1>3. CASE t < r /\ t # n.remote
  <2>1. Due(m) => Due(n) \/ Outdated(n)
    BY <1>1, <1>3 DEF Due, Outdated
  <2>2. Bit(t < r /\ t # n.remote) = 1
    BY <1>3, Bits
  <2>. QED
    BY <2>1, <2>2, Bits DEF ToCome, m
<1>4. CASE t = n.remote /\ t # r
  <2>1. Outdated(m) = Outdated(n) /\ Due(m) = Due(n)
    BY <1>1, <1>4 DEF Outdated, Due
  <2>. QED
    BY <2>1, Bits DEF ToCome, m
<1>. QED
  BY <1>1, <1>2, <1>3, <1>4

\* The node of the UPF goes from n to m, which has the same time stamp: a
\* restoration that is done is not due any more.
LEMMA MoveCount ==
  ASSUME Inv, NEW n \in Node, NEW m \in Node, NEW rest,
         Move("upf", n, m, rest), recovery' = recovery,
         m.remote = n.remote, m.resto => n.resto
  PROVE  /\ removals' + ToCome(node["upf"])' = removals + ToCome(n)
         /\ \A q \in Seid : upfSess'[q] \in {0, upfSess[q]}
<1>1. /\ node'["upf"] = m /\ removals \in Nat
      /\ n.resto \in BOOLEAN /\ m.resto \in BOOLEAN
  BY DEF Move, Inv, TypeOK, Side, Node
<1>2. Outdated(node["upf"])' = Outdated(n)
  BY <1>1 DEF Outdated
<1>3. CASE n.resto /\ ~m.resto
  <2>1. /\ upfSess' = NoSessions
        /\ removals' = IF Established THEN removals + 1 ELSE removals
    BY <1>3 DEF Move
  <2>2. ~Due(node["upf"])'
    BY <1>1, <1>3 DEF Due
  <2>3. Due(n) = Established
    BY <1>1, <1>3 DEF Due, Established
  <2>4. removals' = removals + Bit(Due(n))
    BY <1>1, <2>1, <2>3 DEF Bit
  <2>5. Bit(Due(node["upf"])') = 0
    BY <2>2, Bits
  <2>. QED
    BY <1>1, <1>2, <2>1, <2>4, <2>5, Bits DEF ToCome, NoSessions
<1>4. CASE ~(n.resto /\ ~m.resto)
  <2>1. upfSess' = upfSess /\ removals' = removals
    BY <1>4 DEF Move
  <2>2. Due(node["upf"])' = Due(n)
    BY <1>1, <1>4, <2>1 DEF Due, Established
  <2>. QED
    BY <1>2, <2>1, <2>2 DEF ToCome
<1>. QED
  BY <1>3, <1>4

\* What the state machine makes of a node with a time stamp and a restoration.
LEMMA NodeCount ==
  ASSUME Inv, NEW s \in Side, NEW n \in Node
  PROVE  /\ \A m \in {Settled(s, n), Associated(n), Dissociated(n)} :
              m.remote = n.remote /\ (m.resto => n.resto)
         /\ Waits(Settled(s, n))
         /\ Waits(n) => Waits(Associated(n)) /\ Waits(Dissociated(n))
<1>1. /\ n.resto \in BOOLEAN
      /\ LET m == [n EXCEPT !.st = "will_associate", !.hb = FALSE]
         IN  m.remote = n.remote /\ m.resto = n.resto /\ m.st = "will_associate"
      /\ LET m == [n EXCEPT !.resto = FALSE]
         IN  m.remote = n.remote /\ ~m.resto
      /\ LET m == [n EXCEPT !.st = "associated", !.hb = TRUE, !.resto = FALSE]
         IN  m.remote = n.remote /\ ~m.resto
  BY DEF Node
<1>2. LET m == Settled(s, n)
      IN  m.remote = n.remote /\ (m.resto => n.resto) /\ Waits(m)
  BY <1>1 DEF Settled, Waits
<1>3. LET m == Associated(n)
      IN  m.remote = n.remote /\ (m.resto => n.resto) /\ (Waits(n) => Waits(m))
  BY <1>1 DEF Associated, Waits
<1>4. LET m == Dissociated(n)
      IN  m.remote = n.remote /\ (m.resto => n.resto) /\ (Waits(n) => Waits(m))
  BY <1>1 DEF Dissociated, Waits
<1>. QED
  BY <1>2, <1>3, <1>4

\* A step that changes neither the node of the UPF nor its sessions.
LEMMA SameCount ==
  ASSUME Counted, UNCHANGED <<recovery, upfSess, history>>,
         node'["upf"] = node["upf"]
  PROVE  Counted'
  BY DEF Counted, history, ToCome, Outdated, Due, Established, Waits

\* A transition of the UPF from n, in which no more is to come than before but
\* for a belated answer.
LEMMA UpfMoves ==
  ASSUME Inv, Counted, NEW n \in Node, NEW m \in Node, NEW rest,
         Move("upf", n, m, rest), recovery' = recovery, belated' \in Nat,
         m.remote = n.remote, m.resto => n.resto, Waits(m),
         ToCome(n) <= ToCome(node["upf"]) + (belated' - belated)
  PROVE  Counted'
<1>1. /\ removals' + ToCome(node["upf"])' = removals + ToCome(n)
      /\ \A q \in Seid : upfSess'[q] \in {0, upfSess[q]}
  BY MoveCount
<1>2. node'["upf"] = m
  BY DEF Move, Inv, TypeOK, Side
<1>3. Waits(node["upf"])'
  BY <1>2 DEF Waits
<1>4. removals + ToCome(n) <= 1 + belated'
  BY ToComeBound DEF Counted, Inv, TypeOK
<1>5. \A q \in Seid : upfSess'[q] <= recovery'["smf"]
  BY <1>1 DEF Counted, Inv, TypeOK, Side
<1>. QED
  BY <1>1, <1>3, <1>4, <1>5 DEF Counted

\* A transition of the SMF does not concern the UPF.
LEMMA SmfMoves ==
  ASSUME Inv, Counted, NEW n, NEW m, NEW rest, Move("smf", n, m, rest),
         UNCHANGED <<recovery, belated>>
  PROVE  Counted'
<1>1. UNCHANGED <<upfSess, history>> /\ node'["upf"] = node["upf"]
  BY DEF Move, Inv, TypeOK, Side, history
<1>. QED
  BY <1>1, SameCount

\* Heartbeats.
LEMMA HeartbeatCount ==
  ASSUME Inv, Counted, NEW x \in BagToSet(net), NEW s \in Side,
         heartbeat_request(s, x) \/ heartbeat_response(s, x)
  PROVE  Counted'
<1>1. /\ node["upf"] \in Node /\ recovery["smf"] \in Nat
      /\ belated \in Nat /\ belated' \in Nat /\ recovery' = recovery
      /\ "upf" \in Side /\ x.born \in Nat /\ x.ts \in Nat
      /\ x.born = recovery[x.from]
      /\ x.stage = "rsp" => x.ts <= recovery[Peer(x.from)]
  BY DEF Inv, TypeOK, Side, Xact, NetCurrent, Current, heartbeat_request,
     heartbeat_response
<1>2. CASE s = "smf"
  BY <1>1, <1>2, SmfMoves DEF heartbeat_request, heartbeat_response
<1>3. CASE s = "upf" /\ heartbeat_request(s, x)
  <2>. DEFINE n == Learned(node["upf"], x.born)
              m == Settled("upf", n)
  <2>1. x.born = recovery["smf"] /\ belated' = belated
    BY <1>1, <1>3 DEF heartbeat_request, Peer
  <2>2. Move("upf", n, m, Answered("upf", x))
    BY <1>3 DEF heartbeat_request
  <2>3. n \in Node /\ m \in Node
    BY <1>1, NodeTypes
  <2>4. ToCome(n) <= ToCome(node["upf"])
    <3>1. ~(x.born < recovery["smf"] /\ x.born # node["upf"].remote)
      BY <1>1, <2>1
    <3>2. Bit(x.born < recovery["smf"] /\ x.born # node["upf"].remote) = 0
      BY <3>1, Bits
    <3>3. x.born <= recovery["smf"]
      BY <1>1, <2>1
    <3>4. ToCome(n) <= ToCome(node["upf"])
            + Bit(x.born < recovery["smf"] /\ x.born # node["upf"].remote)
      BY <1>1, <3>3, LearnedCount
    <3>. QED
      BY <3>2, <3>4, ToComeBound
  <2>. HIDE DEF n
  <2>5. m.remote = n.remote /\ (m.resto => n.resto) /\ Waits(m)
    BY <1>1, <2>3, NodeCount
  <2>6. ToCome(n) <= ToCome(node["upf"]) + (belated' - belated)
    BY <1>1, <2>1, <2>4, ToComeBound
  <2>. HIDE DEF m
  <2>. QED
    BY <1>1, <2>2, <2>3, <2>5, <2>6, UpfMoves
<1>4. CASE s = "upf" /\ heartbeat_response(s, x)
  <2>. DEFINE k == Learned(node["upf"], x.ts)
              n == [k EXCEPT !.hb = TRUE]
              m == Settled("upf", n)
              late == x.ts < recovery["smf"] /\ x.ts # node["upf"].remote
  <2>1. x.ts <= recovery["smf"]
    BY <1>1, <1>4 DEF heartbeat_response, Peer
  <2>2. Move("upf", n, m, Done(x))
    BY <1>4 DEF heartbeat_response
  <2>3. belated' = belated + Bit(late)
    BY <1>1, <1>4 DEF heartbeat_response, Bit
  <2>4. k \in Node /\ n \in Node /\ m \in Node
    BY <1>1, NodeTypes
  <2>5. ToCome(k) <= ToCome(node["upf"]) + Bit(late)
    BY <1>1, <2>1, LearnedCount
  <2>. HIDE DEF k, late
  <2>6. n.remote = k.remote /\ n.resto = k.resto
    BY <2>4 DEF Node
  <2>. HIDE DEF n
  <2>7. ToCome(n) = ToCome(k)
    BY <2>6 DEF ToCome, Outdated, Due
  <2>8. m.remote = n.remote /\ (m.resto => n.resto) /\ Waits(m)
    BY <1>1, <2>4, NodeCount
  <2>9. ToCome(n) <= ToCome(node["upf"]) + (belated' - belated)
    BY <1>1, <2>3, <2>5, <2>7, ToComeBound, Bits
  <2>. HIDE DEF m
  <2>. QED
    BY <1>1, <2>2, <2>4, <2>8, <2>9, UpfMoves
<1>. QED
  BY <1>2, <1>3, <1>4 DEF Side

\* A node is moved by something that carries no time stamp.
LEMMA OtherMove ==
  ASSUME Inv, Counted, NEW s \in Side, NEW n \in Node, NEW rest,
         NEW m \in {Associated(n), Dissociated(n)}, Move(s, n, m, rest),
         UNCHANGED <<recovery, belated>>,
         s = "upf" => /\ n.remote = node["upf"].remote
                      /\ n.resto = node["upf"].resto
                      /\ Waits(n)
  PROVE  Counted'
<1>1. CASE s = "smf"
  BY <1>1, SmfMoves
<1>2. CASE s = "upf"
  <2>1. m \in Node
    <3>1. 0 \in Nat
      OBVIOUS
    <3>. QED
      BY <3>1, NodeTypes
  <2>2. m.remote = n.remote /\ (m.resto => n.resto) /\ Waits(m)
    BY <1>2, NodeCount
  <2>3. ToCome(n) = ToCome(node["upf"])
    BY <1>2 DEF ToCome, Outdated, Due
  <2>4. belated' \in Nat /\ belated' - belated = 0
    BY DEF Inv, TypeOK
  <2>5. ToCome(n) <= ToCome(node["upf"]) + (belated' - belated)
    BY <2>3, <2>4, ToComeBound
  <2>. QED
    BY <1>2, <2>1, <2>2, <2>4, <2>5, UpfMoves
<1>. QED
  BY <1>1, <1>2 DEF Side

\* Association setup, and heartbeats without an answer.
LEMMA AssociationCount ==
  ASSUME Inv, Counted, NEW x \in BagToSet(net),
         \/ \E s \in Side : \/ association_setup_request(s, x)
                            \/ association_setup_response(s, x)
         \/ node_timeout(x)
  PROVE  Counted'
<1>1. node \in [Side -> Node] /\ x.from \in Side
  BY DEF Inv, TypeOK, Xact
<1>2. ASSUME NEW s \in Side, association_setup_request(s, x)
      PROVE  Counted'
  <2>. DEFINE n == IF node[s].st = "unknown"
                   THEN [node[s] EXCEPT !.st = "will_associate"]
                   ELSE node[s]
  <2>1. /\ Move(s, n, Associated(n), Answered(s, x))
        /\ UNCHANGED <<recovery, belated>>
    BY <1>2 DEF association_setup_request
  <2>2. n \in Node /\ n.remote = node[s].remote /\ n.resto = node[s].resto
    BY <1>1, <1>2 DEF Node
  <2>3. s = "upf" => Waits(n)
    BY <1>1, <1>2 DEF Counted, Waits, Node
  <2>. HIDE DEF n
  <2>. QED
    BY <1>2, <2>1, <2>2, <2>3, OtherMove
<1>3. ASSUME NEW s \in Side, association_setup_response(s, x)
      PROVE  Counted'
  <2>1. s = "upf" => Waits(node[s])
    BY DEF Counted
  <2>2. node[s] \in Node
    BY <1>1, <1>3
  <2>. QED
    BY <1>3, <2>1, <2>2, OtherMove DEF association_setup_response
<1>4. CASE node_timeout(x)
  <2>1. CASE x.kind = "heartbeat"
    <3>1. /\ Move(x.from, node[x.from], Dissociated(node[x.from]), Done(x))
          /\ UNCHANGED <<recovery, belated>>
      BY <1>4, <2>1 DEF node_timeout
    <3>2. x.from = "upf" => Waits(node[x.from])
      BY DEF Counted
    <3>3. node[x.from] \in Node
      BY <1>1
    <3>. QED
      BY <1>1, <3>1, <3>2, <3>3, OtherMove
  <2>2. CASE x.kind # "heartbeat"
    <3>1. UNCHANGED <<recovery, node, upfSess, history>>
      BY <1>4, <2>2 DEF node_timeout, history
    <3>. QED
      BY <3>1, SameCount
  <2>. QED
    BY <2>1, <2>2
<1>. QED
  BY <1>2, <1>3, <1>4

\* A session comes up at the UPF only while no restoration is due.
LEMMA SessionCount ==
  ASSUME Inv, Counted, NEW x \in BagToSet(net), session_establishment_request(x)
  PROVE  Counted'
<1>1. /\ UNCHANGED <<recovery, node, history>>
      /\ x.born = recovery["smf"] /\ recovery["smf"] \in Nat
  BY DEF session_establishment_request, Inv, TypeOK, NetCurrent, Current, Side
<1>2. CASE node["upf"].st = "associated"
  <2>1. upfSess' = [upfSess EXCEPT ![x.seid] = x.born]
    BY <1>2 DEF session_establishment_request
  <2>2. \A q \in Seid : upfSess'[q] <= recovery'["smf"]
    BY <1>1, <2>1 DEF Counted, Inv, TypeOK
  <2>3. ~node["upf"].resto
    BY <1>2 DEF Counted, Waits
  <2>4. ToCome(node["upf"])' = ToCome(node["upf"])
    BY <1>1, <2>3 DEF ToCome, Outdated, Due
  <2>. QED
    BY <1>1, <2>2, <2>4 DEF Counted, Waits, history
<1>3. CASE node["upf"].st # "associated"
  <2>1. UNCHANGED upfSess
    BY <1>3 DEF session_establishment_request
  <2>. QED
    BY <1>1, <2>1, SameCount
<1>. QED
  BY <1>2, <1>3

\* A restart: the UPF has no session of the process that begins, or no node.
LEMMA RestartCount ==
  ASSUME Inv, Counted, NEW s \in Side, restart(s)
  PROVE  Counted'
<1>1. /\ recovery \in [Side -> Nat] /\ upfSess \in [Seid -> Nat]
      /\ node \in [Side -> Node] /\ removals \in Nat /\ belated \in Nat
      /\ Side = {"smf", "upf"}
  BY DEF Inv, TypeOK, Side
<1>2. CASE s = "smf"
  <2>1. /\ recovery'["smf"] = recovery["smf"] + 1 /\ upfSess' = upfSess
        /\ node'["upf"] = node["upf"] /\ removals' = 0 /\ belated' = 0
    BY <1>1, <1>2 DEF restart
  <2>2. \A q \in Seid : upfSess'[q] < recovery'["smf"]
    BY <1>1, <2>1 DEF Counted
  <2>3. ~Due(node["upf"])'
    BY <1>1, <2>1, <2>2 DEF Due, Established
  <2>4. Bit(Due(node["upf"])') = 0
    BY <2>3, Bits
  <2>5. ToCome(node["upf"])' \in 0 .. 1
    BY <2>4, Bits DEF ToCome
  <2>6. Waits(node["upf"])'
    BY <2>1 DEF Counted, Waits
  <2>7. \A q \in Seid : upfSess'[q] <= recovery'["smf"]
    BY <1>1, <2>1, <2>2
  <2>. QED
    BY <2>1, <2>5, <2>6, <2>7 DEF Counted
<1>3. CASE s = "upf"
  <2>1. /\ recovery'["smf"] = recovery["smf"] /\ upfSess' = NoSessions
        /\ node'["upf"] = StartNode("upf")
        /\ removals' = removals /\ belated' = belated
    BY <1>1, <1>3 DEF restart, history
  <2>2. node'["upf"].remote = 0 /\ ~node'["upf"].resto
    BY <2>1 DEF StartNode
  <2>3. ToCome(node["upf"])' = 0
    <3>1. ~Outdated(node["upf"])' /\ ~Due(node["upf"])'
      BY <2>2 DEF Outdated, Due
    <3>2. Bit(Outdated(node["upf"])') = 0 /\ Bit(Due(node["upf"])') = 0
      BY <3>1, Bits
    <3>. QED
      BY <3>2 DEF ToCome
  <2>4. removals <= 1 + belated
    BY <1>1, ToComeBound DEF Counted
  <2>5. \A q \in Seid : upfSess'[q] <= recovery'["smf"]
    BY <1>1, <2>1 DEF NoSessions
  <2>. QED
    BY <1>1, <2>1, <2>2, <2>3, <2>4, <2>5 DEF Counted, Waits
<1>. QED
  BY <1>1, <1>2, <1>3

\* Every step keeps the count.
LEMMA NextCount ==
  ASSUME Inv, Counted, [Next]_vars
  PROVE  Counted'
<1>1. CASE UNCHANGED vars
  BY <1>1, SameCount DEF vars
<1>2. ASSUME NEW x \in BagToSet(net),
             session_establishment_response(x) \/ lose(x) \/ retransmit(x)
      PROVE  Counted'
  BY <1>2, SameCount DEF session_establishment_response, lose, retransmit
<1>3. ASSUME NEW s \in Side, association_timer(s)
      PROVE  Counted'
  BY <1>3, SameCount DEF association_timer
<1>4. ASSUME NEW s \in Side, heartbeat_timer(s)
      PROVE  Counted'
  <2>1. /\ node'["upf"].remote = node["upf"].remote
        /\ node'["upf"].resto = node["upf"].resto
        /\ node'["upf"].st = node["upf"].st
    BY <1>4 DEF heartbeat_timer, Inv, TypeOK, Side, Node
  <2>2. UNCHANGED <<recovery, upfSess, history>>
    BY <1>4 DEF heartbeat_timer
  <2>. QED
    BY <2>1, <2>2
    DEF Counted, history, ToCome, Outdated, Due, Established, Waits
<1>5. ASSUME NEW q \in Seid, session_create(q)
      PROVE  Counted'
  BY <1>5, SameCount DEF session_create
<1>. QED
  BY <1>1, <1>2, <1>3, <1>4, <1>5, HeartbeatCount, AssociationCount,
     SessionCount, RestartCount DEF Next

\* The count begins with nothing removed and nothing to come.
LEMMA InitCount ==
  ASSUME Init
  PROVE  Counted
<1>1. /\ node["upf"] = StartNode("upf") /\ recovery["smf"] = 1
      /\ upfSess = NoSessions /\ removals = 0 /\ belated = 0
  BY DEF Init, Side
<1>2. node["upf"].remote = 0 /\ ~node["upf"].resto
  BY <1>1 DEF StartNode
<1>3. ToCome(node["upf"]) = 0
  <2>1. ~Outdated(node["upf"]) /\ ~Due(node["upf"])
    BY <1>2 DEF Outdated, Due
  <2>2. Bit(Outdated(node["upf"])) = 0 /\ Bit(Due(node["upf"])) = 0
    BY <2>1, Bits
  <2>. QED
    BY <2>2 DEF ToCome
<1>. QED
  BY <1>1, <1>2, <1>3 DEF Counted, Waits, NoSessions

\* However messages, time-outs and restarts interleave, the UPF removes
\* sessions of the SMF process that runs at most once, and once more for each
\* late heartbeat answer of an earlier process whose time stamp it puts for
\* another (ogs_pfcp_handle_heartbeat_response, pfcp_restoration).
THEOREM RemovalsBounded == Spec => []OneRemovalPerStart
<1>1. Init => Counted
  BY InitCount
<1>2. Inv /\ Counted /\ [Next]_vars => Counted'
  BY NextCount
<1>3. Inv /\ Counted => OneRemovalPerStart
  BY ToComeBound DEF Counted, OneRemovalPerStart, Inv, TypeOK
<1>. QED
  BY <1>1, <1>2, <1>3, Invariance, PTL DEF Spec
=============================================================================

------------------------------ MODULE PfcpXact ------------------------------
(***************************************************************************)
(* The PFCP transaction layer (lib/pfcp/xact.c) between an originator and  *)
(* a responder, over UDP: datagrams are lost, duplicated and reordered, and*)
(* take at most Delay time units.  Time is explicit, because the layer's   *)
(* guarantee rests on the relation between three timers: the response      *)
(* timer T1 that drives the retransmissions, the number N1 of              *)
(* transmissions, and the holding timer N1 * T1 for which the responder    *)
(* remembers a request so as to recognise its retransmissions.             *)
(*                                                                         *)
(* Every transaction here has two steps (request, response): no PFCP       *)
(* message type has the INTERMEDIATE stage.                                *)
(***************************************************************************)
EXTENDS Integers

CONSTANTS Xid,          \* transaction ids the originator uses (OGS_NEXT_ID)
          N1,           \* n1_response_rcount
          T1,           \* t1_response_duration
          H1,           \* n1_holding_rcount
          Delay,        \* the longest a datagram stays in the network
          LastStart     \* bound: no transaction is created after this time

ASSUME TimerAssumption == /\ N1 \in Nat \ {0}
                          /\ T1 \in Nat \ {0}
                          /\ H1 \in Nat \ {0}
                          /\ LastStart \in Nat

\* The environment the layer is designed for: a datagram arrives or is lost
\* before the next retransmission is due.
ASSUME DelayAssumption == Delay \in Nat /\ Delay < T1

VARIABLES
  now,            \* the clock
  net,            \* datagrams in flight
  local,          \* the originator's transaction for each xid
  rcount,         \* xact->response_rcount
  response_due,   \* expiry of xact->tm_response while local is "sent"
  remote,         \* the responder's transaction for each xid
  hcount,         \* xact->holding_rcount of the remote transaction
  holding_due,    \* expiry of xact->tm_holding of the remote transaction
  born,           \* history: when the local transaction was created
  handled         \* history: how often the request reached its handler

vars == <<now, net, local, rcount, response_due,
          remote, hcount, holding_due, born, handled>>
localVars  == <<local, rcount, response_due, born>>
remoteVars == <<remote, hcount, holding_due, handled>>

\* Mutant: the responder remembers a request for one response period only.
HoldingDuration_OnePeriod == T1

\* t1_holding_duration as ogs-config.c derives it.
HoldingDuration == N1 * T1

\* Bound on the clock: every transaction and its remote copy end before it.
Horizon == LastStart + HoldingDuration + Delay + H1 * HoldingDuration

Datagram == [type : {"request", "response"}, xid : Xid, sent : Nat]
Request(x)  == [type |-> "request",  xid |-> x, sent |-> now]
Response(x) == [type |-> "response", xid |-> x, sent |-> now]

\* The states of a local transaction.  free: not yet created.  sent: step 1,
\* the response timer runs.  answered: step 2, the response is with the user,
\* who has not committed.  done: committed.  dropped: deleted by a second copy
\* of the response before the user committed.  failed: given up.
LocalState  == {"free", "sent", "answered", "done", "dropped", "failed"}

\* none: no transaction.  step1: the request is with its handler, which has
\* not answered.  step2: the response is stored for retransmission.
RemoteState == {"none", "step1", "step2"}

Init ==
  /\ now = 0
  /\ net = {}
  /\ local = [x \in Xid |-> "free"]
  /\ rcount = [x \in Xid |-> N1]
  /\ response_due = [x \in Xid |-> 0]
  /\ remote = [x \in Xid |-> "none"]
  /\ hcount = [x \in Xid |-> H1]
  /\ holding_due = [x \in Xid |-> 0]
  /\ born = [x \in Xid |-> 0]
  /\ handled = [x \in Xid |-> 0]

-----------------------------------------------------------------------------
(* The originator. *)

\* local_create, update_tx (step 0 to 1) and commit: the response timer is
\* started and the request is sent.
xact_request(x) ==
  /\ local[x] = "free"
  /\ now <= LastStart
  /\ local' = [local EXCEPT ![x] = "sent"]
  /\ rcount' = [rcount EXCEPT ![x] = N1]
  /\ response_due' = [response_due EXCEPT ![x] = now + T1]
  /\ born' = [born EXCEPT ![x] = now]
  /\ net' = net \cup {Request(x)}
  /\ UNCHANGED <<now, remoteVars>>

\* Mutant: the retry count is reset instead of decremented.
response_timeout_NoGiveUp(x) ==
  /\ local[x] = "sent"
  /\ response_due[x] = now
  /\ response_due' = [response_due EXCEPT ![x] = now + T1]
  /\ net' = net \cup {Request(x)}
  /\ UNCHANGED <<now, local, rcount, born, remoteVars>>

\* Mutant: one retransmission too many.
response_timeout_OffByOne(x) ==
  /\ local[x] = "sent"
  /\ response_due[x] = now
  /\ rcount' = [rcount EXCEPT ![x] = @ - 1]
  /\ IF rcount[x] - 1 >= 0
     THEN /\ response_due' = [response_due EXCEPT ![x] = now + T1]
          /\ net' = net \cup {Request(x)}
          /\ UNCHANGED local
     ELSE /\ local' = [local EXCEPT ![x] = "failed"]
          /\ UNCHANGED <<response_due, net>>
  /\ UNCHANGED <<now, born, remoteVars>>

\* The response timer expires: retransmit, or give up, call the user's
\* callback and delete the transaction.
response_timeout(x) ==
  /\ local[x] = "sent"
  /\ response_due[x] = now
  /\ rcount' = [rcount EXCEPT ![x] = @ - 1]
  /\ IF rcount[x] - 1 > 0
     THEN /\ response_due' = [response_due EXCEPT ![x] = now + T1]
          /\ net' = net \cup {Request(x)}
          /\ UNCHANGED local
     ELSE /\ local' = [local EXCEPT ![x] = "failed"]
          /\ UNCHANGED <<response_due, net>>
  /\ UNCHANGED <<now, born, remoteVars>>

\* xact_receive of a response.  The first one stops the response timer and
\* goes to the user.  One that finds the transaction at step 2 is an error
\* that deletes it.  One that finds no transaction makes a remote one, which
\* update_rx refuses at once: nothing changes.
receive_response(x) ==
  /\ local' = [local EXCEPT ![x] = CASE @ = "sent"     -> "answered"
                                     [] @ = "answered" -> "dropped"
                                     [] OTHER          -> @]
  /\ UNCHANGED <<now, rcount, response_due, born, remoteVars>>

\* The user is done with the response: commit at step 2 deletes.
xact_commit(x) ==
  /\ local[x] = "answered"
  /\ local' = [local EXCEPT ![x] = "done"]
  /\ UNCHANGED <<now, net, rcount, response_due, born, remoteVars>>

-----------------------------------------------------------------------------
(* The responder. *)

\* Mutant: a retransmission is taken for a new request.
receive_new_request_NoLookup(x) ==
  /\ remote' = [remote EXCEPT ![x] = "step1"]
  /\ hcount' = [hcount EXCEPT ![x] = H1]
  /\ holding_due' = [holding_due EXCEPT ![x] = now + HoldingDuration]
  /\ handled' = [handled EXCEPT ![x] = @ + 1]
  /\ UNCHANGED <<now, localVars>>

\* xact_receive of a request nobody remembers: remote_create, update_rx
\* starts the holding timer, and the request goes to its handler.
receive_new_request(x) ==
  /\ remote[x] = "none"
  /\ remote' = [remote EXCEPT ![x] = "step1"]
  /\ hcount' = [hcount EXCEPT ![x] = H1]
  /\ holding_due' = [holding_due EXCEPT ![x] = now + HoldingDuration]
  /\ handled' = [handled EXCEPT ![x] = @ + 1]
  /\ UNCHANGED <<now, localVars>>

\* xact_receive of a retransmission (OGS_RETRY): with a stored response the
\* holding timer restarts and the response is sent again, otherwise the copy
\* is discarded.  The handler does not see it.
receive_duplicate_request(x, sendAgain) ==
  /\ remote[x] # "none"
  /\ sendAgain = (remote[x] = "step2")
  /\ holding_due' = IF sendAgain
                    THEN [holding_due EXCEPT ![x] = now + HoldingDuration]
                    ELSE holding_due
  /\ UNCHANGED <<now, localVars, remote, hcount, handled>>

\* The handler answers: update_tx (step 1 to 2) and commit.
xact_answer(x) ==
  /\ remote[x] = "step1"
  /\ remote' = [remote EXCEPT ![x] = "step2"]
  /\ net' = net \cup {Response(x)}
  /\ UNCHANGED <<now, localVars, hcount, holding_due, handled>>

\* Mutant: the holding timer is restarted without counting.
holding_timeout_NoCount(x) ==
  /\ remote[x] # "none"
  /\ holding_due[x] = now
  /\ holding_due' = [holding_due EXCEPT ![x] = now + HoldingDuration]
  /\ UNCHANGED <<now, net, localVars, remote, hcount, handled>>

\* The holding timer expires: run it again, or forget the transaction.
holding_timeout(x) ==
  /\ remote[x] # "none"
  /\ holding_due[x] = now
  /\ hcount' = [hcount EXCEPT ![x] = @ - 1]
  /\ IF hcount[x] - 1 > 0
     THEN /\ holding_due' = [holding_due EXCEPT ![x] = now + HoldingDuration]
          /\ UNCHANGED remote
     ELSE /\ remote' = [remote EXCEPT ![x] = "none"]
          /\ UNCHANGED holding_due
  /\ UNCHANGED <<now, net, localVars, handled>>

-----------------------------------------------------------------------------
(* The network and the clock. *)

\* What is left in flight once m is received: m may have been duplicated.
AfterReceipt(m, sentNow) == {net \cup sentNow, (net \ {m}) \cup sentNow}

Receive(m) ==
  \/ /\ m.type = "request"
     /\ receive_new_request(m.xid)
     /\ net' \in AfterReceipt(m, {})
  \/ /\ m.type = "request"
     /\ \E sendAgain \in BOOLEAN :
          /\ receive_duplicate_request(m.xid, sendAgain)
          /\ net' \in AfterReceipt(m, IF sendAgain THEN {Response(m.xid)}
                                                   ELSE {})
  \/ /\ m.type = "response"
     /\ receive_response(m.xid)
     /\ net' \in AfterReceipt(m, {})

Lose(m) == /\ net' = net \ {m}
           /\ UNCHANGED <<now, localVars, remoteVars>>

\* The clock advances when every expired timer has been served and no
\* datagram has used up its time in flight.
Tick ==
  /\ now < Horizon
  /\ \A x \in Xid : local[x] = "sent" => now < response_due[x]
  /\ \A x \in Xid : remote[x] # "none" => now < holding_due[x]
  /\ \A m \in net : now < m.sent + Delay
  /\ now' = now + 1
  /\ UNCHANGED <<net, localVars, remoteVars>>

Next == \/ \E x \in Xid : \/ xact_request(x)
                          \/ response_timeout(x)
                          \/ xact_commit(x)
                          \/ xact_answer(x)
                          \/ holding_timeout(x)
        \/ \E m \in net : Receive(m) \/ Lose(m)
        \/ Tick

Spec == Init /\ [][Next]_vars

\* The event loop serves expired timers, the clock advances, and the network
\* does not keep a datagram beyond Delay.  Nothing else is assumed: requests
\* need not be answered and users need not commit.
Expire == \E m \in net : m.sent + Delay = now /\ Lose(m)

FairSpec == /\ Spec
            /\ WF_vars(Tick)
            /\ WF_vars(Expire)
            /\ \A x \in Xid : WF_vars(response_timeout(x))
            /\ \A x \in Xid : WF_vars(holding_timeout(x))

-----------------------------------------------------------------------------
(* Properties. *)

\* The kinds of value each variable holds (struct ogs_pfcp_xact_s, and the
\* two counters, which response_timeout and holding_timeout decrement to 0
\* and never below).
TypeOK ==
  /\ now \in Nat
  /\ net \subseteq Datagram
  /\ local \in [Xid -> LocalState]
  /\ rcount \in [Xid -> 0 .. N1]
  /\ response_due \in [Xid -> Nat]
  /\ remote \in [Xid -> RemoteState]
  /\ hcount \in [Xid -> 0 .. H1]
  /\ holding_due \in [Xid -> Nat]
  /\ born \in [Xid -> Nat]
  /\ handled \in [Xid -> Nat]

\* However the datagrams of a request are retransmitted, duplicated, delayed
\* and reordered, its handler at the responder runs at most once: the holding
\* time covers every copy the originator can still send.
AtMostOnce == \A x \in Xid : handled[x] <= 1

\* When the originator gives a transaction up at the latest.
Deadline(x) == born[x] + N1 * T1

\* A datagram is no older than Delay, and a request is always sent a full
\* response period before its originator gives up.
InFlight(m) ==
  /\ m.sent <= now
  /\ now <= m.sent + Delay
  /\ local[m.xid] # "free"
  /\ m.type = "request"  => m.sent + T1 <= Deadline(m.xid)
  /\ m.type = "response" => handled[m.xid] = 1

\* The originator's timer and counter together measure the time to the
\* deadline.
Originator(x) ==
  /\ born[x] <= now
  /\ local[x] = "free" => remote[x] = "none" /\ handled[x] = 0
  /\ local[x] = "sent" => /\ rcount[x] >= 1
                          /\ response_due[x] + (rcount[x] - 1) * T1 = Deadline(x)
  /\ local[x] \in {"answered", "done", "dropped"} => handled[x] = 1
  /\ local[x] = "failed" => now >= Deadline(x)

\* The responder remembers a request it has handled until the deadline.
Responder(x) ==
  /\ handled[x] \in {0, 1}
  /\ remote[x] # "none" => /\ handled[x] = 1
                           /\ hcount[x] >= 1
                           /\ holding_due[x] >= Deadline(x)
  /\ remote[x] = "none" /\ handled[x] = 1 => now >= Deadline(x)

\* The inductive invariant behind AtMostOnce and ImplementsCall.
Inv == /\ TypeOK
       /\ \A m \in net : InFlight(m)
       /\ \A x \in Xid : Originator(x) /\ Responder(x)

\* What the originator's user knows of its call.
callOf == [x \in Xid |-> CASE local[x] = "free"   -> "idle"
                            [] local[x] = "sent"   -> "pending"
                            [] local[x] = "failed" -> "failed"
                            [] OTHER               -> "ok"]

Call == INSTANCE PfcpCall WITH call <- callOf, exec <- handled

\* The layer implements the at-most-once call: a response implies one
\* execution, and after response_timeout gave up no execution can follow.
ImplementsCall == Call!Spec

\* Every request ends in a response or in response_timeout's give-up.
RequestEnds == \A x \in Xid : local[x] = "sent" ~> local[x] # "sent"

\* The responder forgets every request in the end (holding_timeout), however
\* often receive_duplicate_request restarts the holding timer: remote
\* transactions do not pile up in the pool.
RequestForgotten == \A x \in Xid : remote[x] # "none" ~> remote[x] = "none"
=============================================================================

--------------------------- MODULE N4Association ---------------------------
(***************************************************************************)
(* The PFCP association between an SMF and a UPF: who associates with      *)
(* whom, heartbeats, and what either does when the recovery time stamp of  *)
(* the other tells that it was restarted - the SMF establishes its         *)
(* sessions again, the UPF removes those it holds.  The state machines     *)
(* smf_pfcp_state_* and upf_pfcp_state_* differ only in the restoration    *)
(* and in the session messages, and are described once for both sides.     *)
(*                                                                         *)
(* A request is a call in the sense of PfcpCall: executed at most once by  *)
(* a process of the peer.  The transactions under way are a bag.           *)
(***************************************************************************)
EXTENDS Naturals, Bags

CONSTANTS Seid,          \* the SMF's session ids
          NoSeid,        \* what a message of the node has instead
          Configuration, \* which sides may be configured to associate
          MaxFault       \* bound: restarts and lost transactions

ASSUME N4Assumption == /\ NoSeid \notin Seid
                       /\ Configuration \subseteq SUBSET {"smf", "upf"}
                       /\ {} \notin Configuration
                       /\ MaxFault \in Nat

VARIABLES
  initiator,   \* the sides that have t_association for their peer
  recovery,    \* local_recovery of the process that runs on each side
  node,        \* ogs_pfcp_node_t of the peer, on each side
  smfSess,     \* the sessions of the SMF
  upfSess,     \* the SMF process each session of the UPF is from, 0 for none
  net,         \* the transactions under way
  faults,      \* how many restarts and losses there were
  removals,    \* history: restorations of the UPF that removed sessions of the
               \* SMF process that runs, since its start
  belated      \* history: heartbeat answers since then with which the UPF has
               \* put the time stamp of an earlier SMF process for another

history == <<removals, belated>>
vars == <<initiator, recovery, node, smfSess, upfSess, net, faults, history>>

Side == {"smf", "upf"}
Peer(s) == IF s = "smf" THEN "upf" ELSE "smf"

\* st is the state of the node's state machine, or unknown before the node
\* exists; hb: t_no_heartbeat runs.
Node == [st : {"unknown", "will_associate", "associated"},
         remote : Nat, resto : BOOLEAN, hb : BOOLEAN]

\* A transaction of the process born of side from.  req: the peer has yet to
\* execute it.  taken: executed, without an answer.  rsp: answered by the
\* process ts.  lost: nothing more of it will arrive.
Kind == {"setup", "heartbeat", "establish"}
Xact == [from : Side, born : Nat, kind : Kind,
         seid : Seid \cup {NoSeid},
         stage : {"req", "taken", "rsp", "lost"}, ts : Nat]

Request(s, k, q) == [from |-> s, born |-> recovery[s], kind |-> k, seid |-> q,
                     stage |-> "req", ts |-> 0]
Pending(s, k) == {x \in BagToSet(net) : x.from = s /\ x.kind = k}

\* net without one x; and with one x turned into y.
Done(x) == net (-) SetToBag({x})
Turned(x, y) == Done(x) (+) SetToBag({y})

\* Mutant: the state machine is not started.
StartNode_Initial(s) ==
  [st |-> "initial", remote |-> 0, resto |-> FALSE, hb |-> FALSE]

\* pfcp_node_fsm_init for a configured peer; a peer that is not is unknown.
StartNode(s) ==
  [st |-> IF s \in initiator THEN "will_associate" ELSE "unknown",
   remote |-> 0, resto |-> FALSE, hb |-> FALSE]

NoSessions == [q \in Seid |-> 0]

Init ==
  /\ initiator \in Configuration
  /\ recovery = [s \in Side |-> 1]
  /\ node = [s \in Side |-> StartNode(s)]
  /\ smfSess = [q \in Seid |-> "none"]
  /\ upfSess = NoSessions
  /\ net = SetToBag({Request(s, "setup", NoSeid) : s \in initiator})
  /\ faults = 0
  /\ removals = 0 /\ belated = 0

-----------------------------------------------------------------------------
(* The state machine of a node. *)

\* Mutant: a time stamp that was seen before means a restart, too.
Learned_Inclusive(n, ts) ==
  [n EXCEPT !.resto = @ \/ (n.remote # 0 /\ n.remote <= ts), !.remote = ts]

\* The recovery time stamp of a heartbeat is compared with the last one, and
\* kept, whatever came of the comparison.
Learned(n, ts) == [n EXCEPT !.resto = @ \/ (n.remote # 0 /\ n.remote < ts),
                            !.remote = ts]

\* The state associated looks whether the heartbeat called for a restoration:
\* a side that associates does so again first, the other restores at once.
Settled(s, n) ==
  IF n.st # "associated" \/ ~n.resto THEN n
  ELSE IF s \in initiator THEN [n EXCEPT !.st = "will_associate", !.hb = FALSE]
       ELSE [n EXCEPT !.resto = FALSE]

\* Mutant: a restoration that is due stays due.
Associated_Due(n) == IF n.st = "associated" THEN n
                     ELSE [n EXCEPT !.st = "associated", !.hb = TRUE]

\* Into associated, by an association setup request or its response.  The
\* ENTRY signal does the restoration that is due.
Associated(n) == IF n.st = "associated" THEN n
                 ELSE [n EXCEPT !.st = "associated", !.hb = TRUE,
                                !.resto = FALSE]

\* SMF_EVT_N4_NO_HEARTBEAT is of no interest to a node that will associate;
\* reselect_upf has no other UPF to go to.
Dissociated(n) == IF n.st # "associated" THEN n
                  ELSE [n EXCEPT !.st = "will_associate", !.hb = FALSE]

\* What the ENTRY signal of a new state sends.
Entered(s, n, m) ==
  IF m.st = n.st THEN {}
  ELSE IF m.st = "associated" THEN {Request(s, "heartbeat", NoSeid)}
  ELSE IF s \in initiator THEN {Request(s, "setup", NoSeid)}
  ELSE {}

\* Mutant: sessions that are up are taken to be so.
Restored_Wait(s) ==
  IF s = "upf" THEN {}
  ELSE {Request("smf", "establish", q) :
          q \in {p \in Seid : smfSess[p] = "wait"}}

\* pfcp_restoration of the SMF: every session is established again.
Restored(s) ==
  IF s = "upf" THEN {}
  ELSE {Request("smf", "establish", q) :
          q \in {p \in Seid : smfSess[p] # "none"}}

\* The UPF has a session of the SMF process that runs.
Established == \E q \in Seid : upfSess[q] = recovery["smf"]

\* Mutant: the sessions of the node are not removed.
Move_KeepSessions(s, n, m, rest) ==
  /\ node' = [node EXCEPT ![s] = m]
  /\ net' = rest (+) SetToBag(Entered(s, n, m) \cup
                              IF n.resto /\ ~m.resto THEN Restored(s) ELSE {})
  /\ UNCHANGED <<upfSess, removals>>

\* The node of side s goes from n to m, with everything the transition does;
\* rest is the other transactions.  pfcp_restoration of the UPF removes all
\* sessions of the node.
Move(s, n, m, rest) ==
  LET restores == n.resto /\ ~m.resto
  IN  /\ node' = [node EXCEPT ![s] = m]
      /\ net' = rest (+) SetToBag(Entered(s, n, m) \cup
                                  IF restores THEN Restored(s) ELSE {})
      /\ IF s = "upf" /\ restores
         THEN /\ upfSess' = NoSessions
              /\ removals' = IF Established THEN removals + 1 ELSE removals
         ELSE UNCHANGED <<upfSess, removals>>

-----------------------------------------------------------------------------
(* Messages. *)

\* A node that is not known is created by an association setup request only;
\* other messages from it are dropped.
Known(s, x) == node[s].st # "unknown" \/ x.kind = "setup"

\* x has been executed by s, with or without an answer.
Executed(s, x, stage) ==
  Turned(x, [x EXCEPT !.stage = stage, !.ts = recovery[s]])
Answered(s, x) == Executed(s, x, "rsp")

heartbeat_request(s, x) ==
  /\ x.from = Peer(s) /\ x.kind = "heartbeat" /\ x.stage = "req"
  /\ Known(s, x)
  /\ LET n == Learned(node[s], x.born)
     IN  Move(s, n, Settled(s, n), Answered(s, x))
  /\ UNCHANGED <<initiator, recovery, smfSess, faults, belated>>

heartbeat_response(s, x) ==
  /\ x.from = s /\ x.kind = "heartbeat" /\ x.stage = "rsp"
  /\ LET n == [Learned(node[s], x.ts) EXCEPT !.hb = TRUE]
     IN  Move(s, n, Settled(s, n), Done(x))
  /\ belated' = IF /\ s = "upf" /\ x.ts < recovery["smf"]
                   /\ x.ts # node["upf"].remote
                THEN belated + 1 ELSE belated
  /\ UNCHANGED <<initiator, recovery, smfSess, faults>>

association_setup_request(s, x) ==
  /\ x.from = Peer(s) /\ x.kind = "setup" /\ x.stage = "req"
  /\ LET n == IF node[s].st = "unknown"
              THEN [node[s] EXCEPT !.st = "will_associate"]
              ELSE node[s]
     IN  Move(s, n, Associated(n), Answered(s, x))
  /\ UNCHANGED <<initiator, recovery, smfSess, faults, belated>>

association_setup_response(s, x) ==
  /\ x.from = s /\ x.kind = "setup" /\ x.stage = "rsp"
  /\ Move(s, node[s], Associated(node[s]), Done(x))
  /\ UNCHANGED <<initiator, recovery, smfSess, faults, belated>>

\* upf_sess_add_by_message: the session with this F-SEID, or a new one.  A UPF
\* that will associate takes the request and does not answer it.
session_establishment_request(x) ==
  /\ x.from = "smf" /\ x.kind = "establish" /\ x.stage = "req"
  /\ Known("upf", x)
  /\ IF node["upf"].st = "associated"
     THEN /\ upfSess' = [upfSess EXCEPT ![x.seid] = x.born]
          /\ net' = Answered("upf", x)
     ELSE /\ net' = Executed("upf", x, "taken")
          /\ UNCHANGED upfSess
  /\ UNCHANGED <<initiator, recovery, node, smfSess, faults, history>>

\* An SMF that will associate drops the response, and the transaction, whose
\* timer is stopped, is never heard of again.
session_establishment_response(x) ==
  /\ x.from = "smf" /\ x.kind = "establish" /\ x.stage = "rsp"
  /\ net' = Done(x)
  /\ smfSess' = IF node["smf"].st = "associated" /\ smfSess[x.seid] # "none"
                THEN [smfSess EXCEPT ![x.seid] = "up"]
                ELSE smfSess
  /\ UNCHANGED <<initiator, recovery, node, upfSess, faults, history>>

-----------------------------------------------------------------------------
(* Timers, sessions and faults. *)

\* t_association, whose period is longer than a transaction lasts.
association_timer(s) ==
  /\ s \in initiator /\ node[s].st = "will_associate"
  /\ Pending(s, "setup") = {}
  /\ net' = net (+) SetToBag({Request(s, "setup", NoSeid)})
  /\ UNCHANGED <<initiator, recovery, node, smfSess, upfSess, faults, history>>

\* t_no_heartbeat, which lasts longer than a transaction, too: the next
\* heartbeat, unless the node will associate.
heartbeat_timer(s) ==
  /\ node[s].hb
  /\ Pending(s, "heartbeat") = {}
  /\ node' = [node EXCEPT ![s].hb = FALSE]
  /\ net' = IF node[s].st = "associated"
            THEN net (+) SetToBag({Request(s, "heartbeat", NoSeid)})
            ELSE net
  /\ UNCHANGED <<initiator, recovery, smfSess, upfSess, faults, history>>

\* The PFCP transaction layer gives up: node_timeout and sess_5gc_timeout.
node_timeout(x) ==
  /\ \/ x.stage \in {"lost", "taken"}
     \/ x.stage = "req" /\ ~Known(Peer(x.from), x)
  /\ IF x.kind = "heartbeat"
     THEN Move(x.from, node[x.from], Dissociated(node[x.from]), Done(x))
     ELSE net' = Done(x) /\ UNCHANGED <<node, upfSess, removals>>
  /\ smfSess' = IF x.kind = "establish"
                THEN [smfSess EXCEPT ![x.seid] = "none"]
                ELSE smfSess
  /\ UNCHANGED <<initiator, recovery, faults, belated>>

\* A new session, for which the SMF selects the UPF only if it is associated.
session_create(q) ==
  /\ node["smf"].st = "associated"
  /\ smfSess[q] = "none"
  /\ smfSess' = [smfSess EXCEPT ![q] = "wait"]
  /\ net' = net (+) SetToBag({Request("smf", "establish", q)})
  /\ UNCHANGED <<initiator, recovery, node, upfSess, faults, history>>

\* The network loses all that is left of a transaction.
lose(x) ==
  /\ faults < MaxFault
  /\ x.stage \in {"req", "rsp"}
  /\ net' = Turned(x, [x EXCEPT !.stage = "lost"])
  /\ faults' = faults + 1
  /\ UNCHANGED <<initiator, recovery, node, smfSess, upfSess, history>>

\* The process that has executed x is gone and x comes again.
retransmit(x) ==
  /\ x.stage \in {"rsp", "taken"} /\ x.ts # recovery[Peer(x.from)]
  /\ net' = Turned(x, [x EXCEPT !.stage = "req", !.ts = 0])
  /\ UNCHANGED <<initiator, recovery, node, smfSess, upfSess, faults, history>>

\* The process of s is replaced, and with it go its transactions.  An answer it
\* has sent may still arrive; a request that has not arrived by then is taken
\* to be lost.
restart(s) ==
  /\ faults < MaxFault
  /\ faults' = faults + 1
  /\ recovery' = [recovery EXCEPT ![s] = @ + 1]
  /\ node' = [node EXCEPT ![s] = StartNode(s)]
  /\ LET left == {x \in BagToSet(net) : x.from = Peer(s)}
         setup == [Request(s, "setup", NoSeid) EXCEPT !.born = @ + 1]
     IN  net' = [x \in left |-> net[x]] (+)
                SetToBag(IF s \in initiator THEN {setup} ELSE {})
  /\ smfSess' = IF s = "smf" THEN [q \in Seid |-> "none"] ELSE smfSess
  /\ upfSess' = IF s = "upf" THEN NoSessions ELSE upfSess
  /\ IF s = "smf" THEN removals' = 0 /\ belated' = 0 ELSE UNCHANGED history
  /\ UNCHANGED initiator

Next ==
  \/ \E x \in BagToSet(net) :
       \/ \E s \in Side : \/ heartbeat_request(s, x)
                          \/ heartbeat_response(s, x)
                          \/ association_setup_request(s, x)
                          \/ association_setup_response(s, x)
       \/ session_establishment_request(x)
       \/ session_establishment_response(x)
       \/ node_timeout(x) \/ lose(x) \/ retransmit(x)
  \/ \E s \in Side : association_timer(s) \/ heartbeat_timer(s) \/ restart(s)
  \/ \E q \in Seid : session_create(q)

Spec == Init /\ [][Next]_vars

\* A transaction that is not lost is executed and answered, one that nothing
\* more will come of times out, and the timers expire.
execute(s, k) == \E x \in BagToSet(net) :
                   /\ x.from = s /\ x.kind = k
                   /\ \/ heartbeat_request(Peer(s), x)
                      \/ association_setup_request(Peer(s), x)
                      \/ session_establishment_request(x)
answer(s, k) == \E x \in BagToSet(net) :
                  /\ x.from = s /\ x.kind = k
                  /\ \/ heartbeat_response(s, x)
                     \/ association_setup_response(s, x)
                     \/ session_establishment_response(x)
timeout(s, k) == \E x \in BagToSet(net) :
                   x.from = s /\ x.kind = k /\ node_timeout(x)

FairSpec ==
  /\ Spec
  /\ \A s \in Side :
       /\ \A k \in Kind : /\ WF_vars(execute(s, k))
                          /\ WF_vars(answer(s, k))
                          /\ WF_vars(timeout(s, k))
       /\ WF_vars(association_timer(s))
       /\ WF_vars(heartbeat_timer(s))

-----------------------------------------------------------------------------
(* Properties. *)

\* The kinds of value of the variables: a node rests in no other state of its
\* machine, and a bag holds transactions only.
TypeOK == /\ initiator \in Configuration
          /\ recovery \in [Side -> Nat]
          /\ node \in [Side -> Node]
          /\ smfSess \in [Seid -> {"none", "wait", "up"}]
          /\ upfSess \in [Seid -> Nat]
          /\ IsABag(net) /\ BagToSet(net) \subseteq Xact
          /\ faults \in 0 .. MaxFault
          /\ removals \in Nat /\ belated \in Nat

\* When the faults are over, a side that is configured to associate is
\* associated, and stays so.
StaysAssociated ==
  <>[](\A s \in initiator : node[s].st = "associated")

\* A side that does not associate itself got no answer to its heartbeat: it is
\* back in will_associate, waiting for a setup request that its peer, whose
\* own heartbeats it still answers, has no reason to send.
HalfOpen == \E s \in Side \ initiator : node[s].st = "will_associate"

\* Sessions of an SMF process whose time stamp the UPF knows do not outlive it
\* for long: the next process is recognised and they are removed.
StaleSessionsRemoved ==
  \A q \in Seid, p \in 1 .. MaxFault :
    upfSess[q] = p /\ node["upf"].remote = p /\ recovery["smf"] > p
      ~> upfSess[q] # p \/ HalfOpen

\* A session is established again in a restarted UPF if the SMF knew the time
\* stamp of the UPF before, or the SMF gives it up.
SessionsRestored ==
  \A q \in Seid :
    (/\ smfSess[q] = "up"
     /\ node["smf"].remote # 0 /\ node["smf"].remote < recovery["upf"])
      ~> upfSess[q] = recovery["smf"] \/ smfSess[q] # "up" \/ HalfOpen

\* The UPF removes sessions of the SMF process that runs at most once, when it
\* learns of its start, and once more for each heartbeat answer of an earlier
\* process that arrives late: such an answer is called invalid and its time
\* stamp is kept all the same, so that the next heartbeat looks like another
\* restart (ogs_pfcp_handle_heartbeat_response, upf_pfcp_state_associated).
OneRemovalPerStart == removals <= 1 + belated

\* A restoration removes the sessions of the process before the restart, and
\* none that the restarted SMF has established already.
RestorationKeepsNew ==
  [][\A q \in Seid : upfSess[q] = recovery["smf"] /\ recovery' = recovery
                       => upfSess'[q] = upfSess[q]]_vars
=============================================================================

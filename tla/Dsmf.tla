-------------------------------- MODULE Dsmf --------------------------------
(***************************************************************************)
(* The DSMF (src/dsmf): sessions created by the DMF's gnb-sync requests,   *)
(* the session state machine, its establishment and deletion timers, the   *)
(* event queue between callbacks and state machine, and the local PFCP     *)
(* transactions.                                                           *)
(*                                                                         *)
(* One thread runs everything: poll callbacks (gnb-sync, PFCP datagrams),  *)
(* then expired timers, then the queue.  Callbacks and timers only push    *)
(* events; ordering between a response and a timer is decided in the queue.*)
(*                                                                         *)
(* ogs_assert aborts the process: the variable dsmf becomes "aborted".     *)
(***************************************************************************)
EXTENDS Dn4Channel

CONSTANTS PoolSize,     \* ogs_app()->pool.sess
          SessApi,      \* whether dsmf_sess_modify / _delete are called:
                        \* nothing in the repository calls them
          WaitBeforeRestart \* whether a new process starts only after DF has
                            \* forgotten the transactions of the old one

ASSUME DsmfAssumption == /\ PoolSize \in Nat
                         /\ SessApi \in BOOLEAN
                         /\ WaitBeforeRestart \in BOOLEAN

VARIABLES
  dsmf,       \* "up" or "aborted"
  inc,        \* which DSMF process this is
  seidTaken,  \* nodes taken from dsmf_dn4_seid_pool
  sess,       \* sess_list; a session's id is its position
  nextXid,    \* g_xact_id
  local,      \* node->local_list: the local transaction of each xid
  queue       \* ogs_app()->queue

dsmfVars == <<dsmf, inc, seidTaken, sess, nextXid, local, queue>>

\* The states a session rests in: initial and wait_ran_sync are left within
\* the call that creates it.
SessState == {"wait_pfcp_establishment", "operational",
              "wait_pfcp_deletion", "exception"}

Session == [key : Key, ran : RanInfo, seid : SeidValue, state : SessState,
            timer : BOOLEAN]

\* phase: free (not created), sent, answered (response received, transaction
\* not committed), gone (deleted).  seid: xact->local_seid.
Local == [phase : {"free", "sent", "answered", "gone"},
          seid : SeidValue \cup {0}]

\* An event: a PFCP response with its transaction, or an expired timer; sid
\* is e->sess_id, 0 (OGS_INVALID_POOL_ID) when no session was found.
Event == [type : {"SEResp", "t_establishment", "t_deletion"},
          sid : Nat, xid : Nat]

\* The kinds of value of the DSMF variables.
DsmfTypeOK ==
  /\ dsmf \in {"up", "aborted"}
  /\ inc \in 1 .. MaxInc
  /\ seidTaken \in 0 .. PoolSize
  /\ sess \in Seq(Session)
  /\ nextXid \in 1 .. MaxXid + 1
  /\ local \in [Xid -> Local]
  /\ queue \in Seq(Event)

NoXact == [phase |-> "free", seid |-> 0]

DsmfInit ==
  /\ dsmf = "up"
  /\ inc = 1
  /\ seidTaken = 0
  /\ sess = <<>>
  /\ nextXid = 1
  /\ local = [x \in Xid |-> NoXact]
  /\ queue = <<>>

-----------------------------------------------------------------------------
(* Sessions. *)

KeyExists(k) == \E i \in DOMAIN sess : sess[i].key = k

\* Mutant: the newest session is taken for the one the response is for.
SessBySeid_Newest(s) == Len(sess)

\* dsmf_sess_find_by_dsmf_dn4_seid: ogs_hash_set replaces the value of an
\* equal key, so the last session created with that SEID is found.
SessBySeid(s) ==
  LET ids == {i \in DOMAIN sess : sess[i].seid = s}
  IN  IF ids = {} THEN 0 ELSE CHOOSE i \in ids : \A j \in ids : j <= i

\* dsmf_dn4_handle_session_establishment: a transaction is created for the
\* new session; without a RAN address the request cannot be built and the
\* transaction is deleted again.
SendEstablishment(r, seid) ==
  /\ nextXid \in Xid
  /\ nextXid' = nextXid + 1
  /\ IF r.addr = NoAddr
     THEN /\ local' = [local EXCEPT ![nextXid] =
                          [phase |-> "gone", seid |-> seid]]
          /\ UNCHANGED req
     ELSE /\ local' = [local EXCEPT ![nextXid] =
                          [phase |-> "sent", seid |-> seid]]
          /\ req' = req \cup {[inc |-> inc, xid |-> nextXid, type |-> "SEReq",
                               seid |-> seid, ran |-> r]}

\* Mutant: the establishment timer is not started.
CreateSession_NoTimer(k, r) ==
  /\ seidTaken + 2 <= PoolSize
  /\ seidTaken' = seidTaken + 2
  /\ \E seid \in SeidValue :
       /\ sess' = Append(sess, [key |-> k, ran |-> r, seid |-> seid,
                                state |-> "wait_pfcp_establishment",
                                timer |-> FALSE])
       /\ SendEstablishment(r, seid)
  /\ UNCHANGED <<dsmf, inc, queue, held>>

\* dsmf_sess_add_by_ran_sync, no session found: two SEID nodes are taken, the
\* second one (never initialised) names the session.  The session passes
\* through wait_ran_sync into wait_pfcp_establishment within the call.
CreateSession(k, r) ==
  /\ seidTaken + 2 <= PoolSize
  /\ seidTaken' = seidTaken + 2
  /\ \E seid \in SeidValue :
       /\ sess' = Append(sess, [key |-> k, ran |-> r, seid |-> seid,
                                state |-> "wait_pfcp_establishment",
                                timer |-> TRUE])
       /\ SendEstablishment(r, seid)
  /\ UNCHANGED <<dsmf, inc, queue, held>>

\* ogs_assert on an empty SEID pool.
SeidPoolAbort ==
  /\ seidTaken + 2 > PoolSize
  /\ dsmf' = "aborted"
  /\ UNCHANGED <<inc, seidTaken, sess, nextXid, local, queue, channelVars>>

\* dsmf_sbi_handle_gnb_sync_request with all parameters present.  The key of
\* gnb_session_hash is a stack buffer that is gone by the next lookup: an
\* existing session is found or missed.  A found session ignores the RAN_SYNC
\* event in every state it can rest in.
gnb_sync(k, r) ==
  /\ dsmf = "up"
  /\ \/ /\ KeyExists(k)
        /\ UNCHANGED <<dsmf, inc, seidTaken, sess, nextXid, local, queue,
                       channelVars>>
     \/ CreateSession(k, r)
     \/ SeidPoolAbort

-----------------------------------------------------------------------------
(* Transactions: what pfcp_recv_cb and the transaction layer do. *)

MyRequests(x) == {m \in req : m.inc = inc /\ m.xid = x}

\* A response reaches a waiting transaction: the session is looked up by the
\* transaction's SEID now, the event is handled later.  SEID 0 is taken for
\* "no SEID" and finds no session.
recv_response(x) ==
  /\ dsmf = "up"
  /\ HasResponse(x)
  /\ local[x].phase = "sent"
  /\ local' = [local EXCEPT ![x].phase = "answered"]
  /\ req' = req \ MyRequests(x)
  /\ queue' = Append(queue, [type |-> "SEResp", xid |-> x,
                             sid |-> IF local[x].seid = 0 THEN 0
                                     ELSE SessBySeid(local[x].seid)])
  /\ UNCHANGED <<dsmf, inc, seidTaken, sess, nextXid, held>>

\* A further copy of the response: an error that deletes the transaction.
recv_duplicate_response(x) ==
  /\ dsmf = "up"
  /\ HasResponse(x)
  /\ local[x].phase = "answered"
  /\ local' = [local EXCEPT ![x].phase = "gone"]
  /\ UNCHANGED <<dsmf, inc, seidTaken, sess, nextXid, queue, channelVars>>

\* response_timeout gives up: session_timeout only logs.
give_up(x) ==
  /\ dsmf = "up"
  /\ local[x].phase = "sent"
  /\ local' = [local EXCEPT ![x].phase = "gone"]
  /\ req' = req \ MyRequests(x)
  /\ UNCHANGED <<dsmf, inc, seidTaken, sess, nextXid, queue, held>>

-----------------------------------------------------------------------------
(* The session state machine. *)

\* The establishment or deletion timer of session i expires.
session_timer(i) ==
  /\ dsmf = "up"
  /\ i \in DOMAIN sess
  /\ sess[i].timer
  /\ sess' = [sess EXCEPT ![i].timer = FALSE]
  /\ queue' = Append(queue,
       [type |-> IF sess[i].state = "wait_pfcp_deletion"
                 THEN "t_deletion" ELSE "t_establishment",
        sid |-> i, xid |-> 0])
  /\ UNCHANGED <<dsmf, inc, seidTaken, nextXid, local, channelVars>>

\* A state change; leaving wait_pfcp_establishment deletes its timer.
Transition(i, state) ==
  sess' = [sess EXCEPT ![i].state = state, ![i].timer = FALSE]

\* Removing a session from inside its own state machine: the EXIT handler of
\* the state looks the session up again and asserts that it exists.
RemoveAborts == dsmf' = "aborted"

\* wait_pfcp_establishment, on the response (whatever its cause).
establishment_answered(i) ==
  /\ Transition(i, "operational")
  /\ UNCHANGED <<dsmf, local>>

\* Mutant: the timeout is taken for a success.
establishment_timeout_Operational(i) ==
  /\ Transition(i, "operational")
  /\ UNCHANGED <<dsmf, local>>

\* Mutant: the session waits for another report, which will not find it.
establishment_timeout_WaitAgain(i) ==
  /\ Transition(i, "wait_ran_sync")
  /\ UNCHANGED <<dsmf, local>>

\* wait_pfcp_establishment, on its timer.
establishment_timeout(i) ==
  /\ Transition(i, "exception")
  /\ UNCHANGED <<dsmf, local>>

\* operational: dsmf_dn4_handle_message commits the transaction if it is
\* still there.
operational_message(x) ==
  /\ local' = IF local[x].phase = "answered"
              THEN [local EXCEPT ![x].phase = "gone"]
              ELSE local
  /\ UNCHANGED <<dsmf, sess>>

\* wait_pfcp_deletion, on its timer.
deletion_timeout == RemoveAborts /\ UNCHANGED <<sess, local>>

\* dsmf_state_operational hands the event to its session, whose state handler
\* reacts to these pairs of state and event and ignores every other.
Dispatch(e) ==
  LET known == e.sid \in DOMAIN sess
      state == IF known THEN sess[e.sid].state ELSE "none"
  IN  \/ /\ state = "wait_pfcp_establishment" /\ e.type = "SEResp"
         /\ establishment_answered(e.sid)
      \/ /\ state = "wait_pfcp_establishment" /\ e.type = "t_establishment"
         /\ establishment_timeout(e.sid)
      \/ /\ state = "operational" /\ e.type = "SEResp"
         /\ operational_message(e.xid)
      \/ /\ state = "wait_pfcp_deletion" /\ e.type = "t_deletion"
         /\ deletion_timeout
      \/ /\ <<state, e.type>> \notin
              {<<"wait_pfcp_establishment", "SEResp">>,
               <<"wait_pfcp_establishment", "t_establishment">>,
               <<"operational", "SEResp">>,
               <<"wait_pfcp_deletion", "t_deletion">>}
         /\ UNCHANGED <<dsmf, sess, local>>

\* dsmf_main takes the next event from the queue.
handle_event ==
  /\ dsmf = "up"
  /\ queue # <<>>
  /\ queue' = Tail(queue)
  /\ Dispatch(Head(queue))
  /\ UNCHANGED <<inc, seidTaken, nextXid, channelVars>>

\* dsmf_sess_modify: only an operational session reacts, with a request whose
\* message type is never set, so that it is not built; the transaction is
\* created and deleted.
sess_modify(i) ==
  /\ SessApi /\ dsmf = "up"
  /\ i \in DOMAIN sess
  /\ sess[i].state = "operational"
  /\ nextXid \in Xid
  /\ nextXid' = nextXid + 1
  /\ local' = [local EXCEPT ![nextXid] =
                  [phase |-> "gone", seid |-> sess[i].seid]]
  /\ UNCHANGED <<dsmf, inc, seidTaken, sess, queue, channelVars>>

\* dsmf_sess_delete of an operational session: PFCP deletion is started.
sess_delete(i) ==
  /\ SessApi /\ dsmf = "up"
  /\ i \in DOMAIN sess
  /\ sess[i].state = "operational"
  /\ nextXid \in Xid
  /\ nextXid' = nextXid + 1
  /\ local' = [local EXCEPT ![nextXid] =
                  [phase |-> "sent", seid |-> sess[i].seid]]
  /\ req' = req \cup {[inc |-> inc, xid |-> nextXid, type |-> "SDReq",
                       seid |-> sess[i].seid, ran |-> NoRan]}
  /\ sess' = [sess EXCEPT ![i].state = "wait_pfcp_deletion", ![i].timer = TRUE]
  /\ UNCHANGED <<dsmf, inc, seidTaken, queue, held>>

\* dsmf_sess_delete in any other state that reacts to it removes at once.
sess_delete_at_once(i) ==
  /\ SessApi /\ dsmf = "up"
  /\ i \in DOMAIN sess
  /\ sess[i].state \in {"wait_pfcp_establishment", "exception"}
  /\ RemoveAborts
  /\ UNCHANGED <<inc, seidTaken, sess, nextXid, local, queue,
                 channelVars>>

-----------------------------------------------------------------------------
\* The process ends, by an abort or by its operator, and a new one starts:
\* nothing is persistent, and transaction ids start again at 1.
restart ==
  /\ inc < MaxInc
  /\ WaitBeforeRestart => req = {} /\ held = {}
  /\ inc' = inc + 1
  /\ dsmf' = "up"
  /\ seidTaken' = 0
  /\ sess' = <<>>
  /\ nextXid' = 1
  /\ local' = [x \in Xid |-> NoXact]
  /\ queue' = <<>>
  /\ UNCHANGED channelVars

DsmfNext ==
  \/ \E k \in Key, r \in RanInfo : gnb_sync(k, r)
  \/ \E x \in Xid : \/ recv_response(x)
                    \/ recv_duplicate_response(x)
                    \/ give_up(x)
  \/ \E i \in 1 .. PoolSize : \/ session_timer(i)
                            \/ sess_modify(i)
                            \/ sess_delete(i)
                            \/ sess_delete_at_once(i)
  \/ handle_event
  \/ restart
=============================================================================

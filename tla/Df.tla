--------------------------------- MODULE Df ---------------------------------
(***************************************************************************)
(* The DF (src/df) as the peer of the DSMF: its sessions, the hash by SEID *)
(* that names them on DN4 and the hash by TEID that routes the uplink      *)
(* packets of the RAN to them.                                             *)
(*                                                                         *)
(* The requests this DSMF builds pass every check of the establishment     *)
(* handler: one PDR with a non-zero F-TEID, one FAR.                       *)
(***************************************************************************)
EXTENDS Dn4Channel

CONSTANT DfPoolSize     \* DF's ogs_app()->pool.sess

ASSUME DfAssumption == DfPoolSize \in Nat

VARIABLES
  df,         \* "up" or "aborted"
  dfSess,     \* sess_list: records with an id for the identity of a session
  dfNext,     \* the next identity
  seidHash,   \* df_n4_seid_hash: the session a SEID names, 0 for none
  teidHash    \* teid_hash: the session a RAN TEID routes to, 0 for none

dfVars == <<df, dfSess, dfNext, seidHash, teidHash>>

Teid == {r.teid : r \in RanInfo}
DfSession == [id : Nat, seid : SeidValue, ran : RanInfo]

\* The kinds of value of the DF variables.
DfTypeOK ==
  /\ df \in {"up", "aborted"}
  /\ dfSess \subseteq DfSession
  /\ dfNext \in Nat
  /\ seidHash \in [SeidValue -> Nat]
  /\ teidHash \in [Teid -> Nat]

DfInit ==
  /\ df = "up"
  /\ dfSess = {}
  /\ dfNext = 1
  /\ seidHash = [s \in SeidValue |-> 0]
  /\ teidHash = [t \in Teid |-> 0]

\* A request DF has no transaction for.
NewRequest(m) == df = "up" /\ \A h \in held : h.req.xid # m.xid

\* df_sess_add: a new session, whatever sessions exist with that SEID; the
\* hash now names it.
sess_add(m) ==
  /\ Cardinality(dfSess) < DfPoolSize
  /\ dfSess' = dfSess \cup {[id |-> dfNext, seid |-> m.seid, ran |-> m.ran]}
  /\ dfNext' = dfNext + 1
  /\ seidHash' = [seidHash EXCEPT ![m.seid] = dfNext]

\* df_n4_handle_session_establishment_request: the TEID routes to the new
\* session, whatever session it routed to, and the response is sent.
establish(m) ==
  /\ NewRequest(m)
  /\ m.type = "SEReq"
  /\ sess_add(m)
  /\ teidHash' = [teidHash EXCEPT ![m.ran.teid] = dfNext]
  /\ held' = held \cup {[req |-> m, answered |-> TRUE]}
  /\ UNCHANGED <<df, req>>

\* ogs_assert on an empty df_sess_pool.
SessPoolAbort(m) ==
  /\ NewRequest(m)
  /\ m.type = "SEReq"
  /\ Cardinality(dfSess) >= DfPoolSize
  /\ df' = "aborted"
  /\ UNCHANGED <<dfSess, dfNext, seidHash, teidHash, channelVars>>

\* df_sess_find_by_df_n4_seid, for a request's SEID: 0 names no session.
Named(seid) == {d \in dfSess : seid # 0 /\ d.id = seidHash[seid]}

\* Mutant: the route of the removed session stays.
sess_remove_KeepRoute(gone) ==
  /\ dfSess' = dfSess \ gone
  /\ seidHash' = [s \in SeidValue |-> IF \E d \in gone : d.seid = s
                                     THEN 0 ELSE seidHash[s]]
  /\ UNCHANGED teidHash

\* df_sess_remove of the sessions gone (one or none): their SEID and TEID are
\* taken out of the hashes, and with them what other sessions had stored
\* there.
sess_remove(gone) ==
  /\ dfSess' = dfSess \ gone
  /\ seidHash' = [s \in SeidValue |-> IF \E d \in gone : d.seid = s
                                     THEN 0 ELSE seidHash[s]]
  /\ teidHash' = [t \in Teid |-> IF \E d \in gone : d.ran.teid = t
                                 THEN 0 ELSE teidHash[t]]

\* Mutant: df_sess_remove_all instead of df_sess_remove.
delete_All(m) ==
  /\ NewRequest(m)
  /\ m.type = "SDReq"
  /\ sess_remove(dfSess)
  /\ held' = held \cup {[req |-> m, answered |-> FALSE]}
  /\ UNCHANGED <<df, dfNext, req>>

\* df_n4_handle_session_deletion_request.  DF does not answer, and ignores a
\* SEID that names no session.
delete(m) ==
  /\ NewRequest(m)
  /\ m.type = "SDReq"
  /\ sess_remove(Named(m.seid))
  /\ held' = held \cup {[req |-> m, answered |-> FALSE]}
  /\ UNCHANGED <<df, dfNext, req>>

\* The transaction is deleted: by holding_timeout, which does not come while the
\* request held is still in flight (PfcpXact), or by a request with its xid and
\* another type, which ogs_pfcp_xact_update_rx refuses.
forget(h) ==
  /\ df = "up"
  /\ h.req \in req =>
       \E m \in req : m.xid = h.req.xid /\ m.type # h.req.type
  /\ held' = held \ {h}
  /\ UNCHANGED <<dfVars, req>>

\* df_dn3_recv_cb: the session an uplink packet with this TEID belongs to.
RouteOf(t) == {d \in dfSess : d.id = teidHash[t]}

DfNext == \/ \E m \in req : establish(m) \/ SessPoolAbort(m) \/ delete(m)
          \/ \E h \in held : forget(h)
=============================================================================

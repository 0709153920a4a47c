----------------------------- MODULE Dn4Proofs ------------------------------
(***************************************************************************)
(* DSMF and DF over DN4, for any sets of gNB sessions, endpoints and SEIDs *)
(* and any bounds: types, the hashes of the DF and what an operational     *)
(* session of the DSMF is worth.                                           *)
(***************************************************************************)
EXTENDS Dn4, DataLemmas, SequenceTheorems

-----------------------------------------------------------------------------
(* Types. *)

\* The request that establishes names an endpoint the DMF reported.
EndpointSent == \A m \in req : m.type = "SEReq" => m.ran \in RanInfo

TypeInv == TypeOK /\ EndpointSent

\* The list of sessions is one of records at positions from 1.
LEMMA SessionList ==
  ASSUME sess \in Seq(Session)
  PROVE  /\ Len(sess) \in Nat
         /\ DOMAIN sess = 1 .. Len(sess)
         /\ \A j \in DOMAIN sess : sess[j] \in Session
  BY LenProperties, ElementOfSeq

\* A session of the list is replaced by another record.
LEMMA SessionReplaced ==
  ASSUME sess \in Seq(Session), NEW i \in DOMAIN sess, NEW s \in Session,
         sess' = [sess EXCEPT ![i] = s]
  PROVE  /\ sess' \in Seq(Session)
         /\ Len(sess') = Len(sess) /\ DOMAIN sess' = DOMAIN sess
         /\ \A j \in DOMAIN sess : sess'[j] = IF j = i THEN s ELSE sess[j]
<1>1. i \in 1 .. Len(sess)
  BY SessionList
<1>2. /\ [sess EXCEPT ![i] = s] \in Seq(Session)
      /\ Len([sess EXCEPT ![i] = s]) = Len(sess)
      /\ \A j \in 1 .. Len(sess) :
           [sess EXCEPT ![i] = s][j] = IF j = i THEN s ELSE sess[j]
  BY <1>1, ExceptSeq
<1>. QED
  BY <1>2, SessionList, LenProperties

\* A session of the list gets another state, and its timer is set or deleted.
LEMMA SessionChanged ==
  ASSUME sess \in Seq(Session), NEW i \in DOMAIN sess,
         NEW st \in SessState, NEW b \in BOOLEAN,
         sess' = [sess EXCEPT ![i].state = st, ![i].timer = b]
  PROVE  /\ sess' \in Seq(Session)
         /\ Len(sess') = Len(sess) /\ DOMAIN sess' = DOMAIN sess
         /\ sess'[i].state = st
         /\ \A j \in DOMAIN sess : /\ sess'[j].seid = sess[j].seid
                                   /\ sess'[j].ran = sess[j].ran
                                   /\ j # i => sess'[j].state = sess[j].state
<1>. DEFINE s == [sess[i] EXCEPT !.state = st, !.timer = b]
<1>1. /\ s \in Session
      /\ s.seid = sess[i].seid /\ s.ran = sess[i].ran /\ s.state = st
  BY SessionList DEF Session
<1>2. sess' = [sess EXCEPT ![i] = s]
  BY SessionList DEF Session
<1>. HIDE DEF s
<1>. QED
  BY <1>1, <1>2, SessionReplaced

\* The timer of a session expires.
LEMMA TimerChanged ==
  ASSUME sess \in Seq(Session), NEW i \in DOMAIN sess,
         sess' = [sess EXCEPT ![i].timer = FALSE]
  PROVE  /\ sess' \in Seq(Session)
         /\ Len(sess') = Len(sess) /\ DOMAIN sess' = DOMAIN sess
         /\ \A j \in DOMAIN sess : /\ sess'[j].seid = sess[j].seid
                                   /\ sess'[j].ran = sess[j].ran
                                   /\ sess'[j].state = sess[j].state
<1>. DEFINE s == [sess[i] EXCEPT !.timer = FALSE]
<1>1. /\ s \in Session
      /\ s.seid = sess[i].seid /\ s.ran = sess[i].ran
      /\ s.state = sess[i].state
  BY SessionList DEF Session
<1>2. sess' = [sess EXCEPT ![i] = s]
  BY SessionList DEF Session
<1>. HIDE DEF s
<1>. QED
  BY <1>1, <1>2, SessionReplaced

\* A session is added to the list.
LEMMA SessionAdded ==
  ASSUME sess \in Seq(Session), NEW s \in Session, sess' = Append(sess, s)
  PROVE  /\ sess' \in Seq(Session)
         /\ Len(sess) \in Nat
         /\ DOMAIN sess = 1 .. Len(sess)
         /\ DOMAIN sess' = 1 .. Len(sess) + 1
         /\ sess'[Len(sess) + 1] = s
         /\ \A j \in DOMAIN sess : sess'[j] = sess[j]
<1>1. Len(sess) \in Nat /\ DOMAIN sess = 1 .. Len(sess)
  BY SessionList
<1>2. /\ sess' \in Seq(Session) /\ Len(sess') = Len(sess) + 1
      /\ \A j \in 1 .. Len(sess) : sess'[j] = sess[j]
      /\ sess'[Len(sess) + 1] = s
  BY AppendProperties
<1>3. DOMAIN sess' = 1 .. Len(sess')
  BY <1>2, LenProperties
<1>. QED
  BY <1>1, <1>2, <1>3

\* The lookup by SEID finds a session with that SEID, if there is one.
LEMMA SessBySeidMember ==
  ASSUME sess \in Seq(Session), NEW v
  PROVE  \/ SessBySeid(v) = 0 /\ \A i \in DOMAIN sess : sess[i].seid # v
         \/ SessBySeid(v) \in DOMAIN sess /\ sess[SessBySeid(v)].seid = v
<1>. DEFINE ids == {i \in DOMAIN sess : sess[i].seid = v}
<1>1. ids = {} => SessBySeid(v) = 0
  BY DEF SessBySeid
<1>2. ASSUME ids # {}
      PROVE  \E i \in ids : \A j \in ids : j <= i
  <2>1. ids \in SUBSET (1 .. Len(sess)) /\ Len(sess) \in Nat
    BY SessionList
  <2>. HIDE DEF ids
  <2>. QED
    BY <1>2, <2>1, GreatestBelow
<1>3. ids # {} => SessBySeid(v) \in ids
  BY <1>2 DEF SessBySeid
<1>. QED
  BY <1>1, <1>3

\* Init: nothing is there yet.
LEMMA InitType ==
  ASSUME Init
  PROVE  TypeInv
<1>1. ChannelTypeOK /\ EndpointSent
  BY DEF Init, ChannelInit, ChannelTypeOK, EndpointSent
<1>2. DsmfTypeOK
  BY ChannelAssumption, DsmfAssumption
  DEF Init, DsmfInit, DsmfTypeOK, NoXact, Local
<1>3. DfTypeOK
  BY DEF Init, DfInit, DfTypeOK
<1>. QED
  BY <1>1, <1>2, <1>3 DEF TypeInv, TypeOK

\* A transaction is created and, in phase sent, its request goes out.
LEMMA LocalType ==
  ASSUME DsmfTypeOK, NEW x \in Xid, NEW p \in {"sent", "answered", "gone"},
         NEW v \in SeidValue
  PROVE  [local EXCEPT ![x] = [phase |-> p, seid |-> v]] \in [Xid -> Local]
  BY DEF DsmfTypeOK, Local

\* Only the phase of a transaction changes.
LEMMA PhaseType ==
  ASSUME DsmfTypeOK, NEW x \in Xid, NEW p \in {"sent", "answered", "gone"},
         local' = [local EXCEPT ![x].phase = p]
  PROVE  /\ local' \in [Xid -> Local]
         /\ \A y \in Xid : /\ local'[y].seid = local[y].seid
                           /\ local'[y].phase =
                                IF y = x THEN p ELSE local[y].phase
  BY DEF DsmfTypeOK, Local

\* A session is created, or not, or the process ends.
LEMMA GnbSyncType ==
  ASSUME TypeInv, NEW k \in Key, NEW r \in RanInfo, gnb_sync(k, r),
         UNCHANGED dfVars
  PROVE  TypeInv'
<1>1. DfTypeOK'
  BY DEF TypeInv, TypeOK, DfTypeOK, dfVars
<1>2. CASE CreateSession(k, r)
  <2>1. PICK seid \in SeidValue :
          /\ sess' = Append(sess, [key |-> k, ran |-> r, seid |-> seid,
                                   state |-> "wait_pfcp_establishment",
                                   timer |-> TRUE])
          /\ SendEstablishment(r, seid)
    BY <1>2 DEF CreateSession
  <2>2. sess' \in Seq(Session)
    <3>1. [key |-> k, ran |-> r, seid |-> seid,
           state |-> "wait_pfcp_establishment", timer |-> TRUE] \in Session
      BY DEF Session, SessState
    <3>. QED
      BY <2>1, <3>1, SessionAdded DEF TypeInv, TypeOK, DsmfTypeOK
  <2>3. /\ seidTaken' \in 0 .. PoolSize
        /\ UNCHANGED <<dsmf, inc, queue, held>>
    BY <1>2, DsmfAssumption DEF CreateSession, TypeInv, TypeOK, DsmfTypeOK
  <2>4. /\ nextXid \in Xid /\ nextXid' \in 1 .. MaxXid + 1
        /\ local' \in [Xid -> Local]
    <3>1. nextXid \in Xid /\ nextXid' = nextXid + 1
      BY <2>1 DEF SendEstablishment
    <3>2. \E p \in {"sent", "gone"} :
            local' = [local EXCEPT ![nextXid] = [phase |-> p, seid |-> seid]]
      BY <2>1 DEF SendEstablishment
    <3>3. local' \in [Xid -> Local]
      BY <3>1, <3>2, LocalType DEF TypeInv, TypeOK
    <3>. QED
      BY <3>1, <3>3, ChannelAssumption DEF Xid
  <2>5. req' \subseteq Request /\ EndpointSent'
    BY <2>1, <2>4 DEF SendEstablishment, TypeInv, TypeOK, DsmfTypeOK,
       ChannelTypeOK, EndpointSent, Request
  <2>. QED
    BY <1>1, <2>2, <2>3, <2>4, <2>5
    DEF TypeInv, TypeOK, DsmfTypeOK, ChannelTypeOK
<1>3. CASE UNCHANGED <<inc, seidTaken, sess, nextXid, local, queue, channelVars>>
             /\ dsmf' \in {"up", "aborted"}
  BY <1>1, <1>3 DEF TypeInv, TypeOK, DsmfTypeOK, ChannelTypeOK, EndpointSent,
     channelVars
<1>. QED
  BY <1>2, <1>3 DEF gnb_sync, SeidPoolAbort, TypeInv, TypeOK, DsmfTypeOK

\* What a transaction of the DSMF does after its request was sent.
LEMMA TransactionType ==
  ASSUME TypeInv, NEW x \in Xid,
         recv_response(x) \/ recv_duplicate_response(x) \/ give_up(x),
         UNCHANGED dfVars
  PROVE  TypeInv'
<1>1. DfTypeOK'
  BY DEF TypeInv, TypeOK, DfTypeOK, dfVars
<1>2. local' \in [Xid -> Local]
  BY PhaseType
  DEF TypeInv, TypeOK, recv_response, recv_duplicate_response, give_up
<1>3. queue' \in Seq(Event)
  <2>1. CASE recv_response(x)
    <3>. DEFINE sid == IF local[x].seid = 0 THEN 0 ELSE SessBySeid(local[x].seid)
    <3>1. sid \in Nat
      <4>. DEFINE ids == {i \in DOMAIN sess : sess[i].seid = local[x].seid}
      <4>1. ids # {} => SessBySeid(local[x].seid) \in Nat
        BY SessionList, SessBySeidMember DEF TypeInv, TypeOK, DsmfTypeOK
      <4>. QED
        BY <4>1 DEF SessBySeid
    <3>2. [type |-> "SEResp", xid |-> x, sid |-> sid] \in Event
      BY <3>1 DEF Event, Xid
    <3>. QED
      BY <2>1, <3>2, AppendProperties
      DEF recv_response, TypeInv, TypeOK, DsmfTypeOK
  <2>. QED
    BY <2>1 DEF recv_duplicate_response, give_up, TypeInv, TypeOK, DsmfTypeOK
<1>4. ChannelTypeOK' /\ EndpointSent'
  BY DEF TypeInv, TypeOK, ChannelTypeOK, EndpointSent, channelVars,
     recv_response, recv_duplicate_response, give_up
<1>. QED
  BY <1>1, <1>2, <1>3, <1>4
  DEF TypeInv, TypeOK, DsmfTypeOK, recv_response, recv_duplicate_response,
      give_up

\* A timer of a session expires.
LEMMA SessionTimerType ==
  ASSUME TypeInv, NEW i \in 1 .. PoolSize, session_timer(i), UNCHANGED dfVars
  PROVE  TypeInv'
<1>1. DfTypeOK' /\ ChannelTypeOK' /\ EndpointSent'
  BY DEF TypeInv, TypeOK, DfTypeOK, dfVars, ChannelTypeOK, channelVars,
     EndpointSent, session_timer
<1>2. sess' \in Seq(Session)
  BY TimerChanged DEF TypeInv, TypeOK, DsmfTypeOK, session_timer
<1>3. queue' \in Seq(Event)
  <2>. DEFINE e(t) == [type |-> t, sid |-> i, xid |-> 0]
  <2>1. e("t_deletion") \in Event /\ e("t_establishment") \in Event
    BY DsmfAssumption DEF Event
  <2>2. queue' = Append(queue, e("t_deletion"))
          \/ queue' = Append(queue, e("t_establishment"))
    BY DEF session_timer
  <2>3. queue \in Seq(Event)
    BY DEF TypeInv, TypeOK, DsmfTypeOK
  <2>. HIDE DEF e
  <2>. QED
    BY <2>1, <2>2, <2>3
<1>. QED
  BY <1>1, <1>2, <1>3 DEF TypeInv, TypeOK, DsmfTypeOK, session_timer

\* An event is taken from the queue; its session may change its state.
LEMMA HandleEventType ==
  ASSUME TypeInv, handle_event, UNCHANGED dfVars
  PROVE  TypeInv'
<1>1. DfTypeOK' /\ ChannelTypeOK' /\ EndpointSent'
  BY DEF TypeInv, TypeOK, DfTypeOK, dfVars, ChannelTypeOK, channelVars,
     EndpointSent, handle_event
<1>2. Head(queue) \in Event /\ queue' \in Seq(Event)
  BY HeadTailProperties DEF TypeInv, TypeOK, DsmfTypeOK, handle_event
<1>. DEFINE e == Head(queue)
<1>3. dsmf' \in {"up", "aborted"}
  BY Zenon DEF handle_event, Dispatch, establishment_answered,
     establishment_timeout, operational_message, deletion_timeout,
     RemoveAborts, TypeInv, TypeOK, DsmfTypeOK
<1>4. sess' \in Seq(Session)
  <2>1. ASSUME e.sid \in DOMAIN sess, NEW st \in SessState, Transition(e.sid, st)
        PROVE  sess' \in Seq(Session)
    BY <2>1, SessionChanged DEF Transition, TypeInv, TypeOK, DsmfTypeOK
  <2>2. {"operational", "exception"} \subseteq SessState
    BY DEF SessState
  <2>3. \/ UNCHANGED sess
        \/ e.sid \in DOMAIN sess /\ Transition(e.sid, "operational")
        \/ e.sid \in DOMAIN sess /\ Transition(e.sid, "exception")
    BY DEF handle_event, Dispatch, establishment_answered,
       establishment_timeout, operational_message, deletion_timeout
  <2>. QED
    BY <2>1, <2>2, <2>3 DEF TypeInv, TypeOK, DsmfTypeOK
<1>5. local' \in [Xid -> Local]
  <2>1. local' = local \/ local' = [local EXCEPT ![e.xid].phase = "gone"]
    BY DEF handle_event, Dispatch, establishment_answered,
       establishment_timeout, operational_message, deletion_timeout
  <2>. QED
    BY <2>1 DEF TypeInv, TypeOK, DsmfTypeOK, Local
<1>. QED
  BY <1>1, <1>2, <1>3, <1>4, <1>5
  DEF TypeInv, TypeOK, DsmfTypeOK, handle_event

\* The calls of dsmf_sess_modify and dsmf_sess_delete.
LEMMA SessApiType ==
  ASSUME TypeInv, NEW i \in 1 .. PoolSize,
         sess_modify(i) \/ sess_delete(i) \/ sess_delete_at_once(i),
         UNCHANGED dfVars
  PROVE  TypeInv'
<1>1. DfTypeOK'
  BY DEF TypeInv, TypeOK, DfTypeOK, dfVars
<1>2. /\ i \in DOMAIN sess /\ sess[i].seid \in SeidValue
      /\ dsmf' \in {"up", "aborted"}
      /\ UNCHANGED <<inc, seidTaken, queue, held>>
  BY SessionList DEF sess_modify, sess_delete, sess_delete_at_once,
     RemoveAborts, channelVars, TypeInv, TypeOK, DsmfTypeOK, Session
<1>3. sess' \in Seq(Session)
  BY <1>2, SessionChanged DEF sess_modify, sess_delete, sess_delete_at_once,
     TypeInv, TypeOK, DsmfTypeOK, SessState
<1>4. local' \in [Xid -> Local] /\ nextXid' \in 1 .. MaxXid + 1
  <2>1. CASE UNCHANGED <<local, nextXid>>
    BY <2>1 DEF TypeInv, TypeOK, DsmfTypeOK
  <2>2. CASE /\ nextXid \in Xid /\ nextXid' = nextXid + 1
             /\ \E p \in {"sent", "gone"} : local' =
                  [local EXCEPT ![nextXid] = [phase |-> p, seid |-> sess[i].seid]]
    <3>1. local' \in [Xid -> Local]
      BY <1>2, <2>2, LocalType DEF TypeInv, TypeOK
    <3>. QED
      BY <2>2, <3>1, ChannelAssumption DEF Xid
  <2>. QED
    BY <2>1, <2>2 DEF sess_modify, sess_delete, sess_delete_at_once
<1>5. req' \subseteq Request /\ EndpointSent'
  <2>1. CASE UNCHANGED req
    BY <2>1 DEF TypeInv, TypeOK, ChannelTypeOK, EndpointSent
  <2>2. CASE sess_delete(i)
    BY <1>2, <2>2 DEF sess_delete, TypeInv, TypeOK, ChannelTypeOK, DsmfTypeOK,
       Request, EndpointSent
  <2>. QED
    BY <2>1, <2>2 DEF sess_modify, sess_delete_at_once, channelVars
<1>. QED
  BY <1>1, <1>2, <1>3, <1>4, <1>5
  DEF TypeInv, TypeOK, DsmfTypeOK, ChannelTypeOK

\* A new process has nothing.
LEMMA RestartType ==
  ASSUME TypeInv, restart, UNCHANGED dfVars
  PROVE  TypeInv'
<1>1. DfTypeOK' /\ ChannelTypeOK' /\ EndpointSent'
  BY DEF TypeInv, TypeOK, DfTypeOK, dfVars, ChannelTypeOK, channelVars,
     EndpointSent, restart
<1>2. DsmfTypeOK'
  BY ChannelAssumption, DsmfAssumption
  DEF restart, TypeInv, TypeOK, DsmfTypeOK, NoXact, Local
<1>. QED
  BY <1>1, <1>2 DEF TypeInv, TypeOK

\* The steps of the DF, and the end of a request whose process is gone.
LEMMA DfType ==
  ASSUME TypeInv, DfNext \/ \E m \in req : vanish(m), UNCHANGED dsmfVars
  PROVE  TypeInv'
<1>1. DsmfTypeOK'
  BY DEF TypeInv, TypeOK, DsmfTypeOK, dsmfVars
<1>2. ASSUME NEW m \in req, establish(m)
      PROVE  TypeInv'
  <2>1. m \in Request /\ m.ran \in RanInfo /\ m.seid \in SeidValue
    BY <1>2 DEF TypeInv, TypeOK, ChannelTypeOK, EndpointSent, establish, Request
  <2>2. m.ran.teid \in Teid
    BY <2>1 DEF Teid
  <2>3. DfTypeOK'
    BY <1>2, <2>1, <2>2 DEF TypeInv, TypeOK, DfTypeOK, establish, sess_add,
       DfSession
  <2>4. ChannelTypeOK' /\ EndpointSent'
    <3>1. [req |-> m, answered |-> TRUE] \in Remote
      BY <2>1 DEF Remote
    <3>. QED
      BY <1>2, <3>1
      DEF TypeInv, TypeOK, ChannelTypeOK, EndpointSent, establish
  <2>. QED
    BY <1>1, <2>3, <2>4 DEF TypeInv, TypeOK
<1>3. ASSUME NEW m \in req, delete(m)
      PROVE  TypeInv'
  <2>1. m \in Request
    BY DEF TypeInv, TypeOK, ChannelTypeOK
  <2>2. DfTypeOK'
    BY <1>3 DEF TypeInv, TypeOK, DfTypeOK, delete, sess_remove
  <2>3. ChannelTypeOK' /\ EndpointSent'
    <3>1. [req |-> m, answered |-> FALSE] \in Remote
      BY <2>1 DEF Remote
    <3>. QED
      BY <1>3, <3>1
      DEF TypeInv, TypeOK, ChannelTypeOK, EndpointSent, delete
  <2>. QED
    BY <1>1, <2>2, <2>3 DEF TypeInv, TypeOK
<1>4. ASSUME /\ UNCHANGED <<dfSess, dfNext, seidHash, teidHash>>
             /\ df' \in {"up", "aborted"}
             /\ req' \subseteq req /\ held' \subseteq held
      PROVE  TypeInv'
  BY <1>1, <1>4 DEF TypeInv, TypeOK, DfTypeOK, ChannelTypeOK, EndpointSent
<1>5. ASSUME NEW m \in req, SessPoolAbort(m)
      PROVE  TypeInv'
  BY <1>4, <1>5 DEF SessPoolAbort, channelVars
<1>6. ASSUME NEW h \in held, forget(h)
      PROVE  TypeInv'
  BY <1>4, <1>6 DEF forget, dfVars, TypeInv, TypeOK, DfTypeOK
<1>7. ASSUME NEW m \in req, vanish(m)
      PROVE  TypeInv'
  BY <1>4, <1>7 DEF vanish, dfVars, TypeInv, TypeOK, DfTypeOK
<1>. QED
  BY <1>2, <1>3, <1>5, <1>6, <1>7 DEF DfNext

\* Every step preserves the types.
LEMMA NextType ==
  ASSUME TypeInv, [Next]_vars
  PROVE  TypeInv'
<1>1. CASE UNCHANGED vars
  BY <1>1 DEF vars, channelVars, dsmfVars, dfVars, TypeInv, TypeOK,
     ChannelTypeOK, DsmfTypeOK, DfTypeOK, EndpointSent
<1>2. CASE DsmfNext /\ UNCHANGED dfVars
  BY <1>2, GnbSyncType, TransactionType, SessionTimerType, HandleEventType,
     SessApiType, RestartType DEF DsmfNext
<1>3. CASE DfNext /\ UNCHANGED dsmfVars
  BY <1>3, DfType
<1>4. CASE \E m \in req : vanish(m)
  BY <1>4, DfType DEF vanish
<1>. QED
  BY <1>1, <1>2, <1>3, <1>4 DEF Next

\* The types, with the endpoint of every request in flight.
THEOREM TypeInvariance == Spec => []TypeInv
<1>1. Init => TypeInv
  BY InitType
<1>2. TypeInv /\ [Next]_vars => TypeInv'
  BY NextType
<1>. QED
  BY <1>1, <1>2, PTL DEF Spec

\* Every variable of DSMF, DF and the channel keeps its kind of value: a
\* session rests in none of the states it passes through within one call, the
\* SEID pool is never overdrawn, and the DF stores an endpoint only
\* (dsmf_sess_add_by_ran_sync, df_sess_add).
THEOREM TypeCorrect == Spec => []TypeOK
<1>1. TypeInv => TypeOK
  BY DEF TypeInv
<1>. QED
  BY <1>1, TypeInvariance, PTL

-----------------------------------------------------------------------------
(* The hashes of the DF. *)

\* What a step of the DF does to its sessions and hashes: it adds a session
\* and stores it under its SEID and its TEID, it removes the session that a
\* SEID names with what is stored under its SEID and TEID, or nothing.
LEMMA DfSteps ==
  ASSUME [Next]_vars
  PROVE  \/ \E m \in req : establish(m) /\ UNCHANGED dsmfVars
         \/ \E m \in req : delete(m) /\ UNCHANGED dsmfVars
         \/ UNCHANGED <<dfSess, dfNext, seidHash, teidHash>>
  BY DEF Next, vars, dfVars, DfNext, SessPoolAbort, forget, vanish

\* A new session is stored under its SEID and TEID.
LEMMA EstablishRoutes ==
  ASSUME TypeInv, NoDanglingRoute, NEW m \in req, establish(m)
  PROVE  NoDanglingRoute'
<1>. DEFINE new == [id |-> dfNext, seid |-> m.seid, ran |-> m.ran]
<1>1. m.seid \in SeidValue /\ m.ran.teid \in Teid
  BY DEF TypeInv, TypeOK, ChannelTypeOK, EndpointSent, establish, Request, Teid
<1>2. /\ new \in dfSess'
      /\ \A d \in dfSess : d \in dfSess'
      /\ new.id = dfNext /\ new.seid = m.seid /\ new.ran = m.ran
  BY DEF establish, sess_add
<1>3. ASSUME NEW t \in Teid, teidHash'[t] # 0
      PROVE  \E d \in dfSess' : d.id = teidHash'[t] /\ d.ran.teid = t
  <2>. HIDE DEF new
  <2>1. teidHash'[t] = IF t = m.ran.teid THEN dfNext ELSE teidHash[t]
    BY DEF establish, TypeInv, TypeOK, DfTypeOK
  <2>2. CASE t = m.ran.teid
    BY <1>2, <2>1, <2>2
  <2>3. CASE t # m.ran.teid
    <3>1. PICK d \in dfSess : d.id = teidHash[t] /\ d.ran.teid = t
      BY <1>3, <2>1, <2>3 DEF NoDanglingRoute, RouteOf
    <3>. QED
      BY <1>2, <2>1, <2>3, <3>1
  <2>. QED
    BY <2>2, <2>3
<1>4. ASSUME NEW s \in SeidValue, seidHash'[s] # 0
      PROVE  \E d \in dfSess' : d.id = seidHash'[s] /\ d.seid = s
  <2>. HIDE DEF new
  <2>1. seidHash'[s] = IF s = m.seid THEN dfNext ELSE seidHash[s]
    BY DEF establish, sess_add, TypeInv, TypeOK, DfTypeOK
  <2>2. CASE s = m.seid
    BY <1>2, <2>1, <2>2
  <2>3. CASE s # m.seid
    <3>1. PICK d \in dfSess : d.id = seidHash[s] /\ d.seid = s
      BY <1>4, <2>1, <2>3 DEF NoDanglingRoute
    <3>. QED
      BY <1>2, <2>1, <2>3, <3>1
  <2>. QED
    BY <2>2, <2>3
<1>. HIDE DEF new
<1>. QED
  BY <1>3, <1>4 DEF NoDanglingRoute, RouteOf

\* What is stored under the SEID or the TEID of a removed session goes with it.
LEMMA DeleteRoutes ==
  ASSUME TypeInv, NoDanglingRoute, NEW m \in req, delete(m)
  PROVE  NoDanglingRoute'
<1>. DEFINE gone == Named(m.seid)
<1>1. /\ dfSess' = dfSess \ gone
      /\ \A s \in SeidValue : seidHash'[s] = IF \E d \in gone : d.seid = s
                                             THEN 0 ELSE seidHash[s]
      /\ \A t \in Teid : teidHash'[t] = IF \E d \in gone : d.ran.teid = t
                                        THEN 0 ELSE teidHash[t]
  BY DEF delete, sess_remove
<1>. HIDE DEF gone
<1>2. ASSUME NEW t \in Teid, teidHash'[t] # 0
      PROVE  \E d \in dfSess' : d.id = teidHash'[t] /\ d.ran.teid = t
  <2>1. teidHash'[t] = teidHash[t] /\ ~ \E d \in gone : d.ran.teid = t
    BY <1>1, <1>2
  <2>2. PICK d \in dfSess : d.id = teidHash[t] /\ d.ran.teid = t
    BY <1>2, <2>1 DEF NoDanglingRoute, RouteOf
  <2>. QED
    BY <1>1, <2>1, <2>2
<1>3. ASSUME NEW s \in SeidValue, seidHash'[s] # 0
      PROVE  \E d \in dfSess' : d.id = seidHash'[s] /\ d.seid = s
  <2>1. seidHash'[s] = seidHash[s] /\ ~ \E d \in gone : d.seid = s
    BY <1>1, <1>3
  <2>2. PICK d \in dfSess : d.id = seidHash[s] /\ d.seid = s
    BY <1>3, <2>1 DEF NoDanglingRoute
  <2>. QED
    BY <1>1, <2>1, <2>2
<1>. QED
  BY <1>2, <1>3 DEF NoDanglingRoute, RouteOf

\* Every step preserves the agreement of the hashes with the sessions.
LEMMA NextRoutes ==
  ASSUME TypeInv, NoDanglingRoute, [Next]_vars
  PROVE  NoDanglingRoute'
<1>1. CASE UNCHANGED <<dfSess, dfNext, seidHash, teidHash>>
  BY <1>1 DEF NoDanglingRoute, RouteOf
<1>. QED
  BY <1>1, DfSteps, EstablishRoutes, DeleteRoutes

\* Whatever SEIDs and TEIDs the requests carry, whatever sessions share them
\* and whenever a session is deleted: an entry of teid_hash or df_n4_seid_hash
\* leads to a session the DF has, with that TEID or SEID, so an uplink packet
\* is never routed through freed memory (df_sess_remove, df_dn3_recv_cb).
THEOREM RoutesNeverDangle == Spec => []NoDanglingRoute
<1>1. Init => NoDanglingRoute
  BY DEF Init, DfInit, NoDanglingRoute
<1>2. TypeInv /\ NoDanglingRoute /\ [Next]_vars => NoDanglingRoute'
  BY NextRoutes
<1>. QED
  BY <1>1, <1>2, TypeInvariance, PTL DEF Spec

-----------------------------------------------------------------------------
(* What a step of one DSMF process leaves alone. *)

\* The sessions of the list keep their places, SEIDs and endpoints, one that
\* is being deleted stays so, and the transactions made so far keep theirs.
SessionsKept ==
  /\ DOMAIN sess \subseteq DOMAIN sess'
  /\ \A j \in DOMAIN sess :
       /\ sess'[j].seid = sess[j].seid
       /\ sess'[j].ran = sess[j].ran
       /\ sess[j].state = "wait_pfcp_deletion" =>
            sess'[j].state = "wait_pfcp_deletion"

TransactionsKept ==
  /\ inc' = inc
  /\ nextXid' \in {nextXid, nextXid + 1}
  /\ \A x \in Xid : x < nextXid => local'[x].seid = local[x].seid

\* The steps in which a state machine handles an event.
LEMMA HandleEventKeeps ==
  ASSUME TypeInv, handle_event
  PROVE  /\ SessionsKept /\ DOMAIN sess' = DOMAIN sess
         /\ TransactionsKept
         /\ \A j \in DOMAIN sess :
              sess'[j].state = "operational" =>
                \/ sess[j].state = "operational"
                \/ Head(queue).type = "SEResp" /\ Head(queue).sid = j
<1>. DEFINE e == Head(queue)
<1>1. sess \in Seq(Session)
  BY DEF TypeInv, TypeOK, DsmfTypeOK
<1>2. \/ UNCHANGED sess
      \/ /\ e.sid \in DOMAIN sess /\ e.type = "SEResp"
         /\ sess[e.sid].state = "wait_pfcp_establishment"
         /\ Transition(e.sid, "operational")
      \/ /\ e.sid \in DOMAIN sess
         /\ sess[e.sid].state = "wait_pfcp_establishment"
         /\ Transition(e.sid, "exception")
  BY DEF handle_event, Dispatch, establishment_answered,
     establishment_timeout, operational_message, deletion_timeout
<1>3. ASSUME NEW st \in SessState, e.sid \in DOMAIN sess, Transition(e.sid, st)
      PROVE  /\ DOMAIN sess' = DOMAIN sess
             /\ sess'[e.sid].state = st
             /\ \A j \in DOMAIN sess :
                  /\ sess'[j].seid = sess[j].seid
                  /\ sess'[j].ran = sess[j].ran
                  /\ j # e.sid => sess'[j].state = sess[j].state
  BY <1>1, <1>3, SessionChanged DEF Transition
<1>4. {"operational", "exception"} \subseteq SessState
  BY DEF SessState
<1>5. TransactionsKept
  <2>1. local' = local \/ local' = [local EXCEPT ![e.xid].phase = "gone"]
    BY DEF handle_event, Dispatch, establishment_answered,
       establishment_timeout, operational_message, deletion_timeout
  <2>. QED
    BY <2>1 DEF TypeInv, TypeOK, DsmfTypeOK, Local, handle_event,
       TransactionsKept
<1>. HIDE DEF e
<1>6. CASE UNCHANGED sess
  BY <1>5, <1>6 DEF SessionsKept
<1>7. CASE /\ e.sid \in DOMAIN sess /\ e.type = "SEResp"
           /\ sess[e.sid].state = "wait_pfcp_establishment"
           /\ Transition(e.sid, "operational")
  BY <1>3, <1>4, <1>5, <1>7 DEF SessionsKept, e
<1>8. CASE /\ e.sid \in DOMAIN sess
           /\ sess[e.sid].state = "wait_pfcp_establishment"
           /\ Transition(e.sid, "exception")
  BY <1>3, <1>4, <1>5, <1>8 DEF SessionsKept
<1>. QED
  BY <1>2, <1>6, <1>7, <1>8

\* A new session stands behind the others and waits for its establishment.
LEMMA CreateSessionKeeps ==
  ASSUME TypeInv, NEW k \in Key, NEW r \in RanInfo, CreateSession(k, r)
  PROVE  /\ SessionsKept
         /\ TransactionsKept
         /\ Len(sess) \in Nat /\ DOMAIN sess = 1 .. Len(sess)
         /\ DOMAIN sess' = 1 .. Len(sess) + 1
         /\ sess'[Len(sess) + 1].state = "wait_pfcp_establishment"
         /\ \A j \in DOMAIN sess : sess'[j] = sess[j]
         /\ \A m \in req' : m \in req \/
              /\ m.inc = inc /\ m.xid = nextXid /\ m.type = "SEReq"
              /\ nextXid \in Xid /\ nextXid' = nextXid + 1
              /\ local'[nextXid].seid = m.seid
              /\ sess'[Len(sess) + 1].seid = m.seid
              /\ sess'[Len(sess) + 1].ran = m.ran
<1>1. PICK seid \in SeidValue :
        /\ sess' = Append(sess, [key |-> k, ran |-> r, seid |-> seid,
                                 state |-> "wait_pfcp_establishment",
                                 timer |-> TRUE])
        /\ SendEstablishment(r, seid)
  BY DEF CreateSession
<1>. DEFINE s == [key |-> k, ran |-> r, seid |-> seid,
                  state |-> "wait_pfcp_establishment", timer |-> TRUE]
<1>2. s \in Session /\ s.ran = r /\ s.seid = seid
        /\ s.state = "wait_pfcp_establishment"
  BY DEF Session, SessState
<1>3. sess' = Append(sess, s)
  BY <1>1
<1>. HIDE DEF s
<1>4. /\ Len(sess) \in Nat /\ DOMAIN sess = 1 .. Len(sess)
      /\ DOMAIN sess' = 1 .. Len(sess) + 1
      /\ sess'[Len(sess) + 1] = s
      /\ \A j \in DOMAIN sess : sess'[j] = sess[j]
  BY <1>2, <1>3, SessionAdded DEF TypeInv, TypeOK, DsmfTypeOK
<1>5. SessionsKept
  BY <1>4 DEF SessionsKept
<1>6. \E p \in {"sent", "gone"} :
        local' = [local EXCEPT ![nextXid] = [phase |-> p, seid |-> seid]]
  BY <1>1 DEF SendEstablishment
<1>7. TransactionsKept /\ nextXid \in Xid /\ nextXid' = nextXid + 1
        /\ local'[nextXid].seid = seid
  BY <1>1, <1>6 DEF SendEstablishment, TransactionsKept, CreateSession, TypeInv,
     TypeOK, DsmfTypeOK, Xid
<1>8. \A m \in req' : m \in req \/
        m = [inc |-> inc, xid |-> nextXid, type |-> "SEReq",
             seid |-> seid, ran |-> r]
  BY <1>1 DEF SendEstablishment
<1>. QED
  BY <1>2, <1>4, <1>5, <1>7, <1>8

\* Only sess_delete adds a request to what the others of these leave.
LEMMA SessApiKeeps ==
  ASSUME TypeInv, NEW i \in 1 .. PoolSize,
         sess_modify(i) \/ sess_delete(i) \/ sess_delete_at_once(i)
  PROVE  /\ SessionsKept /\ DOMAIN sess' = DOMAIN sess
         /\ TransactionsKept
         /\ \A j \in DOMAIN sess : sess'[j].state = "operational" =>
                                     sess[j].state = "operational"
         /\ \A m \in req' : m \in req \/
              /\ SessApi
              /\ m.inc = inc /\ m.xid = nextXid /\ m.type = "SDReq"
              /\ nextXid \in Xid /\ nextXid' = nextXid + 1
              /\ local'[nextXid].seid = m.seid
              /\ i \in DOMAIN sess /\ sess'[i].seid = m.seid
              /\ sess'[i].state = "wait_pfcp_deletion"
<1>1. sess \in Seq(Session)
  BY DEF TypeInv, TypeOK, DsmfTypeOK
<1>2. i \in DOMAIN sess
  BY DEF sess_modify, sess_delete, sess_delete_at_once
<1>3. TransactionsKept
  <2>1. CASE UNCHANGED <<local, nextXid, inc>>
    BY <2>1 DEF TransactionsKept
  <2>2. CASE /\ nextXid \in Xid /\ nextXid' = nextXid + 1 /\ inc' = inc
             /\ \E p \in {"sent", "gone"} : local' =
                  [local EXCEPT ![nextXid] = [phase |-> p, seid |-> sess[i].seid]]
    BY <2>2 DEF TransactionsKept, TypeInv, TypeOK, DsmfTypeOK, Xid
  <2>. QED
    BY <2>1, <2>2 DEF sess_modify, sess_delete, sess_delete_at_once
<1>4. CASE sess_modify(i) \/ sess_delete_at_once(i)
  BY <1>3, <1>4 DEF SessionsKept, sess_modify, sess_delete_at_once, channelVars
<1>5. CASE sess_delete(i)
  <2>1. /\ DOMAIN sess' = DOMAIN sess
        /\ sess'[i].state = "wait_pfcp_deletion"
        /\ \A j \in DOMAIN sess : /\ sess'[j].seid = sess[j].seid
                                  /\ sess'[j].ran = sess[j].ran
                                  /\ j # i => sess'[j].state = sess[j].state
    <3>1. "wait_pfcp_deletion" \in SessState /\ TRUE \in BOOLEAN
      BY DEF SessState
    <3>. QED
      BY <1>1, <1>2, <1>5, <3>1, SessionChanged DEF sess_delete
  <2>2. local'[nextXid].seid = sess[i].seid /\ nextXid \in Xid
          /\ nextXid' = nextXid + 1
    BY <1>5 DEF sess_delete, TypeInv, TypeOK, DsmfTypeOK
  <2>3. \A m \in req' : m \in req \/
          m = [inc |-> inc, xid |-> nextXid, type |-> "SDReq",
               seid |-> sess[i].seid, ran |-> NoRan]
    BY <1>5 DEF sess_delete
  <2>4. SessionsKept
    BY <2>1 DEF SessionsKept
  <2>5. \A j \in DOMAIN sess : sess'[j].state = "operational" =>
                                 sess[j].state = "operational"
    BY <2>1
  <2>6. SessApi
    BY <1>5 DEF sess_delete
  <2>7. \A m \in req' : m \in req \/
          /\ m.inc = inc /\ m.xid = nextXid /\ m.type = "SDReq"
          /\ sess'[i].seid = m.seid
          /\ local'[nextXid].seid = m.seid
    BY <1>2, <2>1, <2>2, <2>3
  <2>. QED
    BY <1>2, <1>3, <2>1, <2>2, <2>4, <2>5, <2>6, <2>7, Zenon
<1>. QED
  BY <1>4, <1>5

\* Every other step that is no restart: sessions and requests stay, or some
\* of the requests leave the network.
LEMMA OnwardSteps ==
  ASSUME TypeInv, [Next]_vars, ~restart
  PROVE  \/ \E k \in Key, r \in RanInfo : CreateSession(k, r) /\ UNCHANGED dfVars
         \/ \E x \in Xid : recv_response(x) /\ UNCHANGED dfVars
         \/ \E i \in 1 .. PoolSize : session_timer(i) /\ UNCHANGED dfVars
         \/ \E i \in 1 .. PoolSize :
              /\ sess_modify(i) \/ sess_delete(i) \/ sess_delete_at_once(i)
              /\ UNCHANGED dfVars
         \/ handle_event /\ UNCHANGED dfVars
         \/ \E m \in req : establish(m) /\ UNCHANGED dsmfVars
         \/ \E m \in req : delete(m) /\ UNCHANGED dsmfVars
         \/ /\ UNCHANGED <<inc, sess, nextXid, queue>>
            /\ UNCHANGED <<dfSess, dfNext, seidHash, teidHash>>
            /\ req' \subseteq req /\ held' \subseteq held
            /\ TransactionsKept
<1>1. CASE UNCHANGED vars
  BY <1>1 DEF vars, channelVars, dsmfVars, dfVars, TransactionsKept
<1>2. ASSUME NEW k \in Key, NEW r \in RanInfo, gnb_sync(k, r)
      PROVE  \/ CreateSession(k, r)
             \/ /\ UNCHANGED <<inc, sess, nextXid, queue, req, held>>
                /\ TransactionsKept
  BY <1>2 DEF gnb_sync, SeidPoolAbort, channelVars, TransactionsKept
<1>3. ASSUME NEW x \in Xid, recv_duplicate_response(x) \/ give_up(x)
      PROVE  /\ UNCHANGED <<inc, sess, nextXid, queue>>
             /\ req' \subseteq req /\ held' \subseteq held
             /\ TransactionsKept
  <2>1. \A y \in Xid : local'[y].seid = local[y].seid
    BY <1>3, PhaseType DEF recv_duplicate_response, give_up, TypeInv, TypeOK
  <2>. QED
    BY <1>3, <2>1
    DEF recv_duplicate_response, give_up, channelVars, TransactionsKept
<1>4. ASSUME NEW m \in req, SessPoolAbort(m), UNCHANGED dsmfVars
      PROVE  /\ UNCHANGED <<inc, sess, nextXid, queue, req, held>>
             /\ UNCHANGED <<dfSess, dfNext, seidHash, teidHash>>
             /\ TransactionsKept
  BY <1>4 DEF SessPoolAbort, channelVars, dsmfVars, TransactionsKept
<1>5. ASSUME NEW h \in held, forget(h), UNCHANGED dsmfVars
      PROVE  /\ UNCHANGED <<inc, sess, nextXid, queue, req>>
             /\ UNCHANGED <<dfSess, dfNext, seidHash, teidHash>>
             /\ held' \subseteq held /\ TransactionsKept
  BY <1>5 DEF forget, dfVars, dsmfVars, TransactionsKept
<1>6. ASSUME NEW m \in req, vanish(m)
      PROVE  /\ UNCHANGED <<inc, sess, nextXid, queue, held>>
             /\ UNCHANGED <<dfSess, dfNext, seidHash, teidHash>>
             /\ req' \subseteq req /\ TransactionsKept
  BY <1>6 DEF vanish, dfVars, dsmfVars, TransactionsKept
<1>7. CASE DsmfNext /\ UNCHANGED dfVars
  BY <1>7, <1>2, <1>3 DEF DsmfNext, dfVars
<1>8. CASE DfNext /\ UNCHANGED dsmfVars
  BY <1>8, <1>4, <1>5 DEF DfNext
<1>. QED
  BY <1>1, <1>6, <1>7, <1>8 DEF Next

\* The sessions and transactions of a process are never replaced.
LEMMA OnwardKeeps ==
  ASSUME TypeInv, [Next]_vars, ~restart
  PROVE  SessionsKept /\ TransactionsKept
<1>1. CASE UNCHANGED <<sess, local, nextXid, inc>>
  BY <1>1 DEF SessionsKept, TransactionsKept
<1>2. CASE \E x \in Xid : recv_response(x)
  BY <1>2, PhaseType
  DEF recv_response, SessionsKept, TransactionsKept, TypeInv, TypeOK
<1>3. CASE \E i \in 1 .. PoolSize : session_timer(i)
  BY <1>3, TimerChanged DEF session_timer, SessionsKept, TransactionsKept,
     TypeInv, TypeOK, DsmfTypeOK
<1>4. CASE UNCHANGED sess /\ TransactionsKept
  BY <1>4 DEF SessionsKept
<1>. QED
  BY <1>1, <1>2, <1>3, <1>4, OnwardSteps, CreateSessionKeeps, SessApiKeeps,
     HandleEventKeeps DEF dsmfVars

-----------------------------------------------------------------------------
(* What the requests and answers under way are about. *)

\* A request of the DSMF process that runs, made for one of its sessions: that
\* session is being deleted if the request deletes.
Own(m) ==
  /\ m.inc = inc
  /\ m.xid < nextXid
  /\ local[m.xid].seid = m.seid
  /\ \E i \in DOMAIN sess :
       /\ sess[i].seid = m.seid
       /\ m.type = "SEReq" => sess[i].ran = m.ran
       /\ m.type = "SDReq" => sess[i].state = "wait_pfcp_deletion"

\* The network has, and the DF holds, requests of that process only.
OwnRequests == /\ \A m \in req : Own(m)
               /\ \A h \in held : Own(h.req)

\* An event names a session or none.
EventsInRange == \A n \in DOMAIN queue : queue[n].sid \in 0 .. Len(sess)

\* A session of the DF is told from another by its id.
IdsUnique == /\ dfNext >= 1
             /\ \A d \in dfSess : d.id \in 1 .. dfNext - 1
             /\ \A d, e \in dfSess : d.id = e.id => d = e

\* The answer to the request of session i has been given by the DF, is in the
\* queue, or was handled.
Confirmed(i) ==
  \/ \E h \in held : h.answered /\ h.req.seid = sess[i].seid
  \/ \E n \in DOMAIN queue : queue[n].type = "SEResp" /\ queue[n].sid = i
  \/ sess[i].state = "operational"

\* Wherever the answer has got to, the session is at the DF unless DSMF
\* deletes it.
AnswersTrue ==
  SeidsUsable =>
    \A i \in DOMAIN sess :
      Confirmed(i) /\ sess[i].state # "wait_pfcp_deletion" => HasPeer(i)

\* The same for its SEID alone.
AnswersKnown ==
  \A i \in DOMAIN sess :
    Confirmed(i) => \E d \in dfSess : d.seid = sess[i].seid

\* Nothing deletes.
NoDeletion == \A m \in req : m.type = "SEReq"

\* A request stays one of the process's own for as long as the process runs.
LEMMA OwnStays ==
  ASSUME TypeInv, SessionsKept, TransactionsKept, NEW m \in Request, Own(m)
  PROVE  Own(m)'
<1>1. m.inc = inc' /\ m.xid < nextXid' /\ local'[m.xid].seid = m.seid
  BY DEF Own, TransactionsKept, Request, Xid, TypeInv, TypeOK, DsmfTypeOK
<1>2. PICK i \in DOMAIN sess :
        /\ sess[i].seid = m.seid
        /\ m.type = "SEReq" => sess[i].ran = m.ran
        /\ m.type = "SDReq" => sess[i].state = "wait_pfcp_deletion"
  BY DEF Own
<1>3. /\ i \in DOMAIN sess'
      /\ sess'[i].seid = m.seid
      /\ m.type = "SEReq" => sess'[i].ran = m.ran
      /\ m.type = "SDReq" => sess'[i].state = "wait_pfcp_deletion"
  BY <1>2 DEF SessionsKept
<1>. QED
  BY <1>1, <1>3 DEF Own

\* A new request is one of the process's own.
LEMMA NewRequestOwn ==
  ASSUME TypeInv, [Next]_vars, ~restart, NEW m \in req', m \notin req
  PROVE  Own(m)'
<1>1. CASE \E k \in Key, r \in RanInfo : CreateSession(k, r)
  <2>1. /\ TransactionsKept /\ Len(sess) \in Nat
        /\ DOMAIN sess' = 1 .. Len(sess) + 1
        /\ m.inc = inc /\ m.xid = nextXid /\ m.type = "SEReq"
        /\ nextXid \in Xid /\ nextXid' = nextXid + 1
        /\ local'[nextXid].seid = m.seid
        /\ sess'[Len(sess) + 1].seid = m.seid
        /\ sess'[Len(sess) + 1].ran = m.ran
    BY <1>1, CreateSessionKeeps
  <2>2. inc' = inc /\ nextXid < nextXid' /\ Len(sess) + 1 \in DOMAIN sess'
    BY <2>1 DEF TransactionsKept, Xid
  <2>3. m.inc = inc' /\ m.xid < nextXid' /\ local'[m.xid].seid = m.seid
    BY <2>1, <2>2
  <2>. QED
    BY <2>1, <2>2, <2>3 DEF Own
<1>2. CASE \E i \in 1 .. PoolSize :
             sess_modify(i) \/ sess_delete(i) \/ sess_delete_at_once(i)
  <2>1. PICK i \in 1 .. PoolSize :
               sess_modify(i) \/ sess_delete(i) \/ sess_delete_at_once(i)
    BY <1>2
  <2>2. /\ TransactionsKept
        /\ m.inc = inc /\ m.xid = nextXid /\ m.type = "SDReq"
        /\ nextXid \in Xid /\ nextXid' = nextXid + 1
        /\ local'[nextXid].seid = m.seid
        /\ i \in DOMAIN sess' /\ sess'[i].seid = m.seid
        /\ sess'[i].state = "wait_pfcp_deletion"
    BY <2>1, SessApiKeeps, Zenon
  <2>3. m.inc = inc' /\ m.xid < nextXid' /\ local'[m.xid].seid = m.seid
    BY <2>2 DEF TransactionsKept, Xid
  <2>. QED
    BY <2>2, <2>3 DEF Own
<1>3. CASE req' \subseteq req
  BY <1>3
<1>. QED
  BY <1>1, <1>2, <1>3, OnwardSteps DEF recv_response, session_timer,
     handle_event, channelVars, establish, delete

\* A new remote transaction is made for a request in flight; only the one
\* that establishes is answered.
LEMMA NewHeld ==
  ASSUME [Next]_vars, NEW h \in held', h \notin held
  PROVE  /\ h.req \in req
         /\ h.answered => establish(h.req) /\ UNCHANGED dsmfVars
<1>1. CASE \E m \in req : establish(m) /\ UNCHANGED dsmfVars
  <2>1. PICK m \in req : establish(m) /\ UNCHANGED dsmfVars
    BY <1>1
  <2>2. h = [req |-> m, answered |-> TRUE]
    BY <2>1 DEF establish
  <2>3. h.req = m
    BY <2>2
  <2>. QED
    BY <2>1, <2>3
<1>2. CASE \E m \in req : delete(m)
  BY <1>2 DEF delete
<1>3. CASE held' \subseteq held
  BY <1>3
<1>4. CASE DsmfNext
  BY <1>3, <1>4 DEF DsmfNext, gnb_sync, CreateSession, SeidPoolAbort,
     recv_response, recv_duplicate_response, give_up, session_timer,
     sess_modify, sess_delete, sess_delete_at_once, handle_event, restart,
     channelVars
<1>. QED
  BY <1>1, <1>2, <1>3, <1>4 DEF Next, DfNext, SessPoolAbort, forget, vanish,
     vars, channelVars

\* A process that starts when nothing of the last one is left finds no other
\* requests than its own.
LEMMA NextOwnRequests ==
  ASSUME WaitBeforeRestart, TypeInv, OwnRequests, [Next]_vars
  PROVE  OwnRequests'
<1>1. CASE restart
  BY <1>1 DEF restart, channelVars, OwnRequests
<1>2. CASE ~restart
  <2>1. \A m \in Request : Own(m) => Own(m)'
    BY <1>2, OnwardKeeps, OwnStays
  <2>2. \A m \in req : m \in Request
    BY DEF TypeInv, TypeOK, ChannelTypeOK
  <2>3. \A h \in held : h.req \in Request
    BY DEF TypeInv, TypeOK, ChannelTypeOK, Remote
  <2>4. \A m \in req' : Own(m)'
    BY <1>2, <2>1, <2>2, NewRequestOwn DEF OwnRequests
  <2>5. \A h \in held' : Own(h.req)'
    BY <2>1, <2>2, <2>3, NewHeld DEF OwnRequests
  <2>. QED
    BY <2>4, <2>5 DEF OwnRequests
<1>. QED
  BY <1>1, <1>2

\* What is appended to the queue: an event of a session's timer, or one of a
\* response, for the session that the transaction's SEID finds.
LEMMA QueueSteps ==
  ASSUME TypeInv, [Next]_vars, ~restart
  PROVE  \/ queue' = queue
         \/ handle_event /\ queue # <<>> /\ queue' = Tail(queue)
         \/ /\ UNCHANGED <<held, dfSess>> /\ Len(sess') = Len(sess)
            /\ \E e \in Event :
                 /\ queue' = Append(queue, e)
                 /\ e.sid \in 0 .. Len(sess)
                 /\ e.type = "SEResp" =>
                      \/ e.sid = 0
                      \/ /\ e.sid \in DOMAIN sess
                         /\ \E h \in held : /\ h.answered
                                            /\ sess[e.sid].seid
                                                 = local[h.req.xid].seid
<1>1. sess \in Seq(Session) /\ Len(sess) \in Nat /\ DOMAIN sess = 1 .. Len(sess)
  BY SessionList DEF TypeInv, TypeOK, DsmfTypeOK
<1>2. ASSUME NEW x \in Xid, recv_response(x), UNCHANGED dfVars
      PROVE  /\ UNCHANGED <<held, dfSess>> /\ Len(sess') = Len(sess)
             /\ \E e \in Event :
                  /\ queue' = Append(queue, e)
                  /\ e.sid \in 0 .. Len(sess)
                  /\ e.type = "SEResp" =>
                       \/ e.sid = 0
                       \/ /\ e.sid \in DOMAIN sess
                          /\ \E h \in held : /\ h.answered
                                             /\ sess[e.sid].seid
                                                  = local[h.req.xid].seid
  <2>. DEFINE sid == IF local[x].seid = 0 THEN 0 ELSE SessBySeid(local[x].seid)
              e == [type |-> "SEResp", xid |-> x, sid |-> sid]
  <2>1. sid = 0 \/ (sid \in DOMAIN sess /\ sess[sid].seid = local[x].seid)
    BY <1>1, SessBySeidMember
  <2>2. sid \in 0 .. Len(sess)
    BY <1>1, <2>1
  <2>3. e \in Event /\ e.sid = sid
    BY <2>2 DEF Event, Xid
  <2>4. queue' = Append(queue, e) /\ UNCHANGED <<held, sess, dfSess>>
    BY <1>2 DEF recv_response, dfVars
  <2>5. PICK h \in held : h.req.xid = x /\ h.answered
    BY <1>2 DEF recv_response, HasResponse
  <2>. HIDE DEF sid, e
  <2>. QED
    BY <2>1, <2>2, <2>3, <2>4, <2>5
<1>3. ASSUME NEW i \in 1 .. PoolSize, session_timer(i), UNCHANGED dfVars
      PROVE  /\ UNCHANGED <<held, dfSess>> /\ Len(sess') = Len(sess)
             /\ \E e \in Event : /\ queue' = Append(queue, e)
                                 /\ e.sid \in 0 .. Len(sess)
                                 /\ e.type # "SEResp"
  <2>. DEFINE e(t) == [type |-> t, sid |-> i, xid |-> 0]
  <2>1. /\ e("t_deletion") \in Event /\ e("t_establishment") \in Event
        /\ \A t : e(t).sid = i /\ e(t).type = t
    BY DsmfAssumption DEF Event
  <2>2. queue' = Append(queue, e("t_deletion"))
          \/ queue' = Append(queue, e("t_establishment"))
    BY <1>3 DEF session_timer
  <2>3. /\ UNCHANGED <<held, dfSess>> /\ i \in 0 .. Len(sess)
        /\ Len(sess') = Len(sess)
    BY <1>1, <1>3, TimerChanged DEF session_timer, channelVars, dfVars
  <2>. HIDE DEF e
  <2>. QED
    BY <2>1, <2>2, <2>3
<1>4. CASE handle_event
  BY <1>4 DEF handle_event
<1>. QED
  BY <1>2, <1>3, <1>4, OnwardSteps DEF CreateSession, sess_modify, sess_delete,
     sess_delete_at_once, dsmfVars

\* No event names a session that is not there.
LEMMA NextEventsInRange ==
  ASSUME TypeInv, EventsInRange, [Next]_vars
  PROVE  EventsInRange'
<1>1. CASE restart
  BY <1>1 DEF restart, EventsInRange
<1>2. CASE ~restart
  <2>1. Len(sess) \in Nat /\ Len(sess') \in Nat /\ Len(sess) <= Len(sess')
    <3>1. SessionsKept /\ TypeInv'
      BY <1>2, OnwardKeeps, NextType
    <3>2. /\ Len(sess) \in Nat /\ DOMAIN sess = 1 .. Len(sess)
          /\ Len(sess') \in Nat /\ DOMAIN sess' = 1 .. Len(sess')
      BY <3>1, LenProperties DEF TypeInv, TypeOK, DsmfTypeOK
    <3>. QED
      BY <3>1, <3>2 DEF SessionsKept
  <2>2. queue \in Seq(Event) /\ Len(queue) \in Nat /\ DOMAIN queue = 1 .. Len(queue)
    BY LenProperties DEF TypeInv, TypeOK, DsmfTypeOK
  <2>3. CASE queue' = queue
    BY <2>1, <2>3 DEF EventsInRange
  <2>4. CASE queue # <<>> /\ queue' = Tail(queue)
    <3>1. /\ DOMAIN queue' \in SUBSET (1 .. Len(queue) - 1)
          /\ \A n \in DOMAIN queue' :
               n + 1 \in DOMAIN queue /\ queue'[n] = queue[n + 1]
      BY <2>2, <2>4, HeadTailProperties, LenProperties
    <3>. QED
      BY <2>1, <3>1 DEF EventsInRange
  <2>5. ASSUME NEW e \in Event, queue' = Append(queue, e),
               e.sid \in 0 .. Len(sess)
        PROVE  EventsInRange'
    <3>1. /\ DOMAIN queue' = 1 .. Len(queue) + 1
          /\ queue'[Len(queue) + 1] = e
          /\ \A n \in DOMAIN queue : queue'[n] = queue[n]
      BY <2>2, <2>5, AppendProperties, LenProperties
    <3>2. \A n \in DOMAIN queue' : n \in DOMAIN queue \/ n = Len(queue) + 1
      BY <2>2, <3>1
    <3>. QED
      BY <2>1, <2>5, <3>1, <3>2 DEF EventsInRange
  <2>. QED
    BY <1>2, <2>3, <2>4, <2>5, QueueSteps
<1>. QED
  BY <1>1, <1>2

\* df_sess_add never gives an id twice.
LEMMA NextIdsUnique ==
  ASSUME TypeInv, IdsUnique, [Next]_vars
  PROVE  IdsUnique'
<1>. dfNext \in Nat
  BY DEF TypeInv, TypeOK, DfTypeOK
<1>1. CASE \E m \in req : establish(m)
  <2>1. PICK m \in req : establish(m)
    BY <1>1
  <2>. DEFINE new == [id |-> dfNext, seid |-> m.seid, ran |-> m.ran]
  <2>2. dfSess' = dfSess \cup {new} /\ dfNext' = dfNext + 1 /\ new.id = dfNext
    BY <2>1 DEF establish, sess_add
  <2>. HIDE DEF new
  <2>. QED
    BY <2>2 DEF IdsUnique
<1>2. CASE \E m \in req : delete(m)
  BY <1>2 DEF delete, sess_remove, IdsUnique
<1>. QED
  BY <1>1, <1>2, DfSteps DEF IdsUnique

-----------------------------------------------------------------------------
(* Operational sessions exist at the DF. *)

\* A response that is in the queue after a step was there before, or the DF
\* had answered the request of the session it is for.
LEMMA QueuedAnswer ==
  ASSUME TypeInv, OwnRequests, EventsInRange, [Next]_vars, ~restart,
         NEW n \in DOMAIN queue', queue'[n].type = "SEResp", queue'[n].sid # 0
  PROVE  /\ queue'[n].sid \in DOMAIN sess
         /\ \/ \E p \in DOMAIN queue : queue[p] = queue'[n]
            \/ \E h \in held : /\ h.answered
                               /\ h.req.seid = sess[queue'[n].sid].seid
<1>1. /\ queue \in Seq(Event) /\ Len(queue) \in Nat
      /\ DOMAIN queue = 1 .. Len(queue)
      /\ Len(sess) \in Nat /\ DOMAIN sess = 1 .. Len(sess)
  BY LenProperties DEF TypeInv, TypeOK, DsmfTypeOK
<1>2. ASSUME NEW p \in DOMAIN queue, queue[p] = queue'[n]
      PROVE  queue'[n].sid \in DOMAIN sess
  BY <1>1, <1>2 DEF EventsInRange
<1>3. CASE queue' = queue
  BY <1>2, <1>3
<1>4. CASE queue # <<>> /\ queue' = Tail(queue)
  <2>1. n + 1 \in DOMAIN queue /\ queue'[n] = queue[n + 1]
    BY <1>1, <1>4, HeadTailProperties, LenProperties
  <2>. QED
    BY <1>2, <2>1
<1>5. ASSUME NEW e \in Event, queue' = Append(queue, e),
             e.type = "SEResp" =>
               \/ e.sid = 0
               \/ /\ e.sid \in DOMAIN sess
                  /\ \E h \in held : /\ h.answered
                                     /\ sess[e.sid].seid
                                          = local[h.req.xid].seid
      PROVE  /\ queue'[n].sid \in DOMAIN sess
             /\ \/ \E p \in DOMAIN queue : queue[p] = queue'[n]
                \/ \E h \in held : /\ h.answered
                                   /\ h.req.seid = sess[queue'[n].sid].seid
  <2>1. /\ DOMAIN queue' = 1 .. Len(queue) + 1
        /\ queue'[Len(queue) + 1] = e
        /\ \A p \in DOMAIN queue : queue'[p] = queue[p]
    BY <1>1, <1>5, AppendProperties, LenProperties
  <2>2. n \in DOMAIN queue \/ n = Len(queue) + 1
    BY <1>1, <2>1
  <2>3. CASE n \in DOMAIN queue
    BY <1>2, <2>1, <2>3
  <2>4. CASE n = Len(queue) + 1
    <3>1. queue'[n] = e
      BY <2>1, <2>4
    <3>2. PICK h \in held : h.answered /\ sess[e.sid].seid = local[h.req.xid].seid
      BY <1>5, <3>1
    <3>3. local[h.req.xid].seid = h.req.seid
      BY DEF OwnRequests, Own
    <3>. QED
      BY <1>5, <3>1, <3>2, <3>3
  <2>. QED
    BY <2>2, <2>3, <2>4
<1>. QED
  BY <1>3, <1>4, <1>5, QueueSteps

\* A session becomes operational by the response that is next in the queue.
LEMMA NowOperational ==
  ASSUME TypeInv, [Next]_vars, ~restart,
         NEW i \in DOMAIN sess', sess'[i].state = "operational"
  PROVE  /\ i \in DOMAIN sess
         /\ \/ sess[i].state = "operational"
            \/ \E n \in DOMAIN queue : /\ queue[n].type = "SEResp"
                                       /\ queue[n].sid = i
<1>1. sess \in Seq(Session)
  BY DEF TypeInv, TypeOK, DsmfTypeOK
<1>2. CASE UNCHANGED sess
  BY <1>2
<1>3. CASE \E k \in Key, r \in RanInfo : CreateSession(k, r)
  <2>1. /\ Len(sess) \in Nat /\ DOMAIN sess = 1 .. Len(sess)
        /\ DOMAIN sess' = 1 .. Len(sess) + 1
        /\ sess'[Len(sess) + 1].state = "wait_pfcp_establishment"
        /\ \A j \in DOMAIN sess : sess'[j] = sess[j]
    BY <1>3, CreateSessionKeeps
  <2>2. i # Len(sess) + 1
    BY <2>1
  <2>. QED
    BY <2>1, <2>2
<1>4. CASE \E j \in 1 .. PoolSize : session_timer(j)
  BY <1>1, <1>4, TimerChanged DEF session_timer
<1>5. CASE \E j \in 1 .. PoolSize :
             sess_modify(j) \/ sess_delete(j) \/ sess_delete_at_once(j)
  <2>1. DOMAIN sess' = DOMAIN sess /\ \A j \in DOMAIN sess :
          sess'[j].state = "operational" => sess[j].state = "operational"
    BY <1>5, SessApiKeeps, Zenon
  <2>. QED
    BY <2>1
<1>6. CASE handle_event
  <2>1. /\ DOMAIN sess' = DOMAIN sess
        /\ \/ sess[i].state = "operational"
           \/ Head(queue).type = "SEResp" /\ Head(queue).sid = i
    BY <1>6, HandleEventKeeps
  <2>2. 1 \in DOMAIN queue /\ Head(queue) = queue[1]
    BY <1>6, HeadTailProperties, LenProperties, EmptySeq
    DEF handle_event, TypeInv, TypeOK, DsmfTypeOK
  <2>. QED
    BY <2>1, <2>2
<1>. QED
  BY <1>2, <1>3, <1>4, <1>5, <1>6, OnwardSteps DEF recv_response, dsmfVars

\* How a session gets confirmed: it was before, or the DF answers a request
\* with its SEID in this step, or it takes over a SEID that was answered for.
LEMMA NowConfirmed ==
  ASSUME TypeInv, OwnRequests, EventsInRange, [Next]_vars, ~restart,
         NEW i \in DOMAIN sess', Confirmed(i)'
  PROVE  \/ i \in DOMAIN sess /\ Confirmed(i)
         \/ \E m \in req : /\ establish(m) /\ UNCHANGED dsmfVars
                           /\ m.seid = sess'[i].seid
         \/ /\ i \notin DOMAIN sess
            /\ \E h \in held : h.answered /\ h.req.seid = sess'[i].seid
<1>1. CASE sess'[i].state = "operational"
  BY <1>1, NowOperational DEF Confirmed
<1>2. ASSUME NEW n \in DOMAIN queue',
             queue'[n].type = "SEResp", queue'[n].sid = i
      PROVE  i \in DOMAIN sess /\ Confirmed(i)
  <2>1. i # 0
    BY NextType, LenProperties DEF TypeInv, TypeOK, DsmfTypeOK
  <2>. QED
    BY <1>2, <2>1, QueuedAnswer DEF Confirmed
<1>3. ASSUME NEW h \in held', h.answered, h.req.seid = sess'[i].seid
      PROVE  \/ i \in DOMAIN sess /\ Confirmed(i)
             \/ \E m \in req : /\ establish(m) /\ UNCHANGED dsmfVars
                               /\ m.seid = sess'[i].seid
             \/ /\ i \notin DOMAIN sess
                /\ \E g \in held : g.answered /\ g.req.seid = sess'[i].seid
  <2>1. CASE h \notin held
    BY <1>3, <2>1, NewHeld
  <2>2. CASE h \in held /\ i \in DOMAIN sess
    <3>1. sess'[i].seid = sess[i].seid
      BY <2>2, OnwardKeeps DEF SessionsKept
    <3>. QED
      BY <1>3, <2>2, <3>1 DEF Confirmed
  <2>3. CASE h \in held /\ i \notin DOMAIN sess
    BY <1>3, <2>3
  <2>. QED
    BY <2>1, <2>2, <2>3
<1>. QED
  BY <1>1, <1>2, <1>3 DEF Confirmed

\* The session a SEID names has that SEID.
LEMMA NamedSeid ==
  ASSUME TypeInv, NoDanglingRoute, IdsUnique, NEW v \in SeidValue,
         NEW d \in Named(v)
  PROVE  d.seid = v
<1>1. d \in dfSess /\ d.id = seidHash[v] /\ d.id # 0
  BY DEF Named, IdsUnique, TypeInv, TypeOK, DfTypeOK
<1>2. PICK e \in dfSess : e.id = seidHash[v] /\ e.seid = v
  BY <1>1 DEF NoDanglingRoute
<1>. QED
  BY <1>1, <1>2 DEF IdsUnique

\* The DF keeps the session of a DSMF session that is not being deleted: what
\* it deletes has the SEID of one that is.
LEMMA PeerStays ==
  ASSUME TypeInv, NoDanglingRoute, IdsUnique, OwnRequests, SeidsUsable,
         [Next]_vars, ~restart, NEW i \in DOMAIN sess, HasPeer(i),
         sess'[i].state # "wait_pfcp_deletion"
  PROVE  HasPeer(i)'
<1>1. sess'[i].seid = sess[i].seid /\ sess'[i].ran = sess[i].ran
        /\ sess[i].state # "wait_pfcp_deletion"
  BY OnwardKeeps DEF SessionsKept
<1>2. PICK d \in dfSess : d.seid = sess[i].seid /\ d.ran = sess[i].ran
  BY DEF HasPeer
<1>3. d \in dfSess'
  <2>1. CASE \E m \in req : establish(m)
    BY <2>1 DEF establish, sess_add
  <2>2. CASE \E m \in req : delete(m)
    <3>1. PICK m \in req : delete(m)
      BY <2>2
    <3>2. m \in Request /\ m.seid \in SeidValue /\ m.type = "SDReq"
      BY <3>1 DEF delete, TypeInv, TypeOK, ChannelTypeOK, Request
    <3>3. PICK j \in DOMAIN sess : /\ sess[j].seid = m.seid
                                   /\ sess[j].state = "wait_pfcp_deletion"
      BY <3>2 DEF OwnRequests, Own
    <3>4. d.seid # m.seid
      BY <1>1, <1>2, <3>3 DEF SeidsUsable
    <3>5. d \notin Named(m.seid)
      BY <3>2, <3>4, NamedSeid
    <3>. QED
      BY <3>1, <3>5 DEF delete, sess_remove
  <2>. QED
    BY <2>1, <2>2, DfSteps
<1>. QED
  BY <1>1, <1>2, <1>3 DEF HasPeer

\* SEIDs that tell the sessions apart did so before the step.
LEMMA UsableBefore ==
  ASSUME TypeInv, [Next]_vars, ~restart, SeidsUsable'
  PROVE  SeidsUsable
  BY OnwardKeeps DEF SeidsUsable, SessionsKept

\* Every step keeps the answers true.
LEMMA NextAnswersTrue ==
  ASSUME TypeInv, NoDanglingRoute, IdsUnique, OwnRequests, EventsInRange,
         AnswersTrue, [Next]_vars
  PROVE  AnswersTrue'
<1>1. CASE restart
  BY <1>1 DEF restart, AnswersTrue
<1>2. CASE ~restart
  <2>. SUFFICES ASSUME SeidsUsable', NEW i \in DOMAIN sess', Confirmed(i)',
                       sess'[i].state # "wait_pfcp_deletion"
                PROVE  HasPeer(i)'
    BY DEF AnswersTrue
  <2>1. SeidsUsable /\ SessionsKept
    BY <1>2, UsableBefore, OnwardKeeps
  <2>2. CASE i \in DOMAIN sess /\ Confirmed(i)
    <3>1. sess[i].state # "wait_pfcp_deletion"
      BY <2>1, <2>2 DEF SessionsKept
    <3>2. HasPeer(i)
      BY <2>1, <2>2, <3>1 DEF AnswersTrue
    <3>. QED
      BY <1>2, <2>1, <2>2, <3>2, PeerStays
  <2>3. ASSUME NEW m \in req, establish(m), UNCHANGED dsmfVars,
               m.seid = sess'[i].seid
        PROVE  HasPeer(i)'
    <3>1. sess' = sess
      BY <2>3 DEF dsmfVars
    <3>2. PICK j \in DOMAIN sess : sess[j].seid = m.seid /\ sess[j].ran = m.ran
      BY <2>3 DEF OwnRequests, Own, establish
    <3>3. i = j
      BY <2>1, <2>3, <3>1, <3>2 DEF SeidsUsable
    <3>. DEFINE new == [id |-> dfNext, seid |-> m.seid, ran |-> m.ran]
    <3>4. new \in dfSess' /\ new.seid = m.seid /\ new.ran = m.ran
      BY <2>3 DEF establish, sess_add
    <3>. HIDE DEF new
    <3>. QED
      BY <3>1, <3>2, <3>3, <3>4 DEF HasPeer
  <2>4. ASSUME NEW h \in held, h.req.seid = sess'[i].seid, i \notin DOMAIN sess
        PROVE  FALSE
    <3>1. PICK j \in DOMAIN sess : sess[j].seid = h.req.seid
      BY DEF OwnRequests, Own
    <3>2. j \in DOMAIN sess' /\ sess'[j].seid = sess'[i].seid /\ j # i
      BY <2>1, <2>4, <3>1 DEF SessionsKept
    <3>. QED
      BY <3>2 DEF SeidsUsable
  <2>. QED
    BY <1>2, <2>2, <2>3, <2>4, NowConfirmed
<1>. QED
  BY <1>1, <1>2

\* Where the DF keeps all its sessions, it keeps the SEIDs it answered for.
LEMMA NextAnswersKnown ==
  ASSUME TypeInv, OwnRequests, EventsInRange, AnswersKnown, NoDeletion,
         [Next]_vars
  PROVE  AnswersKnown'
<1>1. CASE restart
  BY <1>1 DEF restart, AnswersKnown
<1>2. CASE ~restart
  <2>. SUFFICES ASSUME NEW i \in DOMAIN sess', Confirmed(i)'
                PROVE  \E d \in dfSess' : d.seid = sess'[i].seid
    BY DEF AnswersKnown
  <2>1. SessionsKept
    BY <1>2, OnwardKeeps
  <2>2. dfSess \subseteq dfSess'
    BY DfSteps DEF establish, sess_add, delete, NoDeletion
  <2>3. ASSUME NEW j \in DOMAIN sess, Confirmed(j), sess[j].seid = sess'[i].seid
        PROVE  \E d \in dfSess' : d.seid = sess'[i].seid
    BY <2>2, <2>3 DEF AnswersKnown
  <2>4. CASE i \in DOMAIN sess /\ Confirmed(i)
    BY <2>1, <2>3, <2>4 DEF SessionsKept
  <2>5. ASSUME NEW m \in req, establish(m), m.seid = sess'[i].seid
        PROVE  \E d \in dfSess' : d.seid = sess'[i].seid
    <3>. DEFINE new == [id |-> dfNext, seid |-> m.seid, ran |-> m.ran]
    <3>1. new \in dfSess' /\ new.seid = m.seid
      BY <2>5 DEF establish, sess_add
    <3>. HIDE DEF new
    <3>. QED
      BY <2>5, <3>1
  <2>6. ASSUME NEW h \in held, h.answered, h.req.seid = sess'[i].seid
        PROVE  \E d \in dfSess' : d.seid = sess'[i].seid
    <3>1. PICK j \in DOMAIN sess : sess[j].seid = h.req.seid
      BY DEF OwnRequests, Own
    <3>2. Confirmed(j)
      BY <2>6, <3>1 DEF Confirmed
    <3>. QED
      BY <2>3, <2>6, <3>1, <3>2
  <2>. QED
    BY <1>2, <2>4, <2>5, <2>6, NowConfirmed
<1>. QED
  BY <1>1, <1>2

\* Without dsmf_sess_delete no request deletes.
LEMMA NextNoDeletion ==
  ASSUME ~SessApi, TypeInv, NoDeletion, [Next]_vars
  PROVE  NoDeletion'
<1>1. CASE req' \subseteq req
  BY <1>1 DEF NoDeletion
<1>2. CASE \E k \in Key, r \in RanInfo : CreateSession(k, r)
  <2>1. \A m \in req' : m \in req \/ m.type = "SEReq"
    BY <1>2, CreateSessionKeeps
  <2>. QED
    BY <2>1 DEF NoDeletion
<1>3. CASE \E i \in 1 .. PoolSize :
             sess_modify(i) \/ sess_delete(i) \/ sess_delete_at_once(i)
  BY <1>3, Zenon DEF sess_modify, sess_delete, sess_delete_at_once
<1>4. CASE restart
  BY <1>1, <1>4 DEF restart, channelVars
<1>. QED
  BY <1>1, <1>2, <1>3, <1>4, OnwardSteps DEF recv_response, session_timer,
     handle_event, channelVars, establish, delete

\* All that the proof of AnswersTrue carries along.
AnswersInv == /\ NoDanglingRoute /\ IdsUnique /\ OwnRequests /\ EventsInRange
              /\ AnswersTrue

\* AnswersInv holds in the first state of both processes.
LEMMA InitAnswers ==
  ASSUME Init
  PROVE  AnswersInv /\ AnswersKnown /\ NoDeletion
  BY DEF Init, ChannelInit, DsmfInit, DfInit, AnswersInv, NoDanglingRoute,
     IdsUnique, OwnRequests, EventsInRange, AnswersTrue, AnswersKnown,
     NoDeletion

\* A DSMF that starts when the transactions of the last process are over, and
\* whose sessions have SEIDs of their own, never holds a session operational
\* that the DF does not have with the same SEID and RAN endpoint; through
\* answers delayed in the queue, timeouts that overtake them, repeated reports
\* of a gNB, deletions and restarts (dsmf_sess_add_by_ran_sync,
\* dsmf_dn4_handle_message, df_n4_handle_session_establishment_request).
THEOREM EstablishedSessionsAreReal ==
  ASSUME WaitBeforeRestart
  PROVE  Spec => []EstablishedIfSeidsUsable
<1>1. Init => AnswersInv
  BY InitAnswers
<1>2. TypeInv /\ AnswersInv /\ [Next]_vars => AnswersInv'
  BY NextRoutes, NextIdsUnique, NextOwnRequests, NextEventsInRange,
     NextAnswersTrue DEF AnswersInv
<1>3. AnswersInv => EstablishedIfSeidsUsable
  BY DEF AnswersInv, AnswersTrue, Confirmed, EstablishedIfSeidsUsable,
     EstablishedIsReal, IsOperational
<1>. QED
  BY <1>1, <1>2, <1>3, TypeInvariance, PTL DEF Spec

\* Whatever SEIDs the uninitialised pool yields, equal ones and 0 included:
\* while nothing deletes (nothing in the repository calls dsmf_sess_delete),
\* the DF knows the SEID of every operational session.
THEOREM OperationalSeidsKnown ==
  ASSUME WaitBeforeRestart, ~SessApi
  PROVE  Spec => []OperationalSeidKnown
<1>. DEFINE Inv == AnswersInv /\ AnswersKnown /\ NoDeletion
<1>1. Init => Inv
  BY InitAnswers
<1>2. TypeInv /\ Inv /\ [Next]_vars => Inv'
  BY NextRoutes, NextIdsUnique, NextOwnRequests, NextEventsInRange,
     NextAnswersTrue, NextAnswersKnown, NextNoDeletion DEF AnswersInv
<1>3. Inv => OperationalSeidKnown
  BY DEF AnswersKnown, Confirmed, OperationalSeidKnown, IsOperational
<1>. QED
  BY <1>1, <1>2, <1>3, TypeInvariance, PTL DEF Spec
=============================================================================

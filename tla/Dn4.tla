-------------------------------- MODULE Dn4 ---------------------------------
(***************************************************************************)
(* DSMF and DF together over DN4.                                          *)
(***************************************************************************)
EXTENDS Dsmf, Df

vars == <<channelVars, dsmfVars, dfVars>>

Init == ChannelInit /\ DsmfInit /\ DfInit

\* A request of a process that is gone leaves the network.
vanish(m) == /\ m.inc # inc \/ dsmf = "aborted"
             /\ req' = req \ {m}
             /\ UNCHANGED <<held, dsmfVars, dfVars>>

Next == \/ DsmfNext /\ UNCHANGED dfVars
        \/ DfNext /\ UNCHANGED dsmfVars
        \/ \E m \in req : vanish(m)

Spec == Init /\ [][Next]_vars

\* dsmf_main serves expired timers and empties its queue in every round.
FairSpec == /\ Spec
            /\ WF_vars(handle_event /\ UNCHANGED dfVars)
            /\ \A i \in 1 .. PoolSize :
                 WF_vars(session_timer(i) /\ UNCHANGED dfVars)

-----------------------------------------------------------------------------
(* Properties. *)

\* The kinds of value the variables of the channel, of DSMF and of DF hold; in
\* particular no session is left in wait_ran_sync, where no timer runs and
\* only dsmf_sess_add_by_ran_sync would wake it.
TypeOK == ChannelTypeOK /\ DsmfTypeOK /\ DfTypeOK

\* Sessions i and j can be told apart by DSMF and DF.
SeidsUsable == /\ \A i \in DOMAIN sess : sess[i].seid # 0
               /\ \A i, j \in DOMAIN sess :
                    i # j => sess[i].seid # sess[j].seid

IsOperational(i) == dsmf = "up" /\ sess[i].state = "operational"

\* DF has a session for session i of DSMF: same SEID, same RAN endpoint.
HasPeer(i) == \E d \in dfSess : d.seid = sess[i].seid /\ d.ran = sess[i].ran

\* A session that the state machine holds operational exists at DF, with the
\* RAN endpoint DSMF has for it.
EstablishedIsReal == \A i \in DOMAIN sess : IsOperational(i) => HasPeer(i)

\* The same where no two sessions share a SEID and none is 0.
EstablishedIfSeidsUsable == SeidsUsable => EstablishedIsReal

\* Whatever the SEIDs: DF knows the SEID of an operational session.
OperationalSeidKnown ==
  \A i \in DOMAIN sess :
    IsOperational(i) => \E d \in dfSess : d.seid = sess[i].seid

\* No entry of DF's hashes outlives its session.
NoDanglingRoute ==
  /\ \A t \in Teid : teidHash[t] # 0 => \E d \in RouteOf(t) : d.ran.teid = t
  /\ \A s \in SeidValue : seidHash[s] # 0 =>
       \E d \in dfSess : d.id = seidHash[s] /\ d.seid = s

\* Establishment always ends: with the session operational or in exception.
Waiting(i) == dsmf = "up" /\ i \in DOMAIN sess
              /\ sess[i].state = "wait_pfcp_establishment"
EstablishmentEnds == \A i \in 1 .. PoolSize : Waiting(i) ~> ~Waiting(i)
=============================================================================

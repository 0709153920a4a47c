----------------------------- MODULE Dn4Channel -----------------------------
(***************************************************************************)
(* The DN4 interface between DSMF and DF: the session requests in flight   *)
(* and the remote transactions DF holds.  Retransmission, duplication and  *)
(* loss are those of the transaction layer; what is used of them is what   *)
(* PfcpXact guarantees:                                                    *)
(*   - a request is in flight only while its originator waits for it;      *)
(*   - the responder remembers it for as long as it is in flight, so it is *)
(*     handled at most once;                                               *)
(*   - its response may reach the originator for as long as it is held.    *)
(* A request or a response may always be lost: no step is ever forced.     *)
(***************************************************************************)
EXTENDS Naturals, Sequences, FiniteSets

CONSTANTS Key,          \* gNB id + session id, as the DMF reports them
          RanInfo,      \* RAN F-TEIDs the DMF reports: records [addr, teid]
          NoAddr,       \* an address string that getaddrinfo cannot parse
          SeidValue,    \* values an uninitialised SEID pool node may hold
          MaxXid,       \* bound: transactions of one DSMF process
          MaxInc        \* bound: DSMF processes, one after the other

ASSUME ChannelAssumption == /\ MaxXid \in Nat
                            /\ MaxInc \in Nat \ {0}
                            /\ SeidValue \subseteq Nat
                            /\ \A r \in RanInfo :
                                 r = [addr |-> r.addr, teid |-> r.teid]

Xid == 1 .. MaxXid
NoRan == [addr |-> NoAddr, teid |-> 0]

\* A request: which process sent it in which transaction, for which SEID and,
\* when it establishes, for which RAN endpoint.
Request == [inc : 1 .. MaxInc, xid : Xid, type : {"SEReq", "SDReq"},
            seid : SeidValue, ran : RanInfo \cup {NoRan}]

\* A remote transaction at DF: the request it was made for, and whether its
\* response is stored (step 2) or the handler did not answer (step 1).
Remote == [req : Request, answered : BOOLEAN]

VARIABLES req,          \* requests in flight
          held          \* node->remote_list at DF: at most one for each xid

channelVars == <<req, held>>

\* The kinds of value of the channel variables.
ChannelTypeOK == /\ req \subseteq Request
                 /\ held \subseteq Remote

ChannelInit == /\ req = {}
               /\ held = {}

\* The stored response of x can reach the originator.
HasResponse(x) == \E h \in held : h.req.xid = x /\ h.answered
=============================================================================

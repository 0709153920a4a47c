----------------------------- MODULE DmfProofs ------------------------------
(***************************************************************************)
(* Dmf's safety properties hold for any number of gNBs, reports, restarts  *)
(* and transactions.  The invariant Inv adds to them that a gNB outside    *)
(* the list has no information left (else a later registration would       *)
(* revive it), and where a report may be on its way.                       *)
(***************************************************************************)
EXTENDS Dmf, TLAPS

\* What a step has to preserve besides TypeOK, given that it leaves the gNB
\* list alone.
SameList == UNCHANGED <<gnb_list, ran_info, registered, last>>

\* A step that leaves the gNB list alone preserves what Inv says of it.
LEMMA ListKept ==
  ASSUME Inv, SameList
  PROVE  RanInfoIsLastReport' /\ OnlyRegisteredListed' /\ ForgottenInfo'
  BY DEF Inv, SameList, RanInfoIsLastReport, OnlyRegisteredListed, ForgottenInfo

\* A step that leaves the reports alone preserves what Inv says of them.
LEMMA ForwardingKept ==
  ASSUME Inv, UNCHANGED <<xact, report, received>>
  PROVE  Forwarding'
  BY DEF Inv, Forwarding

\* Init: no gNB is listed and no report was made.
LEMMA InitInv ==
  ASSUME Init
  PROVE  Inv
<1>1. TypeOK
  <2>1. ran_info \in [Gnb -> RanInfo] /\ last \in [Gnb -> Ran \cup {"none"}]
    BY DEF Init, RanInfo, NoInfo
  <2>2. xact \in [ReportNo -> Phase] /\ received \in [ReportNo -> Nat]
    BY DEF Init, Phase
  <2>3. report \in Seq(Report)
    BY DEF Init
  <2>4. crashes \in 0 .. MaxCrash
    BY DmfAssumption DEF Init
  <2>5. chosen \in BOOLEAN /\ dsmfKnown \in BOOLEAN
    BY Zenon DEF Init
  <2>. QED
    BY <2>1, <2>2, <2>3, <2>4, <2>5 DEF Init, TypeOK, NrfState
<1>2. RanInfoIsLastReport /\ OnlyRegisteredListed /\ ForgottenInfo
  BY DEF Init, RanInfoIsLastReport, OnlyRegisteredListed, ForgottenInfo
<1>3. Forwarding
  BY DEF Init, Forwarding, ReportNo
<1>. QED
  BY <1>1, <1>2, <1>3 DEF Inv

\* A registration keeps the record of a listed gNB and starts a new one empty.
LEMMA RegisterInv ==
  ASSUME Inv, NEW g \in Gnb, register(g)
  PROVE  Inv'
<1>1. TypeOK'
  BY DEF Inv, TypeOK, register
<1>2. RanInfoIsLastReport'
  <2>. SUFFICES ASSUME NEW h \in gnb_list', ran_info[h].ran_addr # "none"
                PROVE  ran_info[h] = [ran_addr |-> last'[h], teid |-> last'[h]]
    BY DEF RanInfoIsLastReport, register
  <2>1. h \in gnb_list
    BY DEF Inv, TypeOK, ForgottenInfo, NoInfo, register
  <2>2. last'[h] = last[h]
    BY <2>1 DEF Inv, TypeOK, register
  <2>. QED
    BY <2>1, <2>2 DEF Inv, RanInfoIsLastReport
<1>3. OnlyRegisteredListed' /\ ForgottenInfo'
  BY DEF Inv, OnlyRegisteredListed, ForgottenInfo, register
<1>4. Forwarding'
  BY ForwardingKept DEF register
<1>. QED
  BY <1>1, <1>2, <1>3, <1>4 DEF Inv

\* A de-registration forgets the gNB and its record.
LEMMA DeregisterInv ==
  ASSUME Inv, NEW g \in Gnb, deregister(g)
  PROVE  Inv'
<1>1. TypeOK'
  BY DEF Inv, TypeOK, deregister, RanInfo, NoInfo
<1>2. RanInfoIsLastReport'
  BY DEF Inv, TypeOK, RanInfoIsLastReport, deregister
<1>3. OnlyRegisteredListed' /\ ForgottenInfo'
  BY DEF Inv, TypeOK, OnlyRegisteredListed, ForgottenInfo, deregister
<1>4. Forwarding'
  BY ForwardingKept DEF deregister
<1>. QED
  BY <1>1, <1>2, <1>3, <1>4 DEF Inv

\* A report changes the record of a listed gNB as a whole, and takes the next
\* report number for its transaction.
LEMMA RanReportInv ==
  ASSUME Inv, NEW g \in Gnb, NEW r \in Ran, ran_report(g, r)
  PROVE  Inv'
<1>. DEFINE n == Len(report) + 1
<1>1. n \in ReportNo /\ xact[n] = "none" /\ received[n] = 0
  BY DmfAssumption DEF Inv, TypeOK, Forwarding, ran_report, ReportNo
<1>2. report' \in Seq(Report) /\ Len(report') = n
  BY DEF Inv, TypeOK, ran_report, Report
<1>3. ran_info' \in [Gnb -> RanInfo] /\ last' \in [Gnb -> Ran \cup {"none"}]
  <2>1. CASE g \notin gnb_list
    BY <2>1 DEF Inv, TypeOK, ran_report, update_gnb_ran_info
  <2>2. CASE g \in gnb_list
    <3>1. last' = [last EXCEPT ![g] = r]
      BY <2>2 DEF ran_report, update_gnb_ran_info
    <3>2. CASE r \in BadRan
      <4>1. ran_info' = [ran_info EXCEPT ![g].ran_addr = "none"]
        BY <2>2, <3>2 DEF ran_report, update_gnb_ran_info
      <4>2. ran_info' \in [Gnb -> RanInfo]
        BY <4>1 DEF Inv, TypeOK, RanInfo
      <4>. QED
        BY <3>1, <4>2 DEF Inv, TypeOK
    <3>3. CASE r \notin BadRan
      <4>1. ran_info' = [ran_info EXCEPT ![g] = [ran_addr |-> r, teid |-> r]]
        BY <2>2, <3>3 DEF ran_report, update_gnb_ran_info
      <4>2. ran_info' \in [Gnb -> RanInfo]
        BY <4>1 DEF Inv, TypeOK, RanInfo
      <4>. QED
        BY <3>1, <4>2 DEF Inv, TypeOK
    <3>. QED
      BY <3>2, <3>3
  <2>. QED
    BY <2>1, <2>2
<1>4. xact' \in [ReportNo -> Phase] /\ waiting' \subseteq ReportNo
  BY <1>1 DEF Inv, TypeOK, ran_report, forward_to_dsmf, xact_remove, Phase
<1>5. TypeOK'
  BY <1>2, <1>3, <1>4 DEF Inv, TypeOK, ran_report, update_gnb_ran_info
<1>6. RanInfoIsLastReport'
  <2>. SUFFICES ASSUME NEW h \in gnb_list, ran_info'[h].ran_addr # "none"
                PROVE  ran_info'[h] = [ran_addr |-> last'[h], teid |-> last'[h]]
    BY DEF RanInfoIsLastReport, ran_report, update_gnb_ran_info
  <2>1. CASE g \in gnb_list /\ h = g
    <3>1. r \notin BadRan
      BY <2>1 DEF Inv, TypeOK, RanInfo, ran_report, update_gnb_ran_info
    <3>. QED
      BY <2>1, <3>1 DEF Inv, TypeOK, ran_report, update_gnb_ran_info
  <2>2. CASE ~(g \in gnb_list /\ h = g)
    <3>1. ran_info'[h] = ran_info[h] /\ last'[h] = last[h]
      BY <2>2 DEF Inv, TypeOK, ran_report, update_gnb_ran_info
    <3>. QED
      BY <3>1 DEF Inv, RanInfoIsLastReport
  <2>. QED
    BY <2>1, <2>2
<1>7. OnlyRegisteredListed' /\ ForgottenInfo'
  BY DEF Inv, TypeOK, OnlyRegisteredListed, ForgottenInfo, ran_report,
         update_gnb_ran_info
<1>8. Forwarding'
  <2>. SUFFICES ASSUME NEW i \in ReportNo
                PROVE  /\ received[i] <= 1
                       /\ xact'[i] \in {"discovering", "sent"} => received[i] = 0
                       /\ i > n => xact'[i] = "none" /\ received[i] = 0
    BY <1>2 DEF Forwarding, ran_report
  <2>1. i # n => xact'[i] = xact[i]
    BY DEF Inv, TypeOK, ran_report, forward_to_dsmf, xact_remove
  <2>2. CASE i = n
    BY <1>1, <2>2 DEF Inv, TypeOK
  <2>3. CASE i # n
    <3>1. i > n => i > Len(report)
      BY DEF Inv, TypeOK, ReportNo
    <3>. QED
      BY <2>1, <2>3, <3>1 DEF Inv, Forwarding
  <2>. QED
    BY <2>2, <2>3
<1>. QED
  BY <1>5, <1>6, <1>7, <1>8 DEF Inv

\* Discovery sends, ends or removes the transaction it was made for.
LEMMA NfDiscoverInv ==
  ASSUME Inv, NEW i \in ReportNo, nf_discover(i)
  PROVE  Inv'
<1>1. TypeOK'
  BY DEF Inv, TypeOK, nf_discover, xact_remove, Phase, history
<1>2. RanInfoIsLastReport' /\ OnlyRegisteredListed' /\ ForgottenInfo'
  BY ListKept DEF nf_discover, SameList, history
<1>3. Forwarding'
  BY DEF Inv, TypeOK, Forwarding, nf_discover, xact_remove, history, Phase
<1>. QED
  BY <1>1, <1>2, <1>3 DEF Inv

\* An error ends the transaction.
LEMMA ClientErrorInv ==
  ASSUME Inv, NEW i \in ReportNo, client_error(i)
  PROVE  Inv'
<1>1. TypeOK'
  BY DEF Inv, TypeOK, client_error, Phase, history
<1>2. RanInfoIsLastReport' /\ OnlyRegisteredListed' /\ ForgottenInfo'
  BY ListKept DEF client_error, SameList, history
<1>3. Forwarding'
  BY DEF Inv, TypeOK, Forwarding, client_error, history
<1>. QED
  BY <1>1, <1>2, <1>3 DEF Inv

\* The DSMF receives a request that it has not received before.
LEMMA DsmfReceivesInv ==
  ASSUME Inv, NEW i \in ReportNo, dsmf_receives(i)
  PROVE  Inv'
<1>1. received[i] = 0
  BY DEF Inv, Forwarding, dsmf_receives
<1>2. TypeOK'
  BY <1>1 DEF Inv, TypeOK, dsmf_receives, Phase
<1>3. RanInfoIsLastReport' /\ OnlyRegisteredListed' /\ ForgottenInfo'
  BY ListKept DEF dsmf_receives, SameList
<1>4. Forwarding'
  <2>. SUFFICES ASSUME NEW j \in ReportNo
                PROVE  /\ received'[j] <= 1
                       /\ xact'[j] \in {"discovering", "sent"} => received'[j] = 0
                       /\ j > Len(report) => xact'[j] = "none" /\ received'[j] = 0
    BY DEF Forwarding, dsmf_receives
  <2>1. CASE j = i
    BY <1>1, <2>1 DEF Inv, TypeOK, Forwarding, dsmf_receives
  <2>2. CASE j # i
    BY <2>2 DEF Inv, TypeOK, Forwarding, dsmf_receives
  <2>. QED
    BY <2>1, <2>2
<1>. QED
  BY <1>2, <1>3, <1>4 DEF Inv

\* The timer's expiry, the NRF and the DSMF's registration change neither the
\* list nor the reports.
LEMMA BackgroundInv ==
  ASSUME Inv,
         \/ \E i \in ReportNo : client_wait_expire(i)
         \/ nrf_event
         \/ validity_expire
         \/ dsmf_registers
  PROVE  Inv'
<1>1. TypeOK'
  <2>1. dsmfKnown' \in BOOLEAN /\ chosen' \in BOOLEAN
    BY Zenon DEF Inv, TypeOK, client_wait_expire, nrf_event, validity_expire,
                 dsmf_registers
  <2>2. nrf' \in NrfState /\ dmf' \in {"up", "crashed"}
    BY DEF Inv, TypeOK, client_wait_expire, nrf_event, validity_expire,
           dsmf_registers, NrfState
  <2>. QED
    BY <2>1, <2>2 DEF Inv, TypeOK, client_wait_expire, nrf_event,
                      validity_expire, dsmf_registers, history
<1>2. SameList /\ UNCHANGED <<xact, report, received>>
  BY DEF client_wait_expire, nrf_event, validity_expire, dsmf_registers,
         SameList, history
<1>. QED
  BY <1>1, <1>2, ListKept, ForwardingKept DEF Inv

\* A new process has an empty list; reports keep their numbers.
LEMMA RestartInv ==
  ASSUME Inv, restart
  PROVE  Inv'
<1>1. TypeOK'
  <2>1. ran_info' \in [Gnb -> RanInfo] /\ xact' \in [ReportNo -> Phase]
    BY DEF restart, RanInfo, NoInfo, Phase
  <2>2. crashes' \in 0 .. MaxCrash
    BY DmfAssumption DEF Inv, TypeOK, restart
  <2>3. chosen' \in BOOLEAN /\ dsmfKnown' \in BOOLEAN
    BY Zenon DEF Inv, TypeOK, restart
  <2>. QED
    BY <2>1, <2>2, <2>3 DEF Inv, TypeOK, restart, history, NrfState
<1>2. RanInfoIsLastReport' /\ OnlyRegisteredListed' /\ ForgottenInfo'
  BY DEF RanInfoIsLastReport, OnlyRegisteredListed, ForgottenInfo, restart
<1>3. Forwarding'
  BY DEF Inv, Forwarding, restart, history
<1>. QED
  BY <1>1, <1>2, <1>3 DEF Inv

\* Every step preserves Inv.
LEMMA NextInv ==
  ASSUME Inv, [Next]_vars
  PROVE  Inv'
<1>1. CASE UNCHANGED vars
  <2>1. TypeOK'
    BY <1>1 DEF Inv, TypeOK, vars, history
  <2>2. SameList /\ UNCHANGED <<xact, report, received>>
    BY <1>1 DEF SameList, vars, history
  <2>. QED
    BY <2>1, <2>2, ListKept, ForwardingKept DEF Inv
<1>2. CASE Next
  BY <1>2, RegisterInv, DeregisterInv, RanReportInv, NfDiscoverInv,
     ClientErrorInv, DsmfReceivesInv, BackgroundInv, RestartInv DEF Next
<1>. QED
  BY <1>1, <1>2

\* The invariant, for every value of the constants.
THEOREM Invariant == Spec => []Inv
<1>1. Init => Inv
  BY InitInv
<1>2. Inv /\ [Next]_vars => Inv'
  BY NextInv
<1>. QED
  BY <1>1, <1>2, PTL DEF Spec

\* The kinds of value of the DMF's variables: in particular the address in a gNB's
\* record is one that was reported or none, never one that was freed
\* (dmf_update_gnb_ran_info).
THEOREM TypeCorrect == Spec => []TypeOK
<1>1. Inv => TypeOK
  BY DEF Inv
<1>. QED
  BY <1>1, Invariant, PTL

\* DMF's RAN information is never torn or stale, however often an address
\* fails to parse and however gNBs come and go (dmf_update_gnb_ran_info,
\* dmf_context_remove_gnb).
THEOREM RanInfoCurrent == Spec => []RanInfoIsLastReport
<1>1. Inv => RanInfoIsLastReport
  BY DEF Inv
<1>. QED
  BY <1>1, Invariant, PTL

\* A gNB is listed only while registered, whatever reports come late
\* (dmf_update_gnb_ran_info never creates).
THEOREM ListedIsRegistered == Spec => []OnlyRegisteredListed
<1>1. Inv => OnlyRegisteredListed
  BY DEF Inv
<1>. QED
  BY <1>1, Invariant, PTL

\* No report reaches the DSMF twice, across discoveries and restarts
\* (dmf_forward_to_dsmf, dmf_nnrf_handle_nf_discover).
THEOREM NoDoubleForward == Spec => []ForwardedAtMostOnce
<1>1. Inv => ForwardedAtMostOnce
  BY DEF Inv, Forwarding, ForwardedAtMostOnce
<1>. QED
  BY <1>1, Invariant, PTL
=============================================================================

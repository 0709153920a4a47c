-------------------------------- MODULE Dmf ---------------------------------
(***************************************************************************)
(* The DMF (src/dmf): the list of registered gNBs, the RAN information     *)
(* kept for each, and the forwarding of every RAN report to the DSMF, which*)
(* is found through the NRF.                                               *)
(*                                                                         *)
(* Its inputs are the gnb-sync requests of an SBI client, in any order.    *)
(* Forwarding is asynchronous: the client has its 200 before the DSMF is   *)
(* known, and nothing tells it what became of the report.                  *)
(***************************************************************************)
EXTENDS Naturals, Sequences, FiniteSets

CONSTANTS Gnb,          \* gNB ids, which fit gnb_id[64]: none is truncated
          Ran,          \* what a report carries: session id, address, TEID
          BadRan,       \* the reports whose address inet_pton refuses
          XactPool,     \* ogs_app()->pool.xact
          MaxReport,    \* bound: RAN reports in a behaviour
          MaxCrash      \* bound: restarts

ASSUME DmfAssumption == /\ BadRan \subseteq Ran
                        /\ XactPool \in Nat
                        /\ MaxReport \in Nat
                        /\ MaxCrash \in Nat

VARIABLES
  dmf,        \* "up" or "crashed"
  crashes,    \* how often it crashed
  nrf,        \* state of nrf_instance->sm
  gnb_list,   \* the gNBs in the list
  ran_info,   \* the RAN information of each of them
  xact,       \* _dmf_self.sbi.xact_list: the transaction of each report
  waiting,    \* the transactions whose timer t_response runs
  chosen,     \* whether service_type_array holds a DSMF instance
  dsmfKnown,  \* whether the NRF knows a DSMF
  report,     \* history: the RAN reports answered with 200, in order
  received,   \* history: how often the DSMF received each report
  registered, \* history: gNBs whose last register / deregister registered
  last        \* history: the last report for a listed gNB since it was added

history == <<report, received, registered, last>>
vars == <<dmf, crashes, nrf, gnb_list, ran_info, xact, waiting, chosen,
          dsmfKnown, history>>

\* The address, as the report that carried it, and the report the TEID and
\* the session id come from; "none" before the first.
RanInfo == [ran_addr : Ran \cup {"none"}, teid : Ran \cup {"none"}]
NoInfo == [ran_addr |-> "none", teid |-> "none"]

\* none: no transaction.  discovering: the NRF is asked.  sent: the request is
\* on its way to the DSMF.  over: nothing more happens, but the transaction is
\* still there.
Phase == {"none", "discovering", "sent", "over"}
NrfState == {"will_register", "registered", "exception", "de_registered"}
Report == [gnb : Gnb, ran : Ran]
ReportNo == 1 .. MaxReport

Init ==
  /\ dmf = "up"
  /\ crashes = 0
  /\ nrf = "will_register"
  /\ gnb_list = {}
  /\ ran_info = [g \in Gnb |-> NoInfo]
  /\ xact = [i \in ReportNo |-> "none"]
  /\ waiting = {}
  /\ chosen = FALSE
  /\ dsmfKnown \in BOOLEAN
  /\ report = <<>>
  /\ received = [i \in ReportNo |-> 0]
  /\ registered = {}
  /\ last = [g \in Gnb |-> "none"]

-----------------------------------------------------------------------------
(* The gNB list. *)

\* A register request without session: dmf_context_add_gnb keeps the record
\* of a gNB that is in the list.
register(g) ==
  /\ dmf = "up"
  /\ registered' = registered \cup {g}
  /\ gnb_list' = gnb_list \cup {g}
  /\ last' = IF g \in gnb_list THEN last ELSE [last EXCEPT ![g] = "none"]
  /\ UNCHANGED <<dmf, crashes, nrf, ran_info, xact, waiting, chosen, dsmfKnown,
                 report, received>>

\* Mutant: the RAN information outlives the gNB.
deregister_KeepInfo(g) ==
  /\ dmf = "up"
  /\ registered' = registered \ {g}
  /\ gnb_list' = gnb_list \ {g}
  /\ UNCHANGED <<dmf, crashes, nrf, ran_info, xact, waiting, chosen, dsmfKnown,
                 report, received, last>>

\* dmf_context_remove_gnb.  The DSMF is not told.
deregister(g) ==
  /\ dmf = "up"
  /\ registered' = registered \ {g}
  /\ gnb_list' = gnb_list \ {g}
  /\ ran_info' = [ran_info EXCEPT ![g] = NoInfo]
  /\ UNCHANGED <<dmf, crashes, nrf, xact, waiting, chosen, dsmfKnown,
                 report, received, last>>

\* Mutant: an unknown gNB is created.
update_gnb_ran_info_Create(g, r) ==
  /\ gnb_list' = gnb_list \cup {g}
  /\ ran_info' = [ran_info EXCEPT ![g] = [ran_addr |-> r, teid |-> r]]
  /\ last' = [last EXCEPT ![g] = r]

\* Mutant: the address is freed and the pointer to it kept.
update_gnb_ran_info_Dangling(g, r) ==
  /\ UNCHANGED gnb_list
  /\ IF g \notin gnb_list
     THEN UNCHANGED <<ran_info, last>>
     ELSE /\ last' = [last EXCEPT ![g] = r]
          /\ ran_info' = IF r \in BadRan
                         THEN [ran_info EXCEPT ![g].ran_addr = "freed"]
                         ELSE [ran_info EXCEPT ![g] =
                                 [ran_addr |-> r, teid |-> r]]

\* dmf_update_gnb_ran_info: a gNB that is not in the list is not created.  The
\* old address is freed first; TEID and session id are only written once the
\* new address is parsed.
update_gnb_ran_info(g, r) ==
  /\ UNCHANGED gnb_list
  /\ IF g \notin gnb_list
     THEN UNCHANGED <<ran_info, last>>
     ELSE /\ last' = [last EXCEPT ![g] = r]
          /\ ran_info' = IF r \in BadRan
                         THEN [ran_info EXCEPT ![g].ran_addr = "none"]
                         ELSE [ran_info EXCEPT ![g] =
                                 [ran_addr |-> r, teid |-> r]]

-----------------------------------------------------------------------------
(* Forwarding. *)

\* ogs_sbi_xact_remove, when a request cannot be sent.  Nothing else removes a
\* transaction or stops its timer.
xact_remove(i) == /\ xact' = [xact EXCEPT ![i] = "none"]
                  /\ waiting' = waiting \ {i}

\* dmf_forward_to_dsmf of report i: without a free transaction nothing is
\* sent; a known DSMF gets the request, otherwise the NRF is asked for one.
\* The transaction is removed again when neither can be sent to.
forward_to_dsmf(i) ==
  IF Cardinality({j \in ReportNo : xact[j] # "none"}) >= XactPool
  THEN UNCHANGED <<xact, waiting>>
  ELSE \/ /\ xact' = [xact EXCEPT ![i] = IF chosen THEN "sent"
                                                  ELSE "discovering"]
          /\ waiting' = waiting \cup {i}
       \/ xact_remove(i)

\* A register request with session and address: the record is updated if
\* there is one, 200 is sent, and the report is forwarded in any case.
ran_report(g, r) ==
  /\ dmf = "up"
  /\ Len(report) < MaxReport
  /\ update_gnb_ran_info(g, r)
  /\ report' = Append(report, [gnb |-> g, ran |-> r])
  /\ forward_to_dsmf(Len(report) + 1)
  /\ UNCHANGED <<dmf, crashes, nrf, chosen, dsmfKnown, received, registered>>

\* Mutant: one answer sends every transaction that is there.
nf_discover_All(i) ==
  /\ dmf = "up"
  /\ xact[i] = "discovering"
  /\ chosen' = (chosen \/ dsmfKnown)
  /\ xact' = IF chosen'
             THEN [j \in ReportNo |-> IF xact[j] = "none" THEN "none"
                                                          ELSE "sent"]
             ELSE [xact EXCEPT ![i] = "over"]
  /\ UNCHANGED <<dmf, crashes, nrf, gnb_list, ran_info, waiting,
                 dsmfKnown, history>>

\* dmf_nnrf_handle_nf_discover: the NRF's answer to the discovery of report
\* i.  With a DSMF, the request is sent, or the transaction removed if it cannot
\* be; without, the transaction stays and is never tried again.
nf_discover(i) ==
  /\ dmf = "up"
  /\ xact[i] = "discovering"
  /\ chosen' = (chosen \/ dsmfKnown)
  /\ \/ /\ xact' = [xact EXCEPT ![i] = IF chosen' THEN "sent" ELSE "over"]
        /\ UNCHANGED waiting
     \/ chosen' /\ xact_remove(i)
  /\ UNCHANGED <<dmf, crashes, nrf, gnb_list, ran_info, dsmfKnown, history>>

\* ogs_sbi_client_handler with an error: the NRF or the DSMF did not answer.
\* The DMF only logs.
client_error(i) ==
  /\ dmf = "up"
  /\ xact[i] \in {"discovering", "sent"}
  /\ xact' = [xact EXCEPT ![i] = "over"]
  /\ UNCHANGED <<dmf, crashes, nrf, gnb_list, ran_info, waiting, chosen,
                 dsmfKnown, history>>

\* The DSMF receives the request of report i; its answer is ignored.
dsmf_receives(i) ==
  /\ xact[i] = "sent"
  /\ xact' = [xact EXCEPT ![i] = "over"]
  /\ received' = [received EXCEPT ![i] = @ + 1]
  /\ UNCHANGED <<dmf, crashes, nrf, gnb_list, ran_info, waiting, chosen,
                 dsmfKnown, report, registered, last>>

\* ogs_timer_sbi_client_wait_expire: the DMF hands every SBI timer to the
\* state machine of the NRF instance, which takes the event's data, here a
\* transaction id, for a pointer to an NF instance and reads through it,
\* whatever its state.
client_wait_expire(i) ==
  /\ dmf = "up"
  /\ i \in waiting
  /\ waiting' = waiting \ {i}
  /\ dmf' = "crashed"
  /\ UNCHANGED <<crashes, nrf, gnb_list, ran_info, xact, chosen,
                 dsmfKnown, history>>

-----------------------------------------------------------------------------
(* The NRF, and the process. *)

\* The NRF instance's own events: the registration is accepted or refused; a
\* heartbeat is missing, or the retry timer expires, and it starts again; the
\* NRF answers a heartbeat with an error.
NrfStep == {<<"will_register", "registered">>, <<"will_register", "exception">>,
            <<"registered", "will_register">>, <<"registered", "exception">>,
            <<"exception", "will_register">>}

nrf_event == /\ dmf = "up"
             /\ \E state \in NrfState : /\ <<nrf, state>> \in NrfStep
                                        /\ nrf' = state
             /\ UNCHANGED <<dmf, crashes, gnb_list, ran_info, xact, waiting,
                            chosen, dsmfKnown, history>>

\* t_validity of the discovered DSMF instance, handed to the state machine of
\* the NRF instance as well: registered removes the DSMF instance and leaves
\* the NRF instance in de_registered for good; will_register asserts that the
\* instance is the NRF.  The other states ignore it.
validity_expire ==
  /\ dmf = "up"
  /\ chosen
  /\ \/ /\ nrf = "registered"
        /\ chosen' = FALSE
        /\ nrf' = "de_registered"
        /\ UNCHANGED dmf
     \/ /\ nrf = "will_register"
        /\ dmf' = "crashed"
        /\ UNCHANGED <<chosen, nrf>>
  /\ UNCHANGED <<crashes, gnb_list, ran_info, xact, waiting, dsmfKnown, history>>

\* A DSMF registers with the NRF, or leaves it.
dsmf_registers == /\ dsmfKnown' = ~dsmfKnown
                  /\ UNCHANGED <<dmf, crashes, nrf, gnb_list, ran_info, xact,
                                 waiting, chosen, history>>

\* A new process: nothing is persistent.
restart == /\ dmf = "crashed"
           /\ crashes < MaxCrash
           /\ crashes' = crashes + 1
           /\ dmf' = "up"
           /\ nrf' = "will_register"
           /\ gnb_list' = {}
           /\ ran_info' = [g \in Gnb |-> NoInfo]
           /\ xact' = [i \in ReportNo |-> "none"]
           /\ waiting' = {}
           /\ chosen' = FALSE
           /\ UNCHANGED <<dsmfKnown, history>>

Next == \/ \E g \in Gnb : \/ register(g)
                          \/ deregister(g)
                          \/ \E r \in Ran : ran_report(g, r)
        \/ \E i \in ReportNo : \/ nf_discover(i)
                               \/ client_error(i)
                               \/ dsmf_receives(i)
                               \/ client_wait_expire(i)
        \/ nrf_event
        \/ validity_expire
        \/ dsmf_registers
        \/ restart

Spec == Init /\ [][Next]_vars

-----------------------------------------------------------------------------
(* Properties. *)

\* The kinds of value each variable holds: the address of a listed gNB, in
\* particular, is NULL or one that was parsed, never one that was freed.
TypeOK ==
  /\ dmf \in {"up", "crashed"}
  /\ crashes \in 0 .. MaxCrash
  /\ nrf \in NrfState
  /\ gnb_list \subseteq Gnb
  /\ ran_info \in [Gnb -> RanInfo]
  /\ xact \in [ReportNo -> Phase]
  /\ waiting \subseteq ReportNo
  /\ chosen \in BOOLEAN
  /\ dsmfKnown \in BOOLEAN
  /\ report \in Seq(Report)
  /\ received \in [ReportNo -> Nat]
  /\ registered \subseteq Gnb
  /\ last \in [Gnb -> Ran \cup {"none"}]

\* The RAN information of a gNB is never torn and never stale: while it has an
\* address, address, TEID and session are those of the last report for it
\* (dmf_update_gnb_ran_info fails half-way when the address does not parse).
RanInfoIsLastReport ==
  \A g \in gnb_list : ran_info[g].ran_addr # "none" =>
    ran_info[g] = [ran_addr |-> last[g], teid |-> last[g]]

\* However registrations, reports and de-registrations interleave, a gNB is in
\* the list only while it is registered (dmf_update_gnb_ran_info finds a gNB
\* and does not create one).
OnlyRegisteredListed == gnb_list \subseteq registered

\* The DSMF receives a report at most once, whether it was known when the
\* report came or had to be discovered (ogs_sbi_discover_and_send and
\* dmf_nnrf_handle_nf_discover both send).
ForwardedAtMostOnce == \A i \in ReportNo : received[i] <= 1

\* A gNB outside the list has no RAN information left.
ForgottenInfo == \A g \in Gnb \ gnb_list : ran_info[g] = NoInfo

\* A report that is still to be sent has not been received, and one that is
\* still to come has no transaction.
Forwarding ==
  \A i \in ReportNo :
    /\ received[i] <= 1
    /\ xact[i] \in {"discovering", "sent"} => received[i] = 0
    /\ i > Len(report) => xact[i] = "none" /\ received[i] = 0

\* The inductive invariant behind the safety properties above.
Inv == /\ TypeOK
       /\ RanInfoIsLastReport
       /\ OnlyRegisteredListed
       /\ ForgottenInfo
       /\ Forwarding

\* The DMF manages the registrations: a gNB that was registered, and not
\* de-registered since, is in the list of a running DMF.
RegistrationLasts ==
  dmf = "up" => registered \subseteq gnb_list
=============================================================================

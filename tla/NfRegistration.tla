--------------------------- MODULE NfRegistration ---------------------------
(***************************************************************************)
(* Registration of a network function with the NRF: the NF registers,      *)
(* retries, sends heartbeats and registers again (lib/sbi/nf-sm.c); the    *)
(* NRF keeps the instances and removes those it does not hear of           *)
(* (src/nrf/nf-sm.c, nrf-sm.c).  A process that starts has a new instance  *)
(* id.  Requests reach the NRF in any order; there they wait in its event  *)
(* queue, among the events of its timers.                                  *)
(*                                                                         *)
(* Time passes in ticks.  A timer counts down to 0 and then expires before *)
(* the next tick; what is under way arrives within a tick, unless it is    *)
(* delayed, which is a fault.                                              *)
(***************************************************************************)
EXTENDS Integers, Sequences, Bags

CONSTANTS Interval,   \* time.heartbeat_interval, in ticks
          Margin,     \* no_heartbeat_margin
          Reconnect,  \* reconnect_interval
          Retry,      \* reconnect_interval_in_exception
          MaxFault    \* bound: losses, delays, ends of processes

ASSUME NfAssumption == /\ {Interval, Margin, Reconnect, Retry} \subseteq Nat \ {0}
                       /\ MaxFault \in Nat

VARIABLES
  nf,       \* the NF process and its state machine for the NRF
  inst,     \* the instances the NRF has registered
  timer,    \* t_no_heartbeat of each of them
  queue,    \* the NRF's event queue
  wire,     \* HTTP requests (status 0) and responses under way
  faults,   \* how many faults there were
  gap       \* ticks, delays apart, since the NF is registered without the
            \* NRF knowing it

vars == <<nf, inst, timer, queue, wire, faults, gap>>

Id == 1 .. MaxFault + 1
Off == -1
Time == Off .. Interval + Margin + Reconnect + Retry
Method == {"PUT", "PATCH", "DELETE"}
Event == [what : Method \cup {"timer"}, id : Id]
Http == [method : Method, id : Id, status : {0, 200, 201, 204, 404}]

Request(m, i) == [method |-> m, id |-> i, status |-> 0]
Sent(m) == wire (+) SetToBag({Request(m, nf.id)})
Without(x) == wire (-) SetToBag({x})

\* The NF takes itself for registered and the NRF does not know it.
Unknown == nf.st = "registered" /\ nf.id \notin inst
Watch == gap' = IF Unknown' THEN gap ELSE 0

-----------------------------------------------------------------------------
(* The NF. *)

\* Mutant: the registration is not tried again.
WillRegister_Once == [nf EXCEPT !.st = "will_register", !.reg = Off,
                                !.hb = Off, !.nohb = Off]

\* Into will_register, exception and registered, after the EXIT of the state
\* before: reg, hb and nohb are t_registration_interval,
\* t_heartbeat_interval and t_no_heartbeat.
WillRegister == [nf EXCEPT !.st = "will_register", !.reg = Reconnect,
                           !.hb = Off, !.nohb = Off]
Exception == [nf EXCEPT !.st = "exception", !.reg = Retry,
                        !.hb = Off, !.nohb = Off]
Registered == [nf EXCEPT !.st = "registered", !.reg = Off,
                         !.hb = Interval, !.nohb = Interval + Margin]

Init ==
  /\ nf = [id |-> 1, st |-> "will_register", reg |-> Reconnect,
           hb |-> Off, nohb |-> Off]
  /\ inst = {}
  /\ timer = [i \in Id |-> Off]
  /\ queue = <<>>
  /\ wire = SetToBag({Request("PUT", 1)})
  /\ faults = 0
  /\ gap = 0

\* t_registration_interval, in either state in which it runs.
registration_interval ==
  /\ nf.reg = 0
  /\ nf' = WillRegister
  /\ wire' = Sent("PUT")
  /\ UNCHANGED <<inst, timer, queue, faults, gap>>

heartbeat_interval ==
  /\ nf.hb = 0
  /\ nf' = [nf EXCEPT !.hb = Interval]
  /\ wire' = Sent("PATCH")
  /\ UNCHANGED <<inst, timer, queue, faults, gap>>

no_heartbeat ==
  /\ nf.nohb = 0
  /\ nf' = WillRegister
  /\ wire' = Sent("PUT")
  /\ UNCHANGED <<inst, timer, queue, faults>>
  /\ Watch

\* Mutant: an error is left to the next heartbeat.
AfterResponse_Tolerant(x) ==
  IF nf.st = "will_register"
  THEN IF x.status \in {200, 201} THEN Registered ELSE Exception
  ELSE IF nf.st = "registered" /\ x.method = "PATCH"
  THEN [nf EXCEPT !.nohb = Interval + Margin]
  ELSE nf

\* A NF that will register takes any response for that to its registration;
\* one that is registered has no use for a response to PUT, and one in
\* exception for none at all.
AfterResponse(x) ==
  IF nf.st = "will_register"
  THEN IF x.status \in {200, 201} THEN Registered ELSE Exception
  ELSE IF nf.st = "registered" /\ x.method = "PATCH"
  THEN IF x.status \in {200, 204} THEN [nf EXCEPT !.nohb = Interval + Margin]
       ELSE Exception
  ELSE nf

nf_response(x) ==
  /\ x.status # 0
  /\ nf' = AfterResponse(x)
  /\ wire' = Without(x)
  /\ UNCHANGED <<inst, timer, queue, faults>>
  /\ Watch

\* The process ends: responses find nobody.  ogs_sbi_nf_fsm_fini de-registers
\* what is registered, if it is given the time.
nf_stop ==
  /\ nf.st # "down" /\ faults < MaxFault
  /\ faults' = faults + 1
  /\ nf' = [nf EXCEPT !.st = "down", !.reg = Off, !.hb = Off, !.nohb = Off]
  /\ LET sent == {x \in BagToSet(wire) : x.status = 0}
         left == [x \in sent |-> wire[x]]
     IN  \/ wire' = left
         \/ /\ nf.st = "registered"
            /\ wire' = left (+) SetToBag({Request("DELETE", nf.id)})
  /\ UNCHANGED <<inst, timer, queue>>
  /\ Watch

nf_start ==
  /\ nf.st = "down"
  /\ nf' = [id |-> nf.id + 1, st |-> "will_register", reg |-> Reconnect,
            hb |-> Off, nohb |-> Off]
  /\ wire' = wire (+) SetToBag({Request("PUT", nf.id + 1)})
  /\ UNCHANGED <<inst, timer, queue, faults, gap>>

-----------------------------------------------------------------------------
(* The NRF. *)

nrf_receive(x) ==
  /\ x.status = 0
  /\ queue' = Append(queue, [what |-> x.method, id |-> x.id])
  /\ wire' = Without(x)
  /\ UNCHANGED <<nf, inst, timer, faults, gap>>

nrf_timer(i) ==
  /\ timer[i] = 0
  /\ timer' = [timer EXCEPT ![i] = Off]
  /\ queue' = Append(queue, [what |-> "timer", id |-> i])
  /\ UNCHANGED <<nf, inst, wire, faults, gap>>

\* A response to a process that is gone is not delivered.
Reply(e, status) ==
  wire' = IF e.id = nf.id /\ nf.st # "down"
          THEN wire (+) SetToBag({[method |-> e.what, id |-> e.id,
                                   status |-> status]})
          ELSE wire

\* Mutant: the NRF waits for one interval, without the margin.
nrf_register_NoMargin(e) ==
  /\ e.what = "PUT"
  /\ Reply(e, IF e.id \in inst THEN 200 ELSE 201)
  /\ inst' = inst \cup {e.id}
  /\ timer' = [timer EXCEPT ![e.id] = Interval]

\* PUT creates the instance, or replaces its profile.
nrf_register(e) ==
  /\ e.what = "PUT"
  /\ Reply(e, IF e.id \in inst THEN 200 ELSE 201)
  /\ inst' = inst \cup {e.id}
  /\ timer' = [timer EXCEPT ![e.id] = Interval + Margin]

\* Mutant: a heartbeat extends the time that is left.
nrf_update_Extend(e) ==
  /\ e.what = "PATCH" /\ e.id \in inst
  /\ Reply(e, 204)
  /\ timer' = [timer EXCEPT ![e.id] = @ + Interval + Margin]
  /\ UNCHANGED inst

\* PATCH, the heartbeat.
nrf_update(e) ==
  /\ e.what = "PATCH" /\ e.id \in inst
  /\ Reply(e, 204)
  /\ timer' = [timer EXCEPT ![e.id] = Interval + Margin]
  /\ UNCHANGED inst

nrf_not_found(e) ==
  /\ e.what \in {"PATCH", "DELETE"} /\ e.id \notin inst
  /\ Reply(e, 404)
  /\ UNCHANGED <<inst, timer>>

nrf_deregister(e) ==
  /\ e.what = "DELETE" /\ e.id \in inst
  /\ Reply(e, 204)
  /\ inst' = inst \ {e.id}
  /\ timer' = [timer EXCEPT ![e.id] = Off]

\* Mutant: the event is ignored.
nrf_no_heartbeat_Ignored(e) ==
  /\ e.what = "timer" /\ e.id \in inst
  /\ UNCHANGED <<inst, timer, wire>>

\* NRF_TIMER_NF_INSTANCE_NO_HEARTBEAT removes the instance, whatever has been
\* heard of it since the timer expired.
nrf_no_heartbeat(e) ==
  /\ e.what = "timer" /\ e.id \in inst
  /\ inst' = inst \ {e.id}
  /\ timer' = [timer EXCEPT ![e.id] = Off]
  /\ UNCHANGED wire

nrf_event ==
  /\ queue # <<>>
  /\ queue' = Tail(queue)
  /\ UNCHANGED <<nf, faults>>
  /\ LET e == Head(queue)
     IN  \/ nrf_register(e) \/ nrf_update(e) \/ nrf_not_found(e)
         \/ nrf_deregister(e) \/ nrf_no_heartbeat(e)
  /\ Watch

\* The NRF process is replaced by a new one, and its connections are reset.
NewNrf == /\ inst' = {}
          /\ timer' = [i \in Id |-> Off]
          /\ queue' = <<>>
          /\ wire' = [x \in {y \in BagToSet(wire) : y.status # 0} |-> wire[x]]

\* The event of the timer outlived the instance, which DELETE has removed: the
\* NRF works on memory that it has released, and goes on or aborts.
nrf_stale_timer ==
  /\ queue # <<>> /\ Head(queue).what = "timer" /\ Head(queue).id \notin inst
  /\ \/ NewNrf
     \/ queue' = Tail(queue) /\ UNCHANGED <<inst, timer, wire>>
  /\ UNCHANGED <<nf, faults, gap>>

nrf_restart ==
  /\ faults < MaxFault
  /\ faults' = faults + 1
  /\ NewNrf
  /\ UNCHANGED <<nf, gap>>

-----------------------------------------------------------------------------
(* The network and time. *)

lose(x) ==
  /\ faults < MaxFault
  /\ faults' = faults + 1
  /\ wire' = Without(x)
  /\ UNCHANGED <<nf, inst, timer, queue, gap>>

Less(t) == IF t > 0 THEN t - 1 ELSE t

\* Nothing is due; what is still under way then is delayed.
tick ==
  /\ 0 \notin {nf.reg, nf.hb, nf.nohb}
  /\ \A i \in Id : timer[i] # 0
  /\ IF wire = EmptyBag /\ queue = <<>>
     THEN /\ gap' = IF Unknown THEN gap + 1 ELSE 0
          /\ UNCHANGED faults
     ELSE /\ faults < MaxFault
          /\ faults' = faults + 1
          /\ UNCHANGED gap
  /\ nf' = [nf EXCEPT !.reg = Less(@), !.hb = Less(@), !.nohb = Less(@)]
  /\ timer' = [i \in Id |-> Less(timer[i])]
  /\ UNCHANGED <<inst, queue, wire>>

nf_timers == registration_interval \/ heartbeat_interval \/ no_heartbeat

Next == \/ registration_interval \/ heartbeat_interval \/ no_heartbeat
        \/ nf_stop \/ nf_start
        \/ \E x \in BagToSet(wire) : nf_response(x) \/ nrf_receive(x) \/ lose(x)
        \/ \E i \in Id : nrf_timer(i)
        \/ nrf_event \/ nrf_stale_timer \/ nrf_restart
        \/ tick

Spec == Init /\ [][Next]_vars

deliver == \E x \in BagToSet(wire) : nf_response(x) \/ nrf_receive(x)

\* Every process goes on and is started again, messages arrive, time passes.
FairSpec == /\ Spec
            /\ WF_vars(nf_timers) /\ WF_vars(nf_start)
            /\ WF_vars(deliver)
            /\ \A i \in Id : WF_vars(nrf_timer(i))
            /\ WF_vars(nrf_event \/ nrf_stale_timer)
            /\ WF_vars(tick)

-----------------------------------------------------------------------------
(* Properties. *)

\* The kinds of value of the variables: no timer runs longer than it is set.
TypeOK == /\ nf \in [id : Id, reg : Time, hb : Time, nohb : Time,
                     st : {"down", "will_register", "registered", "exception"}]
          /\ inst \subseteq Id
          /\ timer \in [Id -> Time]
          /\ queue \in Seq(Event)
          /\ IsABag(wire) /\ BagToSet(wire) \subseteq Http
          /\ faults \in 0 .. MaxFault
          /\ gap \in Nat

\* As long as nothing goes wrong, heartbeats come in time: no timer removes an
\* NF that is registered.
HeartbeatsInTime == faults = 0 => ~Unknown

\* The NF takes itself for registered while the NRF does not know it - after
\* a restart of the NRF, or when its timer expired just before a heartbeat or
\* a registration arrived - for a bounded time only.
GapBounded == gap <= Interval + Margin

\* When the faults are over, the NF is registered, with both, and stays so.
StaysRegistered == <>[](nf.st = "registered" /\ nf.id \in inst)

\* The NRF does not keep an instance whose process is gone.
DeadRemoved == \A i \in Id : (i \in inst /\ nf.id # i) ~> i \notin inst
=============================================================================

------------------------ MODULE NfRegistrationProofs ------------------------
(***************************************************************************)
(* The registration of an NF with the NRF, for any intervals, any margin   *)
(* and any number of faults: types, the heartbeats of a run without faults *)
(* and how long NF and NRF can disagree.                                   *)
(***************************************************************************)
EXTENDS NfRegistration, DataLemmas, SequenceTheorems

-----------------------------------------------------------------------------
(* Types. *)

\* Every process but the first was started after the end of another.
TypeInv == /\ TypeOK
           /\ nf.id <= faults + 1
           /\ nf.st = "down" => nf.id <= faults

\* The timers that are set, those that run down, and the ids.
LEMMA Times ==
  /\ Interval \in Nat \ {0} /\ Margin \in Nat \ {0}
  /\ Reconnect \in Nat \ {0} /\ Retry \in Nat \ {0} /\ MaxFault \in Nat
  /\ {Off, Interval, Interval + Margin, Reconnect, Retry} \subseteq Time
  /\ \A t \in Time : Less(t) \in Time
  BY NfAssumption DEF Time, Off, Less

\* A request of the NF or an answer of the NRF is added.
LEMMA WireAdd ==
  ASSUME TypeOK, NEW x \in Http, wire' = wire (+) SetToBag({x})
  PROVE  IsABag(wire') /\ BagToSet(wire') = BagToSet(wire) \cup {x}
                       /\ BagToSet(wire') \subseteq Http
  BY BagAdd DEF TypeOK

\* A message has arrived or is lost.
LEMMA WireTake ==
  ASSUME TypeOK, NEW x, wire' = Without(x)
  PROVE  IsABag(wire') /\ BagToSet(wire') \subseteq BagToSet(wire)
                       /\ BagToSet(wire') \subseteq Http
  BY BagTake DEF TypeOK, Without

\* What the NRF does with the wire: an answer for the process that runs.
LEMMA ReplyWire ==
  ASSUME TypeOK, NEW e \in Event, e.what # "timer",
         NEW s \in {200, 201, 204, 404}, Reply(e, s)
  PROVE  /\ IsABag(wire') /\ BagToSet(wire') \subseteq Http
         /\ \A y \in BagToSet(wire') : y \in BagToSet(wire) \/
              /\ e.id = nf.id /\ nf.st # "down"
              /\ y.id = e.id /\ y.method = e.what /\ y.status = s
<1>. DEFINE x == [method |-> e.what, id |-> e.id, status |-> s]
<1>1. x \in Http /\ x.id = e.id /\ x.method = e.what /\ x.status = s
  BY DEF Http, Event
<1>2. CASE e.id = nf.id /\ nf.st # "down"
  <2>1. wire' = wire (+) SetToBag({x})
    BY <1>2 DEF Reply
  <2>. HIDE DEF x
  <2>. QED
    BY <1>1, <1>2, <2>1, WireAdd
<1>3. CASE ~(e.id = nf.id /\ nf.st # "down")
  BY <1>3 DEF Reply, TypeOK
<1>. QED
  BY <1>2, <1>3

\* A NF goes into one of the states of its machine, or only its heartbeat or
\* the watch over it is set.
LEMMA NfStates ==
  ASSUME TypeOK
  PROVE  LET N == [id : Id, reg : Time, hb : Time, nohb : Time,
                   st : {"down", "will_register", "registered", "exception"}]
         IN  /\ \A f \in {WillRegister, Exception, Registered,
                          [nf EXCEPT !.hb = Interval],
                          [nf EXCEPT !.nohb = Interval + Margin],
                          [nf EXCEPT !.st = "down", !.reg = Off, !.hb = Off,
                                     !.nohb = Off],
                          [nf EXCEPT !.reg = Less(@), !.hb = Less(@),
                                     !.nohb = Less(@)]} :
                  f \in N /\ f.id = nf.id
             /\ WillRegister.st = "will_register"
             /\ Exception.st = "exception"
             /\ Registered.st = "registered"
<1>. DEFINE N == [id : Id, reg : Time, hb : Time, nohb : Time,
                  st : {"down", "will_register", "registered", "exception"}]
<1>1. nf \in N
  BY DEF TypeOK
<1>2. /\ WillRegister \in N /\ WillRegister.id = nf.id
      /\ WillRegister.st = "will_register"
  BY <1>1, Times DEF WillRegister
<1>3. /\ Exception \in N /\ Exception.id = nf.id /\ Exception.st = "exception"
  BY <1>1, Times DEF Exception
<1>4. /\ Registered \in N /\ Registered.id = nf.id
      /\ Registered.st = "registered"
  BY <1>1, Times DEF Registered
<1>5. \A f \in {[nf EXCEPT !.hb = Interval],
               [nf EXCEPT !.nohb = Interval + Margin],
               [nf EXCEPT !.st = "down", !.reg = Off, !.hb = Off,
                          !.nohb = Off]} : f \in N /\ f.id = nf.id
  BY <1>1, Times
<1>6. LET f == [nf EXCEPT !.reg = Less(@), !.hb = Less(@), !.nohb = Less(@)]
      IN  f \in N /\ f.id = nf.id
  BY <1>1, Times
<1>. HIDE DEF N
<1>7. \A f \in {WillRegister, Exception, Registered,
               [nf EXCEPT !.hb = Interval],
               [nf EXCEPT !.nohb = Interval + Margin],
               [nf EXCEPT !.st = "down", !.reg = Off, !.hb = Off,
                          !.nohb = Off],
               [nf EXCEPT !.reg = Less(@), !.hb = Less(@),
                          !.nohb = Less(@)]} :
        f \in N /\ f.id = nf.id
  BY <1>2, <1>3, <1>4, <1>5, <1>6, Zenon
<1>. QED
  BY <1>2, <1>3, <1>4, <1>7 DEF N

\* What a response does to the NF.
LEMMA AfterResponseCases ==
  ASSUME TypeOK, NEW x
  PROVE  \/ AfterResponse(x) = nf
         \/ nf.st # "down" /\ AfterResponse(x) \in {Registered, Exception}
         \/ /\ nf.st = "registered" /\ x.method = "PATCH"
            /\ x.status \in {200, 204}
            /\ AfterResponse(x) = [nf EXCEPT !.nohb = Interval + Margin]
  BY DEF AfterResponse

\* Watch counts on from a number.
LEMMA WatchType ==
  ASSUME TypeOK, Watch
  PROVE  gap' \in Nat
  BY DEF Watch, TypeOK

\* The steps of the NF.
LEMMA NfType ==
  ASSUME TypeInv,
         registration_interval \/ heartbeat_interval \/ no_heartbeat
           \/ nf_stop \/ nf_start \/ \E x \in BagToSet(wire) : nf_response(x)
  PROVE  TypeInv'
<1>. USE DEF TypeInv
<1>1. Request("PUT", nf.id) \in Http /\ Request("PATCH", nf.id) \in Http
        /\ Request("DELETE", nf.id) \in Http
  BY DEF TypeOK, Request, Http, Method
<1>2. CASE registration_interval
  BY <1>1, <1>2, WireAdd, NfStates DEF registration_interval, Sent, TypeOK
<1>3. CASE heartbeat_interval
  <2>1. nf.st = [nf EXCEPT !.hb = Interval].st
    BY DEF TypeOK
  <2>. QED
    BY <1>1, <1>3, <2>1, WireAdd, NfStates DEF heartbeat_interval, Sent, TypeOK
<1>4. CASE no_heartbeat
  BY <1>1, <1>4, WireAdd, NfStates, WatchType DEF no_heartbeat, Sent, TypeOK
<1>5. CASE nf_stop
  <2>. DEFINE sent == {x \in BagToSet(wire) : x.status = 0}
              left == [x \in sent |-> wire[x]]
  <2>1. IsABag(left) /\ BagToSet(left) = sent /\ sent \subseteq Http
    BY BagKeep DEF TypeOK
  <2>2. \/ wire' = left
        \/ wire' = left (+) SetToBag({Request("DELETE", nf.id)})
    BY <1>5 DEF nf_stop
  <2>3. /\ faults' = faults + 1 /\ faults' <= MaxFault
        /\ nf' = [nf EXCEPT !.st = "down", !.reg = Off, !.hb = Off, !.nohb = Off]
        /\ UNCHANGED <<inst, timer, queue>> /\ Watch
    BY <1>5, Times DEF nf_stop, TypeOK
  <2>. HIDE DEF left, sent
  <2>4. IsABag(wire') /\ BagToSet(wire') \subseteq Http
    BY <1>1, <2>1, <2>2, BagAdd
  <2>5. nf'.id = nf.id
    BY <2>3, NfStates
  <2>6. nf' \in [id : Id, reg : Time, hb : Time, nohb : Time,
                 st : {"down", "will_register", "registered", "exception"}]
    BY <2>3, NfStates
  <2>7. nf'.id <= faults' /\ nf'.id <= faults' + 1 /\ faults' \in 0 .. MaxFault
    BY <2>3, <2>5, Times DEF TypeOK, Id
  <2>8. gap' \in Nat
    BY <2>3, WatchType
  <2>. QED
    BY <2>3, <2>4, <2>6, <2>7, <2>8 DEF TypeOK
<1>6. CASE nf_start
  <2>1. nf.id + 1 \in Id /\ nf.id + 1 <= faults + 1
    BY <1>6, Times DEF nf_start, TypeOK, Id
  <2>2. Request("PUT", nf.id + 1) \in Http
    BY <2>1 DEF Request, Http, Method
  <2>. QED
    BY <1>6, <2>1, <2>2, WireAdd, Times DEF nf_start, TypeOK
<1>7. ASSUME NEW x \in BagToSet(wire), nf_response(x)
      PROVE  TypeInv'
  <2>1. nf' \in [id : Id, reg : Time, hb : Time, nohb : Time,
                 st : {"down", "will_register", "registered", "exception"}]
          /\ nf'.id = nf.id /\ (nf'.st = "down" => nf.st = "down")
    <3>1. nf'= AfterResponse(x)
      BY <1>7 DEF nf_response
    <3>2. [nf EXCEPT !.nohb = Interval + Margin].st = nf.st
      BY DEF TypeOK
    <3>. QED
      BY <3>1, <3>2, AfterResponseCases, NfStates DEF TypeOK
  <2>. QED
    BY <1>7, <2>1, WireTake, WatchType DEF nf_response, TypeOK
<1>. QED
  BY <1>2, <1>3, <1>4, <1>5, <1>6, <1>7

\* What the NRF does with the event next in its queue.
LEMMA EventType ==
  ASSUME TypeInv, queue # <<>>, NEW e, e = Head(queue),
         nrf_register(e) \/ nrf_update(e) \/ nrf_not_found(e)
           \/ nrf_deregister(e) \/ nrf_no_heartbeat(e)
  PROVE  /\ e \in Event
         /\ inst' \subseteq Id /\ timer' \in [Id -> Time]
         /\ IsABag(wire') /\ BagToSet(wire') \subseteq Http
         /\ \A y \in BagToSet(wire') : y \in BagToSet(wire) \/
              /\ e.id = nf.id /\ nf.st # "down" /\ y.id = nf.id
              /\ y.method = e.what /\ y.status \in {200, 201, 204, 404}
              /\ e.what = "PATCH" /\ y.status # 404 => e.id \in inst
<1>1. TypeOK
  BY DEF TypeInv
<1>2. e \in Event /\ e.id \in Id
  <2>1. e \in Event
    BY <1>1, HeadTailProperties DEF TypeOK
  <2>. QED
    BY <2>1 DEF Event
<1>3. inst' \subseteq Id
  BY <1>1, <1>2 DEF TypeOK, nrf_register, nrf_update, nrf_not_found,
     nrf_deregister, nrf_no_heartbeat
<1>4. timer' \in [Id -> Time]
  BY <1>1, <1>2, Times DEF TypeOK, nrf_register, nrf_update, nrf_not_found,
     nrf_deregister, nrf_no_heartbeat
<1>5. CASE nrf_no_heartbeat(e)
  BY <1>1, <1>2, <1>3, <1>4, <1>5 DEF nrf_no_heartbeat, TypeOK
<1>6. ASSUME NEW s \in {200, 201, 204, 404}, e.what # "timer", Reply(e, s),
             e.what = "PATCH" /\ s # 404 => e.id \in inst
      PROVE  /\ IsABag(wire') /\ BagToSet(wire') \subseteq Http
             /\ \A y \in BagToSet(wire') : y \in BagToSet(wire) \/
                  /\ e.id = nf.id /\ nf.st # "down" /\ y.id = nf.id
                  /\ y.method = e.what /\ y.status \in {200, 201, 204, 404}
                  /\ e.what = "PATCH" /\ y.status # 404 => e.id \in inst
  BY <1>1, <1>2, <1>6, ReplyWire
<1>7. CASE ~nrf_no_heartbeat(e)
  <2>1. \E s \in {200, 201, 204, 404} :
          /\ e.what # "timer" /\ Reply(e, s)
          /\ e.what = "PATCH" /\ s # 404 => e.id \in inst
    BY <1>7 DEF nrf_register, nrf_update, nrf_not_found, nrf_deregister
  <2>. QED
    BY <1>2, <1>3, <1>4, <1>6, <2>1
<1>. QED
  BY <1>5, <1>7

\* The steps of the NRF, of the network and of time.
LEMMA NrfType ==
  ASSUME TypeInv,
         \/ \E x \in BagToSet(wire) : nrf_receive(x) \/ lose(x)
         \/ \E i \in Id : nrf_timer(i)
         \/ nrf_event \/ nrf_stale_timer \/ nrf_restart \/ tick
  PROVE  TypeInv'
<1>. USE DEF TypeInv
<1>1. ASSUME NEW x \in BagToSet(wire), nrf_receive(x)
      PROVE  TypeInv'
  <2>1. [what |-> x.method, id |-> x.id] \in Event
    BY DEF TypeOK, Http, Event
  <2>2. queue' \in Seq(Event)
    BY <1>1, <2>1, AppendProperties DEF nrf_receive, TypeOK
  <2>. QED
    BY <1>1, <2>2, WireTake DEF nrf_receive, TypeOK
<1>2. ASSUME NEW x \in BagToSet(wire), lose(x)
      PROVE  TypeInv'
  BY <1>2, WireTake, Times DEF lose, TypeOK, Id
<1>3. ASSUME NEW i \in Id, nrf_timer(i)
      PROVE  TypeInv'
  <2>1. [what |-> "timer", id |-> i] \in Event
    BY DEF Event
  <2>2. queue' \in Seq(Event)
    BY <1>3, <2>1, AppendProperties DEF nrf_timer, TypeOK
  <2>3. timer' \in [Id -> Time]
    BY <1>3, Times DEF nrf_timer, TypeOK
  <2>. QED
    BY <1>3, <2>2, <2>3 DEF nrf_timer, TypeOK
<1>4. CASE nrf_event
  <2>1. queue' \in Seq(Event)
    BY <1>4, HeadTailProperties DEF nrf_event, TypeOK
  <2>. QED
    BY <1>4, <2>1, EventType, WatchType DEF nrf_event, TypeOK
<1>5. ASSUME NewNrf
      PROVE  /\ inst' \subseteq Id /\ timer' \in [Id -> Time]
             /\ queue' \in Seq(Event)
             /\ IsABag(wire') /\ BagToSet(wire') \subseteq Http
  <2>. DEFINE S == {y \in BagToSet(wire) : y.status # 0}
  <2>1. wire' = [x \in S |-> wire[x]]
    BY <1>5 DEF NewNrf
  <2>2. S \subseteq BagToSet(wire) /\ S \subseteq Http
    BY DEF TypeOK
  <2>. HIDE DEF S
  <2>3. IsABag(wire') /\ BagToSet(wire') \subseteq Http
    BY <2>1, <2>2, BagKeep DEF TypeOK
  <2>. QED
    BY <1>5, <2>3, Times DEF NewNrf
<1>6. CASE nrf_stale_timer
  <2>1. Tail(queue) \in Seq(Event)
    BY <1>6, HeadTailProperties DEF nrf_stale_timer, TypeOK
  <2>. QED
    BY <1>5, <1>6, <2>1 DEF nrf_stale_timer, TypeOK
<1>7. CASE nrf_restart
  BY <1>5, <1>7, Times DEF nrf_restart, TypeOK, Id
<1>8. CASE tick
  <2>1. nf' \in [id : Id, reg : Time, hb : Time, nohb : Time,
                 st : {"down", "will_register", "registered", "exception"}]
          /\ nf'.id = nf.id /\ nf'.st = nf.st
    BY <1>8, NfStates DEF tick, TypeOK
  <2>2. timer' \in [Id -> Time]
    BY <1>8, Times DEF tick, TypeOK
  <2>3. gap' \in Nat /\ faults' \in 0 .. MaxFault /\ faults' >= faults
    BY <1>8, Times DEF tick, TypeOK
  <2>. QED
    BY <1>8, <2>1, <2>2, <2>3 DEF tick, TypeOK, Id
<1>. QED
  BY <1>1, <1>2, <1>3, <1>4, <1>6, <1>7, <1>8

\* Init: the first process and its first request.
LEMMA InitType ==
  ASSUME Init
  PROVE  TypeInv
<1>1. 1 \in Id
  BY Times DEF Id
<1>2. Request("PUT", 1) \in Http
  BY <1>1 DEF Request, Http, Method
<1>3. IsABag(wire) /\ BagToSet(wire) \subseteq Http
  BY <1>2, BagOfSet DEF Init
<1>4. nf \in [id : Id, reg : Time, hb : Time, nohb : Time,
              st : {"down", "will_register", "registered", "exception"}]
        /\ nf.id = 1 /\ nf.st # "down"
  BY <1>1, Times DEF Init
<1>5. inst \subseteq Id /\ timer \in [Id -> Time] /\ queue \in Seq(Event)
        /\ faults = 0 /\ faults \in 0 .. MaxFault /\ gap \in Nat
  BY Times DEF Init
<1>. QED
  BY <1>3, <1>4, <1>5 DEF TypeInv, TypeOK

\* Every step preserves the types.
LEMMA NextType ==
  ASSUME TypeInv, [Next]_vars
  PROVE  TypeInv'
<1>1. CASE UNCHANGED vars
  BY <1>1 DEF vars, TypeInv, TypeOK
<1>. QED
  BY <1>1, NfType, NrfType DEF Next

\* The types, with the number of processes.
THEOREM TypeInvariance == Spec => []TypeInv
<1>1. Init => TypeInv
  BY InitType
<1>2. TypeInv /\ [Next]_vars => TypeInv'
  BY NextType
<1>. QED
  BY <1>1, <1>2, PTL DEF Spec

\* No timer of the NF or of the NRF runs longer than it is set, the NF's state
\* machine rests in no other state, and each process that is started finds an
\* instance id of its own among as many as faults allow (lib/sbi/nf-sm.c,
\* src/nrf/nf-sm.c).
THEOREM TypeCorrect == Spec => []TypeOK
<1>1. TypeInv => TypeOK
  BY DEF TypeInv
<1>. QED
  BY <1>1, TypeInvariance, PTL

-----------------------------------------------------------------------------
(* How long NF and NRF can disagree. *)

\* A response is under way for the process that runs only.
ForTheRunning ==
  \A x \in BagToSet(wire) : x.status # 0 => x.id = nf.id /\ nf.st # "down"

\* A registered NF does not try to register, and watches its heartbeats.
Watched == nf.st = "registered" => /\ nf.reg = Off
                                   /\ nf.nohb \in 0 .. Interval + Margin

\* Neither a registration of the NF nor an answer to its heartbeat is under
\* way.
NothingHelps ==
  /\ \A x \in BagToSet(wire) :
       /\ x.id = nf.id /\ x.method = "PUT" => x.status # 0
       /\ x.method = "PATCH" => x.status \notin {200, 204}
  /\ \A n \in DOMAIN queue : queue[n].id = nf.id => queue[n].what # "PUT"

\* Since the count began, nothing has set the NF's t_no_heartbeat, and nothing
\* is there that would.
GapCounted == gap > 0 => /\ Unknown /\ NothingHelps
                         /\ nf.nohb + gap <= Interval + Margin

GapInv == ForTheRunning /\ Watched /\ GapCounted


\* A step that leaves the NF and the count alone, and adds to the wire nothing
\* but answers for it and to the queue no registration of it, if the count
\* has begun.
LEMMA GapFrame ==
  ASSUME TypeInv, GapInv, UNCHANGED nf, gap' \in {0, gap},
         gap' # 0 => nf.id \notin inst',
         \A y \in BagToSet(wire') : y \in BagToSet(wire) \/
           /\ y.status # 0 /\ y.id = nf.id /\ nf.st # "down"
           /\ gap > 0 /\ y.method = "PATCH" => y.status \notin {200, 204},
         gap > 0 => \A n \in DOMAIN queue' :
           queue'[n].id = nf.id => queue'[n].what # "PUT"
  PROVE  GapInv'
<1>1. ForTheRunning' /\ Watched'
  BY DEF GapInv, ForTheRunning, Watched
<1>2. ASSUME gap' > 0
      PROVE  GapCounted'
  <2>1. gap' = gap /\ gap > 0
    BY <1>2
  <2>2. Unknown' /\ nf'.nohb + gap' <= Interval + Margin
    BY <1>2, <2>1 DEF GapInv, GapCounted, Unknown
  <2>3. NothingHelps'
    BY <2>1 DEF GapInv, GapCounted, NothingHelps
  <2>. QED
    BY <2>2, <2>3 DEF GapCounted
<1>. QED
  BY <1>1, <1>2 DEF GapInv, GapCounted

\* A step that ends the count, or does not begin one.
LEMMA GapClosed ==
  ASSUME gap' = 0, ForTheRunning', Watched'
  PROVE  GapInv'
  BY DEF GapInv, GapCounted

\* Where the NF is not registered, nothing is counted.
LEMMA NoGap ==
  ASSUME TypeInv, GapInv, ~Unknown
  PROVE  gap = 0
  BY DEF GapInv, GapCounted, TypeInv, TypeOK

\* The fields of the NF in the states it goes into.
LEMMA NfFields ==
  ASSUME TypeInv
  PROVE  /\ \A f \in {WillRegister, Exception, Registered} : f.id = nf.id
         /\ WillRegister.st = "will_register" /\ Exception.st = "exception"
         /\ Registered.st = "registered" /\ Registered.reg = Off
         /\ Registered.nohb = Interval + Margin
  BY DEF TypeInv, TypeOK, WillRegister, Exception, Registered

\* The timers of the NF.
LEMMA NfTimersGap ==
  ASSUME TypeInv, GapInv, nf_timers
  PROVE  GapInv'
<1>1. TypeOK
  BY DEF TypeInv
<1>2. ASSUME NEW m \in {"PUT", "PATCH"}, wire' = Sent(m)
      PROVE  BagToSet(wire') = BagToSet(wire) \cup {Request(m, nf.id)}
               /\ Request(m, nf.id).status = 0
               /\ Request(m, nf.id).method = m
  BY <1>1, <1>2, BagAdd DEF Sent, TypeOK, Request
<1>3. CASE registration_interval
  <2>1. nf.reg = 0 /\ nf' = WillRegister /\ wire' = Sent("PUT") /\ gap' = gap
    BY <1>3 DEF registration_interval
  <2>2. nf.st # "registered"
    BY <2>1 DEF GapInv, Watched, Off
  <2>3. gap = 0
    BY <2>2, NoGap DEF Unknown
  <2>4. ForTheRunning'
    BY <1>2, <2>1, NfFields DEF GapInv, ForTheRunning
  <2>5. Watched'
    BY <2>1, NfFields DEF Watched
  <2>. QED
    BY <2>1, <2>3, <2>4, <2>5, GapClosed
<1>4. CASE no_heartbeat
  <2>1. nf' = WillRegister /\ wire' = Sent("PUT") /\ Watch
    BY <1>4 DEF no_heartbeat
  <2>2. gap' = 0
    BY <2>1, NfFields DEF Watch, Unknown
  <2>3. ForTheRunning'
    BY <1>2, <2>1, NfFields DEF GapInv, ForTheRunning
  <2>4. Watched'
    BY <2>1, NfFields DEF Watched
  <2>. QED
    BY <2>2, <2>3, <2>4, GapClosed
<1>5. CASE heartbeat_interval
  <2>1. wire' = Sent("PATCH") /\ UNCHANGED <<gap, inst, queue>>
    BY <1>5 DEF heartbeat_interval
  <2>2. nf'.id = nf.id /\ nf'.st = nf.st /\ nf'.reg = nf.reg
          /\ nf'.nohb = nf.nohb
    BY <1>1, <1>5 DEF heartbeat_interval, TypeOK
  <2>3. ForTheRunning'
    BY <1>2, <2>1, <2>2 DEF GapInv, ForTheRunning
  <2>4. Watched'
    BY <2>2 DEF GapInv, Watched
  <2>5. NothingHelps => NothingHelps'
    BY <1>2, <2>1, <2>2 DEF NothingHelps
  <2>6. GapCounted'
    BY <2>1, <2>2, <2>5 DEF GapInv, GapCounted, Unknown
  <2>. QED
    BY <2>3, <2>4, <2>6 DEF GapInv
<1>. QED
  BY <1>3, <1>4, <1>5 DEF nf_timers

\* A response reaches the NF.
LEMMA ResponseGap ==
  ASSUME TypeInv, GapInv, NEW x \in BagToSet(wire), nf_response(x)
  PROVE  GapInv'
<1>1. TypeOK
  BY DEF TypeInv
<1>2. /\ x.status # 0 /\ nf' = AfterResponse(x) /\ Watch
      /\ UNCHANGED <<inst, queue>>
      /\ BagToSet(wire') \subseteq BagToSet(wire)
  BY <1>1, WireTake DEF nf_response
<1>3. x.id = nf.id /\ nf.st # "down"
  BY <1>2 DEF GapInv, ForTheRunning
<1>4. CASE nf' = nf
  <2>1. gap' \in {0, gap} /\ (gap' # 0 => nf.id \notin inst')
    BY <1>2, <1>4 DEF Watch, Unknown
  <2>2. gap > 0 => \A n \in DOMAIN queue' :
          queue'[n].id = nf.id => queue'[n].what # "PUT"
    BY <1>2 DEF GapInv, GapCounted, NothingHelps
  <2>. QED
    BY <1>2, <1>4, <2>1, <2>2, GapFrame
<1>5. CASE nf' \in {Registered, Exception} /\ nf.st # "registered"
  <2>1. gap = 0
    BY <1>5, NoGap DEF Unknown
  <2>2. gap' = 0
    BY <1>2, <2>1 DEF Watch
  <2>3. ForTheRunning'
    BY <1>2, <1>5, NfFields DEF GapInv, ForTheRunning
  <2>4. Watched'
    BY <1>5, NfFields, Times DEF Watched
  <2>. QED
    BY <2>2, <2>3, <2>4, GapClosed
<1>6. CASE nf' = Exception
  <2>1. gap' = 0
    BY <1>2, <1>6, NfFields DEF Watch, Unknown
  <2>2. ForTheRunning'
    BY <1>2, <1>6, NfFields DEF GapInv, ForTheRunning
  <2>3. Watched'
    BY <1>6, NfFields DEF Watched
  <2>. QED
    BY <2>1, <2>2, <2>3, GapClosed
<1>7. CASE /\ nf.st = "registered" /\ x.method = "PATCH"
           /\ x.status \in {200, 204}
           /\ nf' = [nf EXCEPT !.nohb = Interval + Margin]
  <2>1. gap = 0
    BY <1>1, <1>7 DEF GapInv, GapCounted, NothingHelps, TypeOK
  <2>2. gap' = 0
    BY <1>2, <2>1 DEF Watch
  <2>3. nf'.id = nf.id /\ nf'.st = nf.st /\ nf'.reg = nf.reg
          /\ nf'.nohb = Interval + Margin
    BY <1>1, <1>7 DEF TypeOK
  <2>4. ForTheRunning'
    BY <1>2, <2>3 DEF GapInv, ForTheRunning
  <2>5. Watched'
    BY <2>3, Times DEF GapInv, Watched
  <2>. QED
    BY <2>2, <2>4, <2>5, GapClosed
<1>. QED
  BY <1>2, <1>4, <1>5, <1>6, <1>7 DEF AfterResponse

\* A process of the NF ends, another starts.
LEMMA ProcessGap ==
  ASSUME TypeInv, GapInv, nf_stop \/ nf_start
  PROVE  GapInv'
<1>1. TypeOK
  BY DEF TypeInv
<1>2. CASE nf_stop
  <2>. DEFINE sent == {x \in BagToSet(wire) : x.status = 0}
              left == [x \in sent |-> wire[x]]
  <2>1. IsABag(left) /\ BagToSet(left) = sent
    BY <1>1, BagKeep DEF TypeOK
  <2>2. \/ wire' = left
        \/ wire' = left (+) SetToBag({Request("DELETE", nf.id)})
    BY <1>2 DEF nf_stop
  <2>3. \A x \in sent : x.status = 0
    OBVIOUS
  <2>. HIDE DEF left, sent
  <2>4. \A x \in BagToSet(wire') : x.status = 0
    <3>1. Request("DELETE", nf.id).status = 0
      BY DEF Request
    <3>2. BagToSet(wire') \subseteq sent \cup {Request("DELETE", nf.id)}
      BY <2>1, <2>2, BagAdd
    <3>. QED
      BY <2>3, <3>1, <3>2
  <2>5. nf'.st = "down" /\ Watch
    BY <1>1, <1>2 DEF nf_stop, TypeOK
  <2>6. gap' = 0 /\ ForTheRunning' /\ Watched'
    BY <2>4, <2>5 DEF Watch, Unknown, ForTheRunning, Watched
  <2>. QED
    BY <2>6, GapClosed
<1>3. CASE nf_start
  <2>1. gap = 0 /\ gap' = 0
    BY <1>3, NoGap DEF nf_start, Unknown
  <2>2. BagToSet(wire') = BagToSet(wire) \cup {Request("PUT", nf.id + 1)}
    BY <1>1, <1>3, BagAdd DEF nf_start, TypeOK
  <2>3. \A x \in BagToSet(wire') : x.status = 0
    <3>1. Request("PUT", nf.id + 1).status = 0
      BY DEF Request
    <3>2. \A x \in BagToSet(wire) : x.status = 0
      BY <1>3 DEF nf_start, GapInv, ForTheRunning
    <3>. QED
      BY <2>2, <3>1, <3>2
  <2>4. ForTheRunning' /\ Watched'
    BY <1>3, <2>3 DEF nf_start, ForTheRunning, Watched
  <2>. QED
    BY <2>1, <2>4, GapClosed
<1>. QED
  BY <1>2, <1>3

\* What is appended to the queue, and what is taken from it.
LEMMA QueueFacts ==
  ASSUME TypeOK
  PROVE  /\ Len(queue) \in Nat /\ DOMAIN queue = 1 .. Len(queue)
         /\ \A e \in Event : queue' = Append(queue, e) =>
              \A n \in DOMAIN queue' :
                queue'[n] = e \/ (n \in DOMAIN queue /\ queue'[n] = queue[n])
         /\ queue # <<>> => /\ 1 \in DOMAIN queue /\ Head(queue) = queue[1]
                            /\ queue' = Tail(queue) =>
                                 \A n \in DOMAIN queue' :
                                   n + 1 \in DOMAIN queue
                                     /\ queue'[n] = queue[n + 1]
<1>1. queue \in Seq(Event) /\ Len(queue) \in Nat /\ DOMAIN queue = 1 .. Len(queue)
  BY LenProperties DEF TypeOK
<1>2. ASSUME NEW e \in Event, queue' = Append(queue, e), NEW n \in DOMAIN queue'
      PROVE  queue'[n] = e \/ (n \in DOMAIN queue /\ queue'[n] = queue[n])
  <2>1. /\ DOMAIN queue' = 1 .. Len(queue) + 1
        /\ queue'[Len(queue) + 1] = e
        /\ \A j \in DOMAIN queue : queue'[j] = queue[j]
    BY <1>1, <1>2, AppendProperties, LenProperties
  <2>2. n \in DOMAIN queue \/ n = Len(queue) + 1
    BY <1>1, <2>1
  <2>. QED
    BY <2>1, <2>2
<1>3. ASSUME queue # <<>>
      PROVE  1 \in DOMAIN queue /\ Head(queue) = queue[1]
  BY <1>1, <1>3, HeadTailProperties, EmptySeq
<1>4. ASSUME queue # <<>>, queue' = Tail(queue), NEW n \in DOMAIN queue'
      PROVE  n + 1 \in DOMAIN queue /\ queue'[n] = queue[n + 1]
  BY <1>1, <1>4, HeadTailProperties, LenProperties
<1>. QED
  BY <1>1, <1>2, <1>3, <1>4

\* Requests and timers get into the NRF's queue, messages get lost.
LEMMA ArrivalGap ==
  ASSUME TypeInv, GapInv,
         \/ \E x \in BagToSet(wire) : nrf_receive(x) \/ lose(x)
         \/ \E i \in Id : nrf_timer(i)
  PROVE  GapInv'
<1>1. TypeOK
  BY DEF TypeInv
<1>2. UNCHANGED <<nf, gap, inst>> /\ BagToSet(wire') \subseteq BagToSet(wire)
  BY <1>1, WireTake DEF nrf_receive, lose, nrf_timer
<1>3. gap' # 0 => nf.id \notin inst'
  BY <1>1, <1>2 DEF GapInv, GapCounted, Unknown, TypeOK
<1>4. \A n \in DOMAIN queue : gap > 0 /\ queue[n].id = nf.id =>
                                queue[n].what # "PUT"
  BY DEF GapInv, GapCounted, NothingHelps
<1>5. ASSUME NEW e \in Event, queue' = Append(queue, e),
             gap > 0 /\ e.id = nf.id => e.what # "PUT"
      PROVE  gap > 0 => \A n \in DOMAIN queue' :
               queue'[n].id = nf.id => queue'[n].what # "PUT"
  BY <1>1, <1>4, <1>5, QueueFacts
<1>6. ASSUME NEW x \in BagToSet(wire), nrf_receive(x)
      PROVE  GapInv'
  <2>. DEFINE e == [what |-> x.method, id |-> x.id]
  <2>1. e \in Event /\ e.id = x.id /\ e.what = x.method
    BY <1>1 DEF TypeOK, Http, Event
  <2>2. queue' = Append(queue, e) /\ x.status = 0
    BY <1>6 DEF nrf_receive
  <2>3. gap > 0 /\ e.id = nf.id => e.what # "PUT"
    BY <2>1, <2>2 DEF GapInv, GapCounted, NothingHelps
  <2>. HIDE DEF e
  <2>. QED
    BY <1>2, <1>3, <1>5, <2>1, <2>2, <2>3, GapFrame
<1>7. ASSUME NEW i \in Id, nrf_timer(i)
      PROVE  GapInv'
  <2>. DEFINE e == [what |-> "timer", id |-> i]
  <2>1. e \in Event /\ e.what = "timer"
    BY DEF Event
  <2>2. queue' = Append(queue, e)
    BY <1>7 DEF nrf_timer
  <2>. HIDE DEF e
  <2>. QED
    BY <1>2, <1>3, <1>5, <2>1, <2>2, GapFrame
<1>8. ASSUME NEW x \in BagToSet(wire), lose(x)
      PROVE  GapInv'
  BY <1>2, <1>3, <1>4, <1>8, GapFrame DEF lose
<1>. QED
  BY <1>6, <1>7, <1>8

\* The NRF handles an event: while the NF is unknown to it, the event is no
\* registration of the NF, so a heartbeat is answered with an error.
LEMMA EventGap ==
  ASSUME TypeInv, GapInv, nrf_event
  PROVE  GapInv'
<1>. DEFINE e == Head(queue)
<1>1. TypeOK
  BY DEF TypeInv
<1>2. /\ queue # <<>> /\ queue' = Tail(queue) /\ UNCHANGED nf /\ Watch
      /\ nrf_register(e) \/ nrf_update(e) \/ nrf_not_found(e)
           \/ nrf_deregister(e) \/ nrf_no_heartbeat(e)
  BY DEF nrf_event
<1>3. \A y \in BagToSet(wire') : y \in BagToSet(wire) \/
        /\ e.id = nf.id /\ nf.st # "down" /\ y.id = nf.id
        /\ y.method = e.what /\ y.status \in {200, 201, 204, 404}
        /\ e.what = "PATCH" /\ y.status # 404 => e.id \in inst
  BY <1>2, EventType
<1>. HIDE DEF e
<1>4. gap' \in {0, gap} /\ (gap' # 0 => nf.id \notin inst')
  BY <1>2 DEF Watch, Unknown
<1>5. gap > 0 => nf.id \notin inst
  BY DEF GapInv, GapCounted, Unknown
<1>6. \A y \in BagToSet(wire') : y \in BagToSet(wire) \/
        /\ y.status # 0 /\ y.id = nf.id /\ nf.st # "down"
        /\ gap > 0 /\ y.method = "PATCH" => y.status \notin {200, 204}
  BY <1>3, <1>5
<1>7. gap > 0 => \A n \in DOMAIN queue' :
        queue'[n].id = nf.id => queue'[n].what # "PUT"
  <2>1. \A n \in DOMAIN queue' : /\ n + 1 \in DOMAIN queue
                                 /\ queue'[n] = queue[n + 1]
    BY <1>1, <1>2, QueueFacts
  <2>2. gap > 0 => \A n \in DOMAIN queue :
          queue[n].id = nf.id => queue[n].what # "PUT"
    BY DEF GapInv, GapCounted, NothingHelps
  <2>. QED
    BY <2>1, <2>2
<1>. QED
  BY <1>2, <1>4, <1>6, <1>7, GapFrame

\* The NRF process is replaced, or stumbles over a stale event.
LEMMA NrfProcessGap ==
  ASSUME TypeInv, GapInv, nrf_stale_timer \/ nrf_restart
  PROVE  GapInv'
<1>1. TypeOK
  BY DEF TypeInv
<1>2. UNCHANGED <<nf, gap>>
  BY DEF nrf_stale_timer, nrf_restart
<1>3. CASE NewNrf
  <2>. DEFINE S == {y \in BagToSet(wire) : y.status # 0}
  <2>1. wire' = [x \in S |-> wire[x]] /\ inst' = {} /\ queue' = <<>>
    BY <1>3 DEF NewNrf
  <2>2. S \subseteq BagToSet(wire)
    OBVIOUS
  <2>. HIDE DEF S
  <2>3. BagToSet(wire') \subseteq BagToSet(wire)
    BY <1>1, <2>1, <2>2, BagKeep DEF TypeOK
  <2>. QED
    BY <1>2, <2>1, <2>3, GapFrame
<1>4. CASE queue # <<>> /\ queue' = Tail(queue) /\ UNCHANGED <<inst, timer, wire>>
  <2>1. gap > 0 => \A n \in DOMAIN queue' :
          queue'[n].id = nf.id => queue'[n].what # "PUT"
    <3>1. \A n \in DOMAIN queue' : /\ n + 1 \in DOMAIN queue
                                   /\ queue'[n] = queue[n + 1]
      BY <1>1, <1>4, QueueFacts
    <3>2. gap > 0 => \A n \in DOMAIN queue :
            queue[n].id = nf.id => queue[n].what # "PUT"
      BY DEF GapInv, GapCounted, NothingHelps
    <3>. QED
      BY <3>1, <3>2
  <2>2. gap' # 0 => nf.id \notin inst'
    BY <1>1, <1>2, <1>4 DEF GapInv, GapCounted, Unknown, TypeOK
  <2>. QED
    BY <1>2, <1>4, <2>1, <2>2, GapFrame
<1>. QED
  BY <1>3, <1>4 DEF nrf_stale_timer, nrf_restart

\* Time passes: what the gap gains, the NF's t_no_heartbeat loses.
LEMMA TickGap ==
  ASSUME TypeInv, GapInv, tick
  PROVE  GapInv'
<1>1. TypeOK /\ Interval \in Nat /\ Margin \in Nat
  BY Times DEF TypeInv
<1>2. /\ nf'.id = nf.id /\ nf'.st = nf.st /\ nf'.reg = Less(nf.reg)
      /\ nf'.nohb = Less(nf.nohb) /\ nf.nohb # 0
      /\ UNCHANGED <<inst, queue, wire>>
  BY <1>1 DEF tick, TypeOK
<1>3. ForTheRunning'
  BY <1>2 DEF GapInv, ForTheRunning
<1>4. Watched'
  BY <1>1, <1>2 DEF GapInv, Watched, Less, Off
<1>5. ASSUME gap' > 0
      PROVE  GapCounted'
  <2>1. CASE wire = EmptyBag /\ queue = <<>>
    <3>1. Unknown /\ gap' = gap + 1 /\ gap \in Nat
      BY <1>1, <1>5, <2>1 DEF tick, TypeOK
    <3>2. nf.nohb \in 1 .. Interval + Margin /\ nf'.nohb = nf.nohb - 1
      BY <1>1, <1>2, <3>1 DEF GapInv, Watched, Unknown, Less
    <3>3. nf'.nohb + gap' <= Interval + Margin
      BY <1>1, <3>1, <3>2 DEF GapInv, GapCounted
    <3>4. Unknown'
      BY <1>2, <3>1 DEF Unknown
    <3>5. NothingHelps'
      BY <1>2, <2>1, BagOfSet DEF NothingHelps
    <3>. QED
      BY <3>3, <3>4, <3>5 DEF GapCounted
  <2>2. CASE ~(wire = EmptyBag /\ queue = <<>>)
    <3>1. gap' = gap
      BY <2>2 DEF tick
    <3>2. Unknown' /\ NothingHelps'
      BY <1>2, <1>5, <3>1 DEF GapInv, GapCounted, Unknown, NothingHelps
    <3>3. nf.nohb \in Int /\ nf'.nohb <= nf.nohb
      BY <1>1, <1>2 DEF TypeOK, Time, Less, Off
    <3>4. nf'.nohb + gap' <= Interval + Margin
      BY <1>1, <1>2, <1>5, <3>1 DEF GapInv, GapCounted, TypeOK, Time, Less, Off
    <3>. QED
      BY <3>2, <3>4 DEF GapCounted
  <2>. QED
    BY <2>1, <2>2
<1>. QED
  BY <1>3, <1>4, <1>5 DEF GapInv, GapCounted

\* While the NF takes itself for registered and the NRF does not know it, the
\* NF's own t_no_heartbeat runs and nothing sets it again: after Interval +
\* Margin at the latest the NF registers again, whatever the NRF, the
\* processes and the network do meanwhile (ogs_sbi_nf_state_registered).
THEOREM GapIsBounded == Spec => []GapBounded
<1>1. Init => GapInv
  BY BagOfSet DEF Init, GapInv, ForTheRunning, Watched, GapCounted, Request
<1>2. TypeInv /\ GapInv /\ [Next]_vars => GapInv'
  <2>. SUFFICES ASSUME TypeInv, GapInv, [Next]_vars PROVE GapInv'
    OBVIOUS
  <2>1. CASE UNCHANGED vars
    BY <2>1 DEF vars, GapInv, ForTheRunning, Watched, GapCounted, Unknown,
       NothingHelps
  <2>. QED
    BY <2>1, NfTimersGap, ResponseGap, ProcessGap, ArrivalGap, EventGap,
       NrfProcessGap, TickGap DEF Next, nf_timers
<1>3. TypeInv /\ GapInv => GapBounded
  BY Times
  DEF TypeInv, TypeOK, GapInv, GapCounted, Watched, Unknown, GapBounded
<1>. QED
  BY <1>1, <1>2, <1>3, TypeInvariance, PTL DEF Spec

-----------------------------------------------------------------------------
(* Heartbeats in time. *)

\* The NF and the message or event of its dialogue with the NRF, step by step,
\* while nothing goes wrong.  left is what is left of t_no_heartbeat at the
\* NRF; the answer to a heartbeat finds the time of the NF's own not up.
Dialogue(f, known, left, sent, waiting) ==
  /\ nf = f
  /\ inst = known
  /\ timer = [i \in Id |-> IF i = 1 THEN left ELSE Off]
  /\ wire = sent
  /\ queue = waiting

NewNf == [id |-> 1, st |-> "will_register", reg |-> Reconnect,
          hb |-> Off, nohb |-> Off]
RegisteredNf(h, n) == [id |-> 1, st |-> "registered", reg |-> Off,
                       hb |-> h, nohb |-> n]
Response(m, s) == [method |-> m, id |-> 1, status |-> s]
Waits(m) == <<[what |-> m, id |-> 1]>>

Registering ==
  \/ Dialogue(NewNf, {}, Off, SetToBag({Request("PUT", 1)}), <<>>)
  \/ Dialogue(NewNf, {}, Off, EmptyBag, Waits("PUT"))
  \/ Dialogue(NewNf, {1}, Interval + Margin,
              SetToBag({Response("PUT", 201)}), <<>>)

Quiet ==
  \E h \in 0 .. Interval :
    Dialogue(RegisteredNf(h, h + Margin), {1}, h + Margin, EmptyBag, <<>>)

Beating ==
  LET f == RegisteredNf(Interval, Margin)
  IN  \/ Dialogue(f, {1}, Margin, SetToBag({Request("PATCH", 1)}), <<>>)
      \/ Dialogue(f, {1}, Margin, EmptyBag, Waits("PATCH"))
      \/ Dialogue(f, {1}, Interval + Margin,
                  SetToBag({Response("PATCH", 204)}), <<>>)

OnTime == faults = 0 => Registering \/ Quiet \/ Beating

\* In no step of the dialogue has a timer run down but the heartbeat interval
\* of a quiet NF, nor is the event of one in the queue; and time passes only
\* while the NF is quiet.
LEMMA DialogueTimers ==
  ASSUME Registering \/ Quiet \/ Beating
  PROVE  /\ nf.reg # 0 /\ nf.nohb # 0 /\ nf.st # "down"
         /\ nf.hb = 0 => Quiet
         /\ \A i \in Id : timer[i] # 0
         /\ queue # <<>> => Head(queue).what # "timer"
         /\ wire = EmptyBag /\ queue = <<>> => Quiet
<1>1. Interval \in Nat \ {0} /\ Margin \in Nat \ {0} /\ Reconnect \in Nat \ {0}
  BY Times
<1>2. CASE Registering
  <2>1. nf = NewNf /\ \E t \in {Off, Interval + Margin} :
          timer = [i \in Id |-> IF i = 1 THEN t ELSE Off]
    BY <1>2 DEF Registering, Dialogue
  <2>2. nf.reg # 0 /\ nf.nohb # 0 /\ nf.hb # 0 /\ nf.st # "down"
    BY <1>1, <2>1 DEF NewNf, Off
  <2>3. \A i \in Id : timer[i] # 0
    BY <1>1, <2>1 DEF Off
  <2>4. queue = <<>> \/ queue = Waits("PUT")
    BY <1>2 DEF Registering, Dialogue
  <2>5. Waits("PUT") # <<>> /\ Head(Waits("PUT")).what = "PUT"
    BY DEF Waits
  <2>6. wire # EmptyBag \/ queue # <<>>
    BY <1>2, <2>5, BagOfOne DEF Registering, Dialogue
  <2>. QED
    BY <2>2, <2>3, <2>4, <2>5, <2>6
<1>3. CASE Beating
  <2>1. nf = RegisteredNf(Interval, Margin)
          /\ \E t \in {Margin, Interval + Margin} :
               timer = [i \in Id |-> IF i = 1 THEN t ELSE Off]
    BY <1>3 DEF Beating, Dialogue
  <2>2. nf.reg # 0 /\ nf.nohb # 0 /\ nf.hb # 0 /\ nf.st # "down"
    BY <1>1, <2>1 DEF RegisteredNf, Off
  <2>3. \A i \in Id : timer[i] # 0
    BY <1>1, <2>1 DEF Off
  <2>4. queue = <<>> \/ queue = Waits("PATCH")
    BY <1>3 DEF Beating, Dialogue
  <2>5. Waits("PATCH") # <<>> /\ Head(Waits("PATCH")).what = "PATCH"
    BY DEF Waits
  <2>6. wire # EmptyBag \/ queue # <<>>
    BY <1>3, <2>5, BagOfOne DEF Beating, Dialogue
  <2>. QED
    BY <2>2, <2>3, <2>4, <2>5, <2>6
<1>4. CASE Quiet
  <2>1. PICK h \in 0 .. Interval : /\ nf = RegisteredNf(h, h + Margin)
                                   /\ timer = [i \in Id |-> IF i = 1
                                                 THEN h + Margin ELSE Off]
                                   /\ queue = <<>>
    BY <1>4 DEF Quiet, Dialogue
  <2>2. nf.reg # 0 /\ nf.nohb # 0 /\ nf.st # "down"
    BY <1>1, <2>1 DEF RegisteredNf, Off
  <2>3. \A i \in Id : timer[i] # 0
    BY <1>1, <2>1 DEF Off
  <2>. QED
    BY <1>4, <2>1, <2>2, <2>3
<1>. QED
  BY <1>2, <1>3, <1>4

\* One message is under way, or none, and then an event waits or the NF is
\* quiet.
LEMMA DialogueWire ==
  ASSUME Registering \/ Quiet \/ Beating, NEW x \in BagToSet(wire)
  PROVE  /\ queue = <<>> /\ Without(x) = EmptyBag
         /\ \/ /\ x = Request("PUT", 1)
               /\ Dialogue(NewNf, {}, Off, wire, <<>>)
            \/ /\ x = Response("PUT", 201)
               /\ Dialogue(NewNf, {1}, Interval + Margin, wire, <<>>)
            \/ /\ x = Request("PATCH", 1)
               /\ Dialogue(RegisteredNf(Interval, Margin), {1}, Margin, wire,
                           <<>>)
            \/ /\ x = Response("PATCH", 204)
               /\ Dialogue(RegisteredNf(Interval, Margin), {1},
                           Interval + Margin, wire, <<>>)
<1>1. wire # EmptyBag
  BY BagOfSet
<1>2. \/ wire = SetToBag({Request("PUT", 1)})
         /\ Dialogue(NewNf, {}, Off, wire, <<>>)
      \/ wire = SetToBag({Response("PUT", 201)})
         /\ Dialogue(NewNf, {1}, Interval + Margin, wire, <<>>)
      \/ wire = SetToBag({Request("PATCH", 1)})
         /\ Dialogue(RegisteredNf(Interval, Margin), {1}, Margin, wire, <<>>)
      \/ wire = SetToBag({Response("PATCH", 204)})
         /\ Dialogue(RegisteredNf(Interval, Margin), {1},
                     Interval + Margin, wire, <<>>)
  BY <1>1 DEF Registering, Quiet, Beating, Dialogue
<1>3. queue = <<>>
  BY <1>2 DEF Dialogue
<1>4. \A y : wire = SetToBag({y}) => x = y /\ Without(x) = EmptyBag
  BY BagOfSet, BagOfOne DEF Without
<1>. QED
  BY <1>2, <1>3, <1>4

\* The NF's heartbeat interval is over.
LEMMA HeartbeatOnTime ==
  ASSUME Quiet, heartbeat_interval
  PROVE  Beating'
<1>1. Interval \in Nat \ {0} /\ Margin \in Nat \ {0}
  BY Times
<1>2. PICK h \in 0 .. Interval :
        Dialogue(RegisteredNf(h, h + Margin), {1}, h + Margin, EmptyBag, <<>>)
  BY DEF Quiet
<1>3. h = 0
  BY <1>2 DEF heartbeat_interval, Dialogue, RegisteredNf
<1>4. nf = RegisteredNf(0, Margin)
  BY <1>1, <1>2, <1>3 DEF Dialogue
<1>5. nf' = RegisteredNf(Interval, Margin) /\ nf.id = 1
  BY <1>4 DEF heartbeat_interval, RegisteredNf
<1>6. wire' = SetToBag({Request("PATCH", 1)})
  BY <1>2, <1>5, BagOfOne DEF heartbeat_interval, Sent, Dialogue
<1>7. timer = [i \in Id |-> IF i = 1 THEN Margin ELSE Off] /\ inst = {1}
        /\ queue = <<>>
  BY <1>1, <1>2, <1>3 DEF Dialogue
<1>. QED
  BY <1>5, <1>6, <1>7 DEF heartbeat_interval, Beating, Dialogue

\* A tick of a quiet NF and its NRF.
LEMMA TickOnTime ==
  ASSUME TypeOK, Quiet, tick
  PROVE  Quiet'
<1>1. Interval \in Nat \ {0} /\ Margin \in Nat \ {0}
  BY Times
<1>2. PICK h \in 0 .. Interval :
        Dialogue(RegisteredNf(h, h + Margin), {1}, h + Margin, EmptyBag, <<>>)
  BY DEF Quiet
<1>3. nf.hb = h /\ h # 0
  BY <1>2 DEF tick, Dialogue, RegisteredNf
<1>4. h - 1 \in 0 .. Interval /\ Less(h) = h - 1
        /\ Less(h + Margin) = (h - 1) + Margin /\ Less(Off) = Off
  BY <1>1, <1>3 DEF Less, Off
<1>5. nf' = RegisteredNf(h - 1, (h - 1) + Margin)
  BY <1>2, <1>4 DEF tick, Dialogue, RegisteredNf
<1>6. timer' = [i \in Id |-> IF i = 1 THEN (h - 1) + Margin ELSE Off]
  BY <1>2, <1>4 DEF tick, Dialogue
<1>7. Dialogue(RegisteredNf(h - 1, (h - 1) + Margin), {1}, (h - 1) + Margin,
               EmptyBag, <<>>)'
  BY <1>2, <1>5, <1>6 DEF tick, Dialogue
<1>. QED
  BY <1>4, <1>7 DEF Quiet

\* A response reaches the NF: it is registered, with a full interval to go.
LEMMA ResponseOnTime ==
  ASSUME Registering \/ Quiet \/ Beating,
         NEW x \in BagToSet(wire), nf_response(x)
  PROVE  Quiet'
<1>1. Interval \in Nat \ {0} /\ Margin \in Nat \ {0}
  BY Times
<1>2. /\ wire' = EmptyBag /\ queue = <<>> /\ UNCHANGED <<inst, timer, queue>>
      /\ x.status # 0 /\ nf' = AfterResponse(x)
  BY DialogueWire DEF nf_response
<1>3. Request("PUT", 1).status = 0 /\ Request("PATCH", 1).status = 0
  BY DEF Request
<1>4. /\ inst = {1}
      /\ timer = [i \in Id |-> IF i = 1 THEN Interval + Margin ELSE Off]
      /\ \/ x = Response("PUT", 201) /\ nf = NewNf
         \/ x = Response("PATCH", 204) /\ nf = RegisteredNf(Interval, Margin)
  BY <1>2, <1>3, DialogueWire DEF Dialogue
<1>5. nf' = RegisteredNf(Interval, Interval + Margin)
  <2>1. CASE x = Response("PUT", 201) /\ nf = NewNf
    <3>1. nf' = Registered
      BY <1>2, <2>1 DEF AfterResponse, Response, NewNf
    <3>. QED
      BY <2>1, <3>1 DEF Registered, RegisteredNf, NewNf
  <2>2. CASE x = Response("PATCH", 204) /\ nf = RegisteredNf(Interval, Margin)
    <3>1. nf' = [nf EXCEPT !.nohb = Interval + Margin]
      BY <1>2, <2>2 DEF AfterResponse, Response, RegisteredNf
    <3>. QED
      BY <2>2, <3>1 DEF RegisteredNf
  <2>. QED
    BY <1>4, <2>1, <2>2
<1>6. Interval \in 0 .. Interval
  BY <1>1
<1>7. Dialogue(RegisteredNf(Interval, Interval + Margin), {1},
               Interval + Margin, EmptyBag, <<>>)'
  BY <1>2, <1>4, <1>5 DEF Dialogue
<1>. QED
  BY <1>6, <1>7 DEF Quiet

\* A request reaches the NRF.
LEMMA ReceiveOnTime ==
  ASSUME Registering \/ Quiet \/ Beating,
         NEW x \in BagToSet(wire), nrf_receive(x)
  PROVE  Registering' \/ Beating'
<1>1. /\ wire' = EmptyBag /\ queue = <<>> /\ UNCHANGED <<nf, inst, timer>>
      /\ x.status = 0
      /\ queue' = Append(queue, [what |-> x.method, id |-> x.id])
  BY DialogueWire DEF nrf_receive
<1>2. Response("PUT", 201).status # 0 /\ Response("PATCH", 204).status # 0
  BY DEF Response
<1>3. ASSUME NEW m \in {"PUT", "PATCH"}, x = Request(m, 1)
      PROVE  queue' = Waits(m)
  <2>1. x.method = m /\ x.id = 1
    BY <1>3 DEF Request
  <2>2. queue' = Append(<<>>, [what |-> m, id |-> 1])
    BY <1>1, <2>1
  <2>. QED
    BY <2>2 DEF Waits
<1>4. CASE x = Request("PUT", 1) /\ Dialogue(NewNf, {}, Off, wire, <<>>)
  <2>1. Dialogue(NewNf, {}, Off, EmptyBag, Waits("PUT"))'
    BY <1>1, <1>3, <1>4 DEF Dialogue
  <2>. QED
    BY <2>1 DEF Registering
<1>5. CASE x = Request("PATCH", 1)
             /\ Dialogue(RegisteredNf(Interval, Margin), {1}, Margin, wire,
                         <<>>)
  <2>1. Dialogue(RegisteredNf(Interval, Margin), {1}, Margin, EmptyBag,
                 Waits("PATCH"))'
    BY <1>1, <1>3, <1>5 DEF Dialogue
  <2>. QED
    BY <2>1 DEF Beating
<1>. QED
  BY <1>1, <1>2, <1>4, <1>5, DialogueWire

\* The NRF registers the NF, or takes its heartbeat, and answers.
LEMMA EventOnTime ==
  ASSUME Registering \/ Quiet \/ Beating, nrf_event
  PROVE  Registering' \/ Beating'
<1>. DEFINE e == Head(queue)
<1>1. 1 \in Id
  BY Times DEF Id
<1>2. /\ queue # <<>> /\ queue' = Tail(queue) /\ UNCHANGED nf
      /\ nrf_register(e) \/ nrf_update(e) \/ nrf_not_found(e)
           \/ nrf_deregister(e) \/ nrf_no_heartbeat(e)
  BY DEF nrf_event
<1>3. \/ Dialogue(NewNf, {}, Off, EmptyBag, Waits("PUT"))
      \/ Dialogue(RegisteredNf(Interval, Margin), {1}, Margin, EmptyBag,
                  Waits("PATCH"))
  BY <1>2 DEF Registering, Quiet, Beating, Dialogue
<1>4. ASSUME NEW m, queue = Waits(m)
      PROVE  e.what = m /\ e.id = 1 /\ queue' = <<>>
  BY <1>2, <1>4 DEF Waits
<1>5. ASSUME NEW m, NEW s, e.what = m, e.id = 1, nf.id = 1, nf.st # "down",
             wire = EmptyBag, Reply(e, s)
      PROVE  wire' = SetToBag({Response(m, s)})
  BY <1>5, BagOfOne DEF Reply, Response
<1>6. CASE Dialogue(NewNf, {}, Off, EmptyBag, Waits("PUT"))
  <2>1. e.what = "PUT" /\ e.id = 1 /\ queue' = <<>>
    BY <1>4, <1>6 DEF Dialogue
  <2>2. nf = NewNf /\ nf.id = 1 /\ nf.st # "down" /\ wire = EmptyBag /\ inst = {}
          /\ timer = [i \in Id |-> IF i = 1 THEN Off ELSE Off]
    BY <1>6 DEF Dialogue, NewNf
  <2>3. nrf_register(e)
    BY <1>2, <2>1
    DEF nrf_update, nrf_not_found, nrf_deregister, nrf_no_heartbeat
  <2>4. Reply(e, 201) /\ inst' = {1}
          /\ timer' = [timer EXCEPT ![1] = Interval + Margin]
    BY <2>1, <2>2, <2>3 DEF nrf_register
  <2>5. timer' = [i \in Id |-> IF i = 1 THEN Interval + Margin ELSE Off]
    BY <1>1, <2>2, <2>4
  <2>6. wire' = SetToBag({Response("PUT", 201)})
    BY <1>5, <2>1, <2>2, <2>4
  <2>. HIDE DEF e
  <2>7. Dialogue(NewNf, {1}, Interval + Margin,
                 SetToBag({Response("PUT", 201)}), <<>>)'
    BY <1>2, <2>1, <2>2, <2>4, <2>5, <2>6 DEF Dialogue
  <2>. QED
    BY <2>7 DEF Registering
<1>7. CASE Dialogue(RegisteredNf(Interval, Margin), {1}, Margin, EmptyBag,
                    Waits("PATCH"))
  <2>1. e.what = "PATCH" /\ e.id = 1 /\ queue' = <<>>
    BY <1>4, <1>7 DEF Dialogue
  <2>2. nf = RegisteredNf(Interval, Margin) /\ nf.id = 1 /\ nf.st # "down"
          /\ wire = EmptyBag /\ inst = {1}
          /\ timer = [i \in Id |-> IF i = 1 THEN Margin ELSE Off]
    BY <1>7 DEF Dialogue, RegisteredNf
  <2>3. nrf_update(e)
    BY <1>2, <2>1, <2>2
    DEF nrf_register, nrf_not_found, nrf_deregister, nrf_no_heartbeat
  <2>4. Reply(e, 204) /\ inst' = {1}
          /\ timer' = [timer EXCEPT ![1] = Interval + Margin]
    BY <2>1, <2>2, <2>3 DEF nrf_update
  <2>5. timer' = [i \in Id |-> IF i = 1 THEN Interval + Margin ELSE Off]
    BY <1>1, <2>2, <2>4
  <2>6. wire' = SetToBag({Response("PATCH", 204)})
    BY <1>5, <2>1, <2>2, <2>4
  <2>. HIDE DEF e
  <2>7. Dialogue(RegisteredNf(Interval, Margin), {1}, Interval + Margin,
                 SetToBag({Response("PATCH", 204)}), <<>>)'
    BY <1>2, <2>1, <2>2, <2>4, <2>5, <2>6 DEF Dialogue
  <2>. QED
    BY <2>7 DEF Beating
<1>. QED
  BY <1>3, <1>6, <1>7

\* Every step without a fault is one of the dialogue.
LEMMA NextOnTime ==
  ASSUME TypeInv, OnTime, [Next]_vars
  PROVE  OnTime'
<1>. SUFFICES ASSUME faults' = 0
              PROVE  (Registering \/ Quiet \/ Beating)'
  BY DEF OnTime
<1>1. TypeOK /\ faults \in Nat
  BY DEF TypeInv, TypeOK
<1>2. CASE UNCHANGED vars
  <2>1. Registering \/ Quiet \/ Beating
    BY <1>2 DEF vars, OnTime
  <2>. QED
    BY <1>2, <2>1 DEF vars, Registering, Quiet, Beating, Dialogue
<1>3. CASE Next
  <2>1. faults = 0
    <3>1. faults' = faults \/ faults' = faults + 1
      BY <1>3, Zenon DEF Next, registration_interval, heartbeat_interval,
         no_heartbeat, nf_stop, nf_start, nf_response, nrf_receive, lose,
         nrf_timer, nrf_event, nrf_stale_timer, nrf_restart, tick
    <3>. QED
      BY <1>1, <3>1
  <2>2. Registering \/ Quiet \/ Beating
    BY <2>1 DEF OnTime
  <2>3. ~registration_interval /\ ~no_heartbeat /\ ~nf_start
          /\ ~nrf_stale_timer /\ \A i \in Id : ~nrf_timer(i)
    BY <2>2, DialogueTimers DEF registration_interval, no_heartbeat, nf_start,
       nrf_stale_timer, nrf_timer
  <2>4. ~nf_stop /\ ~nrf_restart /\ \A x \in BagToSet(wire) : ~lose(x)
    BY <2>1 DEF nf_stop, nrf_restart, lose
  <2>5. CASE heartbeat_interval
    BY <2>2, <2>5, DialogueTimers, HeartbeatOnTime DEF heartbeat_interval
  <2>6. CASE tick
    <3>1. wire = EmptyBag /\ queue = <<>>
      BY <2>1, <2>6 DEF tick
    <3>. QED
      BY <1>1, <2>2, <2>6, <3>1, DialogueTimers, TickOnTime
  <2>. QED
    BY <1>3, <2>2, <2>3, <2>4, <2>5, <2>6, ResponseOnTime, ReceiveOnTime,
       EventOnTime DEF Next
<1>. QED
  BY <1>2, <1>3

\* With any intervals and any margin, however small: as long as no message is
\* late or lost and no process ends, the NRF's t_no_heartbeat never expires and
\* the NRF knows every NF that takes itself for registered
\* (nrf_nf_state_registered, ogs_sbi_nf_state_registered).
THEOREM HeartbeatsAreInTime == Spec => []HeartbeatsInTime
<1>1. Init => OnTime
  <2>1. ASSUME Init
        PROVE  Dialogue(NewNf, {}, Off, SetToBag({Request("PUT", 1)}), <<>>)
    BY <2>1 DEF Init, Dialogue, NewNf
  <2>. QED
    BY <2>1 DEF OnTime, Registering
<1>2. TypeInv /\ OnTime /\ [Next]_vars => OnTime'
  BY NextOnTime
<1>3. OnTime => HeartbeatsInTime
  <2>1. Registering => ~Unknown
    BY DEF Registering, Dialogue, Unknown, NewNf
  <2>2. Quiet => ~Unknown
    BY DEF Quiet, Dialogue, Unknown, RegisteredNf
  <2>3. Beating => ~Unknown
    BY DEF Beating, Dialogue, Unknown, RegisteredNf
  <2>. QED
    BY <2>1, <2>2, <2>3 DEF OnTime, HeartbeatsInTime
<1>. QED
  BY <1>1, <1>2, <1>3, TypeInvariance, PTL DEF Spec
=============================================================================

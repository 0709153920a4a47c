# OgsDp: TLA+ models of its control plane

OgsDp is Open5GS with four network functions of its own - DMF, DSMF, DF and
DNF - that carry the address of a gNB's user-plane endpoint from the AMF to a
forwarding function. This directory models those functions, the PFCP
transaction layer, the event queue, main loop and timers they rest on, and
three protocols of the network functions around them: the association of SMF
and UPF, the usage reporting of the UPF and the registration with the NRF.
The models are checked with TLC, and part of what the checks show is proved
with TLAPS. Paths below are relative to the repository.

## The system

```
 AMF --gnb-sync (SBI)--> DMF --gnb-sync (SBI)--> DSMF --DN4 (PFCP)--> DF --GTP-U--> DNF
  |                       \-- NRF: registration, discovery of the DSMF
  +---(SBI)---> SMF --N4 (PFCP): association, sessions, usage reports--> UPF
```

| Component | State | Operations | Talks to |
|---|---|---|---|
| PFCP transaction layer, `lib/pfcp/xact.c` | local and remote transactions of a node, step, stored response, response and holding timers with counters, global transaction id | create, update_tx, update_rx, commit, receive, response_timeout, holding_timeout, delete | its users by callback, the peer by UDP |
| Event queue and main loop, `lib/core/ogs-{queue,epoll,notify}.c`, `*/init.c` | ring, mutex, two conditions with waiter counts, terminated flag; eventfd of the poll | push and pop (try, timed, waiting), term; poll, callbacks, drain | every thread of a process |
| Timers, `lib/core/ogs-timer.c` | pool, tree of running timers, list of the expired ones | add, start, stop, delete, expire | callbacks of every component |
| Usage reporting, `src/upf/context.c` | octet counters, last report, up to three timers for a URR | packet, expiry, report, deletion | SMF over PFCP, the timers |
| PFCP association of SMF and UPF, `src/{smf,upf}/pfcp-sm.c` | node state machine, recovery time stamps, association and heartbeat timers, sessions | associate, heartbeat, lose the peer, restore | the PFCP peer |
| NF registration, `lib/sbi/nf-sm.c`, `src/nrf` | state machine and timers of the NF; instances, their timers and the event queue of the NRF | register, heartbeat, de-register, remove | NF and NRF over HTTP |
| DMF, `src/dmf` | gNB list with RAN address, TEID and session; SBI transactions; the chosen DSMF instance | register, deregister, RAN report, forward, discovery answer, SBI timers | AMF, NRF, DSMF over SBI |
| DSMF, `src/dsmf` | sessions and five hashes, SEID pool, a state machine and a timer for each session, event queue | gnb-sync, PFCP messages, timers, establish / modify / delete | DMF over SBI, DF over PFCP |
| DF, `src/df` | sessions, hashes by SEID and TEID, PFCP node | establishment, modification, deletion; GTP-U receive and forward | DSMF over PFCP, RAN and DNF over GTP-U |
| DNF, `src/dnf` | sessions, GTP-U socket | add / remove session, forward (no event reaches the session operations) | DF over GTP-U |
| AMF hooks, `src/amf/{context,ngap-handler,sbi-path}.c` | none of their own | report gNB add / remove and PDU session endpoints | DMF over SBI |

Each function has one main thread: poll callbacks (SBI requests, datagrams),
then expired timers, then the event queue, round after round. Functions with a
Diameter interface have threads of freeDiameter that push events from outside.
Nothing is persistent. `ogs_assert` aborts the process in every build.

**What is hard here.** Datagrams are lost, repeated and late, so that the
transaction layer has to recognise retransmissions for long enough. A response
and a timer race through an event queue, and the session a response belongs to
is looked up when it is received, not when it is handled. Threads meet in that
queue, and its condition variables wake one sleeper for one value. Callbacks
of expired timers delete and restart timers of the list that is being walked.
Processes restart and forget, their peers learn it from a heartbeat, or never.
Forwarding in the DMF is asynchronous, behind a discovery. Identifiers (SEID,
TEID, transaction id) are chosen by parties that do not coordinate. Resources
(SEID pool, session pools, timers, SBI transactions) run out. `PROJECT.json`
lists each hazard at its line.

**What makes each part correct.** Transaction layer: a request is executed at
most once, an answer means it was, a given-up request is not executed later,
and both ends forget. Queue and loop: first in, first out; no wake-up and no
event is lost; the shutdown reaches the loop. Timers: none is lost or used
twice, and the walk over the expired ones survives its callbacks. Usage
reporting: every octet is reported, and reporting goes on. Association: it is
re-established, old sessions go, live ones are restored. Registration: the NF
is known to the NRF but for a bounded time, and dead instances go. DSMF and
DF: a session the DSMF holds operational exists at the DF with the same
endpoint; establishment ends; no hash entry outlives its session. DMF: the
information kept for a gNB is that of its last report, only registered gNBs
are listed, a report is forwarded at most once.

## Modules

| Module | Models |
|---|---|
| `PfcpCall` | abstract specification: an at-most-once call |
| `PfcpXact` | the transaction layer between an originator and a responder, with explicit time |
| `PfcpXactProofs` | the proofs about it |
| `OgsFifo` | abstract specification: a bounded first-in first-out queue shared by threads |
| `OgsQueue` | `ogs-queue.c`: the ring, the conditions, termination |
| `EventLoop` | the main loop, the threads around it and the queue between them |
| `EventLoopProofs` | the proofs about `OgsQueue` and `EventLoop` |
| `OgsTimer` | `ogs-timer.c`, as operators on a timer manager |
| `UpfUsage` | usage reporting of the UPF and its report transactions, on top of `OgsTimer` |
| `UpfUsageProofs` | the proofs about its counters and its timers |
| `N4Association` | association, heartbeat and restoration between SMF and UPF |
| `N4AssociationProofs` | the proofs about it |
| `NfRegistration` | an NF and the NRF |
| `NfRegistrationProofs` | the proofs about it |
| `Dn4Channel` | the state DSMF and DF share: requests in flight, transactions the DF holds |
| `Dsmf` | the DSMF |
| `Df` | the DF |
| `Dn4` | DSMF and DF composed, and the properties of the composition |
| `Dn4Proofs` | the proofs about it |
| `Dmf` | the DMF, with the NRF and the DSMF as its environment |
| `DmfProofs` | the proofs about it |
| `DataLemmas` | facts about numbers, iterated functions and bags that the proofs share |
| `MCPfcpXact`, `MCEventLoop`, `MCUpfUsage`, `MCN4Association`, `MCDn4`, `MCDmf` | instances for TLC |

`N4Association` and `Dn4Channel` use PFCP requests as `PfcpCall` describes
them, which `PfcpXact` is shown to implement; `UpfUsage` has the transaction's
timer as the code has it, since its callback is what works on the timers.

Definitions whose comment starts with *Mutant:* are deliberately wrong versions
of the definition that follows them. They are used by no specification: for
each property of a passing run one of them, put in place of the right version,
makes TLC report a violation (`mutants` in `PROJECT.json`).

### PfcpXact

Every transaction has two steps, since no PFCP message type has the
intermediate stage. `local` is the originator's transaction: *free*, *sent*
(step 1), *answered* (step 2, the user has not committed), *done*, *dropped*
(a second copy of the response deleted it before the commit) or *failed*.
`remote` is the responder's: *step1* while the handler has not answered,
*step2* with the stored response. `rcount`, `hcount` and the two `_due`
variables are the counters and timers. `xact_request`, `response_timeout`,
`xact_commit`, `xact_answer` and `holding_timeout` are the functions of
`xact.c`; `Receive` is `ogs_pfcp_xact_receive` with its three outcomes. `Tick`
advances the clock when every expired timer has been served (the loop calls
`ogs_timer_mgr_expire` in every round).

Two assumptions are the environment's, not the code's, and are needed:
`Delay < T1` (a datagram arrives, or is lost, before the next retransmission),
and that an expired timer is served before time goes on. With datagrams that
live longer than the holding time nothing in `xact.c` prevents a second
execution.

### OgsQueue, EventLoop

`queue_push` and `queue_pop` are one set of steps, told apart by the operation.
What the code does under the mutex is one step; the look at `terminated` before
it, the sleep, the return from the sleep and the look after the mutex was
released are steps of their own, so that other threads and `ogs_queue_term`
come between them. A signal wakes some sleeper, which then has to compete for
the mutex; the code does not go back to sleep when it loses, it returns
`OGS_ERROR`. Conditions may wake without a signal (`Spurious`).

`EventLoop` adds the loop of `smf_main`: `poll_notified` and `poll_other`,
callbacks and handlers that push to the loop's own queue (`loop_push`, which
may block: only the loop pops), `loop_pop` until the queue is empty, and the
end on `OGS_DONE`. `user_return` is a Diameter thread after its push, with
`ogs_pollset_notify`; `terminate`, `interrupt` and `term_notify` are
`event_termination`. The loop ends the process if a pop returns anything but
OK, DONE or RETRY, as its assertion does.

### OgsTimer, UpfUsage

A timer manager is a record of the pool (a FIFO, so that a deleted timer is
handed out again after the others), the running timers in order, and the
`lnode.next` pointers of the list of expired ones. The red-black tree is the
sequence of its nodes: `add_timer_node` puts a timer behind those with the same
timeout. `expire` is the first loop of `ogs_timer_mgr_expire`, which links what
is due; `expire_trigger` and `expire_response` are one turn of the second: stop
the timer, call the callback, go to what `next` says then. The callbacks are
`upf_sess_urr_acc_timers_cb` (report, snapshot, restart or add the timers) and
`response_timeout` of the report's transaction (again, or delete the timer).
`packet` is `upf_sess_urr_acc_add`. A response to a report in *associated*
deletes the transaction (`report_response`); in *will_associate* the state
machine ignores it after the transaction layer has stopped the timer
(`report_dropped`): the transaction stays, without a running timer, unless the
response comes a second time. `dropped` holds these transactions. `batch`,
`reported` and `quiet` are history variables.

### N4Association

The state machines of the two sides are one, since they differ in the
restoration and the session messages only. `initiator` is the configuration:
the sides whose configuration names the peer. A transaction in `net` is waiting
for execution, taken without an answer, answered, or lost; a process that is
replaced takes its transactions along, and a request the old process of the
peer has executed may come again to the new one (`retransmit`). A heartbeat
carries the recovery time stamp in both directions (`Learned`); an association
setup carries it, too, but no code looks at it there. `Settled` is the look at
`restoration_required` in the state *associated*; `Move` is a transition with
everything its EXIT and ENTRY signals do. Two history variables start at 0 with
every SMF process: `removals` counts the restorations of the UPF that removed
sessions of that process, `belated` the answers of an earlier process that came
late and changed the time stamp the UPF keeps.

The timers `t_association` and `t_no_heartbeat` last longer than a transaction
(`ogs-config.c`), so that a new request of a kind is sent when none is under
way.

### NfRegistration

`nf` is the NF's state machine for the NRF with its three timers; `inst`,
`timer` and `queue` are the NRF's. A request is first received into the queue
and then handled, and so is the expiry of a timer: either order is possible,
and an instance may be removed by an event that is older than its last
heartbeat. `gap` counts how long the NF has been taking itself for registered
while the NRF does not know it. A message that is under way longer than a tick
is a fault, as are losses, ends of the NF (with or without the time to
de-register) and of the NRF. A timer event whose instance was removed by a
DELETE in the meantime reads released memory: the NRF goes on or is replaced
(`nrf_stale_timer`).

### Dn4Channel, Dsmf, Df, Dn4

On DN4 the detail of retransmission is replaced by what `PfcpXact` establishes:
a request is in flight only while its originator waits for it, the responder
remembers it for as long, and its stored response can arrive as long as it is
held. Message loss is that no step is forced.

`gnb_sync` is `dsmf_sbi_handle_gnb_sync_request` through to the PFCP request it
sends: within the one call a session passes from *initial* through
*wait_ran_sync* into *wait_pfcp_establishment*. Requests with missing
parameters (TEID 0 included) are refused without effect and not modelled. The
two undefined reads of the code are choices: the lookup in `gnb_session_hash`,
whose key is a dead stack buffer, finds or misses an existing session; the
SEID, read from a pool that nothing initialises, is any member of `SeidValue`.
`recv_response`, `session_timer` and `handle_event` are separate, so that
responses and timers meet in `queue` in every order. An abort is `dsmf =
"aborted"`; `restart` begins a new process. `dsmf_sess_modify` and
`dsmf_sess_delete` have no caller in the repository: the constant `SessApi`
says whether they are used. It is assumed that a DF is configured
(`dsmf_discover_df_node` finds one) and known to the DF as a node.

In `Df`, `establish` is the whole handler of an establishment request, from
`df_sess_add_by_message` to the response; the checks it makes on PDRs and FARs
are passed by the one PDR and one FAR the DSMF's builder produces. `delete`
does not answer, as in the code. `forget` is the end of a held transaction: its
holding time is over, or a request of a new DSMF process has its id and another
type, which `ogs_pfcp_xact_update_rx` refuses and deletes the transaction for.

### Dmf

`register`, `deregister` and `ran_report` are the three gnb-sync requests of
`dmf_state_operational`; `ran_report` is `dmf_update_gnb_ran_info`, the 200 and
`dmf_forward_to_dsmf`, in that order. A transaction is *discovering*, *sent* or
*over*; only a request that cannot be sent removes it (`xact_remove`), otherwise
it stays and so does its timer. `client_wait_expire` and
`validity_expire` are the SBI timers that `dmf_state_operational` hands to the
state machine of the NRF instance, whatever they belong to. An NRF is
configured and no SCP, as in `configs/open5gs/dmf.yaml.in`. The ids of gNBs are
taken to be shorter than the 64 characters of `gnb_id`: `dmf/context.c:29`
truncates what is longer, and `:38` compares in full, so that such a gNB would
not be found again. The AMF sends decimal numbers of 32 bits.

## Runs

Passing:

| Run | Checks | Bounds |
|---|---|---|
| `PfcpXact` | `TypeOK`, `AtMostOnce`, `ImplementsCall` (refinement of `PfcpCall`), `RequestEnds`, `RequestForgotten` | one transaction, the counts of `ogs-config.c` (3 transmissions, held once), T1 = 3, Delay = 2 |
| `EventLoop` | `TypeOK`, `WaitersCounted`, `NoLostWakeup`, `TermWakesAll`, `NoMissedEvent`, `ImplementsFifo` (refinement of `OgsFifo`), `FullQueueDrains`, `ShutdownCompletes` | the loop, a pushing thread and one that pushes and pops with a time limit; capacity 2 |
| `UpfUsage` | `TypeOK`, `TimersAccounted`, `ListIntact`, `TimersRun`, `UsageReported`, `ReportsGoOn`, `ReportsEnd` | two triggers with periods 2 and 3, four timers, reports sent twice, threshold 2, volume 3 |
| `N4Association` | `TypeOK`, `OneRemovalPerStart`, `StaysAssociated`, `StaleSessionsRemoved`, `SessionsRestored` | one session, either side associates, two faults (restart or loss) |
| `NfRegistration` | `TypeOK`, `HeartbeatsInTime`, `GapBounded`, `StaysRegistered`, `DeadRemoved` | intervals of 2, 1, 3 and 1 ticks, three faults |
| `Dn4` | `TypeOK`, `EstablishedIfSeidsUsable`, `OperationalSeidKnown`, `EstablishmentEnds` | two sessions of one gNB session, SEIDs 0 to 2, an address that does not parse, a DF with room for one session |
| `Dn4Api` | `EstablishedIfSeidsUsable`, `NoDanglingRoute` | two sessions and three transactions of each of two processes, the second started when the DF has forgotten the transactions of the first; deletion and modification |
| `Dmf` | `TypeOK`, `RanInfoIsLastReport`, `OnlyRegisteredListed`, `ForwardedAtMostOnce` | one gNB, three reports, two transactions, one restart |

Why the bounds are enough. Transactions do not interact in `xact.c` - every
variable is per transaction id and an id is used once - so one is enough, and
the theorems hold for any number. With three threads and two slots a woken
thread can be overtaken by a third, in either direction, and the queue is full
while the loop pushes; the theorems hold for any number of both. Two triggers
are due together when the loop is late, next to two report timers, and four
timers are one too few for a third report: the pool runs out. Two faults are a
restart during the recovery from a restart or a loss; both sides associating at
once was tried and has too many states (more than five million with two
faults), so that case is not covered. Three faults of the registration are, for
example, a lost heartbeat, a restart of the NRF and a late answer; the run also
passes with four. The registration's
intervals keep what the defaults have in common: the margin (1 s) is shorter
than the heartbeat interval, which the NRF's configuration sets, and the retry
in exception (2 s) is shorter than the reconnection (11 s), which outlasts a
request. Two sessions and two endpoints are what
it takes to confuse one with the other. One gNB is enough for the DMF because a
report touches only its own record; three reports against two transactions
reach the full pool.

Violated, each a disagreement between the code and what a comment, message or
document of the repository says (quoted under `findings`):

| Run | Property | Shows |
|---|---|---|
| `Dn4FastRestart` | `EstablishedIfSeidsUsable` | a DSMF restarted within the holding time meets answers to its predecessor |
| `DmfRegistration` | `RegistrationLasts` | the timer of a forwarded report crashes the DMF |
| `N4Restoration` | `RestorationKeepsNew` | a session of the restarted SMF that overtakes its first heartbeat is removed |
| `UpfUsagePeriod` | `OncePerPeriod` | of two triggers due at once the second fires although the first restarted it |

### Behaviour in the models without a run of its own

These are part of the models, so that the properties above are checked over
them; some of them contradict a comment.

- DSMF: an endpoint for a session that exists is dropped
  (`dsmf/context.c:126`; the comment at `:345` says it is updated). Sessions
  with equal SEIDs are confused (`context.c:84`); this is the condition
  `SeidsUsable` in `EstablishedIfSeidsUsable`, without which the property
  fails. Two nodes of the SEID pool are taken for each session, so that the
  process aborts at half of `pool.sess` (`SeidPoolAbort`). The lookup by gNB
  session may miss an existing session (`gnb_sync`). Removing a session from
  its own state machine aborts (`dsmf-sm.c:259`, `RemoveAborts`).
- DF: gNBs that choose the same TEID share one entry of `teid_hash`
  (`establish`); a full session pool aborts (`SessPoolAbort`), which the
  sessions of dead DSMF processes bring about.
- DMF: reports of gNBs that are not registered are forwarded
  (`dmf-sm.c:167`), although `dmf/context.c:75` refuses to keep them; a report
  behind a discovery is overtaken by a later one that is sent directly; one
  for which no DSMF is found is lost after its 200; transactions are
  removed only when a request cannot be sent; the validity timer of the DSMF moves the NRF's state machine to
  *de_registered*.
- Queue: a woken thread that is overtaken returns `OGS_ERROR`, and its event is
  dropped, although nobody interrupted it (the comments at `ogs-queue.c:145`
  and `:240` say "If we wake up and it's still empty, then we were
  interrupted"). A loop that fills its own queue blocks until the shutdown
  (`SelfBlocked`).
- Timers: the comment at `ogs-timer.c:181` forbids callbacks to delete timers;
  `xact.c:612` deletes its own. `ListIntact` shows that this is harmless for
  the callbacks modelled here.
- UPF: an empty pool of timers ends the process; the volume in a report that is
  given up is not reported again. A response to a report that arrives in
  *will_associate* leaves the transaction and its stopped timer behind
  (`upf/pfcp-sm.c:138`): this is the exception `dropped` in `TimersRun` and
  `ReportsEnd`.
- N4: a side that does not associate and loses a heartbeat waits for a setup
  request that its peer, whose heartbeats it answers, does not send
  (`HalfOpen`): this is the exception in `StaleSessionsRemoved` and
  `SessionsRestored`. The recovery time stamp of an association setup is
  ignored, and a peer that restarts before its first heartbeat is not
  recognised (hence the condition on `remote` there). The response to an
  establishment that reaches an SMF in *will_associate* is dropped, and the
  session stays in *wait*. A heartbeat answer of an earlier SMF process that
  arrives after the first heartbeat of the new one puts the old time stamp back
  (`lib/pfcp/handler.c:84` stores it, although `:80` logs it as invalid); the
  next heartbeat then removes the sessions of the running process once more.
  `OneRemovalPerStart` counts these answers in `belated`.
- NRF: an expired timer removes an instance whose heartbeat was answered just
  before; the NF learns of it from the next heartbeat (`GapBounded`).

**Deadlock** is checked in `EventLoop`, `N4Association` and `NfRegistration`.
The other passing runs say `CHECK_DEADLOCK FALSE`: their bounds on
transactions, reports and restarts let them come to rest, an aborted process
may stay down.

**Fairness.** `PfcpXact` assumes that time passes, that expired timers are
served and that the network does not keep a datagram for ever - not that
requests are answered, nor that users commit. `EventLoop` assumes that the
scheduler runs every thread that can run (weak fairness) and that the callbacks
of a round and the handler of an event end (strong fairness of `loop_pop`,
since a callback that pushes disables it for a while); nothing has to be
pushed, popped by another thread or terminated, and no time limit has to
expire. `UpfUsage` assumes that the loop comes back to the timers and that time
passes. `N4Association` assumes that a transaction that is not lost is executed
and answered, that one nothing more will come of times out - which `PfcpXact`
shows (`RequestEnds`) - and that timers expire. `NfRegistration` assumes that
messages that are not lost arrive, that the NRF empties its queue, that timers
expire and that an NF that has ended is started again, as
`configs/systemd/*.service.in` do with `Restart=always`. In both, faults are
bounded, hence *eventually* means after the last fault. `Dn4` assumes that the
event loop empties its queue and serves the session timers, which `dsmf_main`
does in every round; nothing is assumed of the DF or of the network.

## Proofs

`PfcpXactProofs`, for all `N1`, `T1`, `H1` > 0, `Delay < T1` and any set of
transaction ids:

- `TypeCorrect`: `Spec => []TypeOK`;
- `AtMostOnceHolds`: `Spec => []AtMostOnce`;
- `Refinement`: `Spec => ImplementsCall`, step by step.

`AtMostOnce` is not inductive: that the responder has forgotten a request says
nothing by itself about the copies in flight. `Inv` adds the arithmetic. For a
waiting originator, the time to the running timer's expiry plus `rcount - 1`
periods is the time to the deadline `born + N1 * T1` (`Originator`); a request
in flight was sent a full period before that deadline (`InFlight`); a handled
request is remembered until the deadline (`Responder`). A request that arrives
is at most `Delay < T1` old, so it arrives before the deadline
(`RequestBeforeDeadline`), when it is either new or still remembered.

`EventLoopProofs`, for any finite set of threads, any values and any capacity
above 0, with the main loop one of the threads and any calls of the others:

- `TypeCorrect`, `CountsExact` (`WaitersCounted`), `WakeupsReach`
  (`NoLostWakeup`), `TerminationWakes` (`TermWakesAll`), `EventsReachLoop`
  (`NoMissedEvent`);
- `Refinement`: `Spec => ImplementsFifo`.

`QueueInv` is the conjunction of the queue's properties with `RingOK`, which
ties `in` to `out` and `nelts`. `NoLostWakeup` is inductive only together with
`WaitersCounted`: a transfer signals when the count is positive, and only
exact counts say that this is when somebody sleeps. A transfer changes the
values in the queue by one and the woken threads by one (`TransferWaits`); a
thread that goes to sleep does so on an empty, or full, queue (`WaitInv`); one
that times out or resumes leaves the balance intact (`LeaveInv`). `Inv` adds
which calls the loop is in at each of its places (`LoopCalls`) and that the
announcement of an event is there already when the loop, having found the queue
empty, is on its way to the poll (`EventsSeen`). The refinement rests on what an insertion appends to `Contents`
and a removal takes from it (`ContentsAppend`, `ContentsTail`).

`DmfProofs`, for any sets of gNBs and reports and any bounds: `TypeCorrect`,
`RanInfoCurrent`, `ListedIsRegistered` and `NoDoubleForward`, from `Inv`, which
adds that a gNB outside the list has no information left (otherwise a later
registration would revive it) and that a report still to be sent has not been
received.

`Dn4Proofs`, for any sets of sessions, SEIDs, endpoints and any bounds:

- `TypeCorrect` (`TypeOK`) and `RoutesNeverDangle` (`NoDanglingRoute`), without
  a hypothesis: restarts at any time, deletion and modification included;
- `EstablishedSessionsAreReal` (`EstablishedIfSeidsUsable`), if a DSMF starts
  again only when the DF has forgotten the transactions of its predecessor
  (`WaitBeforeRestart`). The hypothesis is needed: `Dn4FastRestart` is the
  counterexample without it;
- `OperationalSeidsKnown` (`OperationalSeidKnown`), if moreover `SessApi` is
  FALSE: nothing in the repository calls the functions it stands for.

That an operational session exists at the DF is not inductive, since the step
that makes it operational looks at an event, the event at a response, the
response at a transaction of the DF. `AnswersTrue` says that an acceptance is
true wherever it has got to - held by the DF, or in the DSMF's queue - and
`OwnRequests` and `EventsInRange` that it is about a request of this process.
What could make it false again is a deletion; `NoDanglingRoute` and `IdsUnique`
show that a deletion reaches only the session with the SEID that is being
deleted, which `SeidsUsable` keeps apart from the others. For the second result
`AnswersKnown` is the same without `SeidsUsable`, and `NoDeletion` says that no
deletion is under way.

`NfRegistrationProofs`, for any intervals and margin above 0 and any number of
faults:

- `TypeCorrect`;
- `GapIsBounded` (`GapBounded`): `GapInv` adds that a registered NF watches
  its heartbeats (`Watched`), that a response is under way only for the process
  that runs (`ForTheRunning`), and that, once the count has begun, nothing is
  under way that would set the watch again, so that the time left on it and the
  gap add up to no more than `Interval + Margin` (`GapCounted`);
- `HeartbeatsAreInTime` (`HeartbeatsInTime`): without a fault the NF and the
  NRF are in one of a few phases of one dialogue - registering, quiet, or a
  heartbeat somewhere between the two. `OnTime` gives the whole state in each,
  with the NF's timer `Margin` ahead of the NRF's.

`N4AssociationProofs`, for any sessions and any number of faults: `TypeCorrect`
and `RemovalsBounded` (`OneRemovalPerStart`): the UPF removes sessions of an SMF
process at most once, and once more for every answer of an earlier process that
came late. The bound is not inductive, since a removal is decided when a
heartbeat is received and carried out later. `Counted` bounds the removals so
far together with those still to come: one if the UPF keeps the stamp of an
earlier process (`Outdated`), one if a restoration is pending while there are
sessions of the running process (`Due`). A pending restoration waits in
*will_associate* only, where no session comes up (`Waits`), and no session is
one of a process yet to start. `Inv` adds that a transaction under way is one of
a process that runs, and that no answer has a time stamp later than that of the
process that runs on the other side (`NetCurrent`): without it a time stamp from
nowhere would start a restoration.

`UpfUsageProofs`, for any timers, triggers, durations and thresholds:

- `AllUsageReported` (`UsageReported`): `Counted` adds that the reports of a
  session add up to exactly `last`; the proof does not look at the timers, so
  that it holds for expiries in any order;
- `TypeCorrect`, from `Counted` and the bounds of the two other counters;
- `EveryTimerAccounted` (`TimersAccounted`), `ListStaysIntact` (`ListIntact`)
  and `NobodyWaitsInVain` (`TimersRun`), from one inductive invariant,
  `TimersInv`. It adds that no timer is twice in the pool, the tree or the list
  (`Ordered`, `Distinct`), that none is both in the pool and running, and that
  a timer outside the pool is used for what its owner is, a trigger or a report
  (`Owned`). The last gives every timer one owner: without it nothing says that
  the timer which an answer or the last expiry of a report deletes is not one
  that a trigger waits for. It also adds that the reports without a running
  timer are exactly those of `dropped`.

The steps about the timers go through what the functions of the source do to
the manager. What only sets up or sends takes nothing away (`Grown`): timers go
on running, a stopped timer of a report is not started, and the links of timers
outside the pool stay, so that the rest of
the list, which is running and so outside the pool, survives it (`Walk`). What
deletes in the middle of the list deletes the timer at the cursor only; the link
of a deleted timer stays until the timer is handed out again.

`DataLemmas` has the least-number principle in a form the provers can use
(for a set, from the well-foundedness of `<`). It stands in for induction: from
it follow `SetInduction` and `Iteration`, that a function defined by recursion
on a number is what its definition says. With them the loops over triggers and
timers (`timers_setup`, `remove_all`) and the selection from a sequence (`Only`)
are reasoned about for any length. The rest is what adding to a bag and taking
from it does.

Only model-checked:

- the liveness properties (`RequestEnds`, `RequestForgotten`,
  `FullQueueDrains`, `ShutdownCompletes`, `ReportsGoOn`, `ReportsEnd`,
  `StaysAssociated`, `StaleSessionsRemoved`, `SessionsRestored`,
  `StaysRegistered`, `DeadRemoved`, `EstablishmentEnds`), since fairness is
  outside the prover's reach. Every other property of a passing run is a
  theorem.

## Not modelled

- Generated codecs: the ASN.1 code of NGAP and S1AP, the OpenAPI models and the
  NAS, PFCP and GTP message code are nearly all of the repository's lines. They
  encode and decode, without state or order of their own. The models cover a
  small share of the repository for this reason.
- The service logic of the unmodified network functions (AMF, SMF beyond N4
  association, AUSF, UDM, UDR, PCF, BSF, NSSF, SCP, SEPP, MME, HSS, SGW).
- The DNF, whose session operations no event reaches.
- The association of DSMF and DF, which never starts: no association request
  and no heartbeat is sent, and responses are consumed before the state
  machine. A restart of the DF is therefore never noticed.
- The AMF's hooks, which return before they send: the DMF they look up is
  neither subscribed to nor discovered. `Dmf` has their requests as its
  environment. (They would also report a gNB when its connection is accepted,
  with id 0, before NG Setup gives it one.)
- On N4: modification and deletion of sessions, reselection of another UPF,
  EPC sessions. Requests of a process that is replaced are taken to be lost if
  they have not arrived.
- NF registration: subscriptions, discovery and the list of instances, whose
  responses in the state *registered* may lead to *exception*; refused
  profiles.
- Usage reporting: changes of a URR by a modification request, measurement that
  does not start at once, several URRs, whose counters are separate.
- UE addresses, QoS and buffering of the DF, which the DSMF's requests do not
  use; session modification beyond its failing to be built (the header's
  message type is never set).
- Message encoding and HTTP, JSON parsing, logging and metrics.

## Plan

1. A composition of DMF and DSMF: from a RAN report to the DSMF session,
   including the order in which reports overtake each other. The abstract
   specification: the DSMF's endpoint for a session is one the gNB reported.
2. The data path: DF and DNF, rediscovery of the DNF (whose interval compares
   microseconds with seconds).
3. That `Dn4Channel` and the transactions of `N4Association` are what
   `PfcpXact` provides.

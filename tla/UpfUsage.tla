------------------------------ MODULE UpfUsage ------------------------------
(***************************************************************************)
(* Usage reporting of the UPF (src/upf/context.c): the volume that a       *)
(* session forwards is counted and reported to the SMF when a threshold is *)
(* reached, when one of up to three timers expires, and with the deletion. *)
(* A report is a PFCP request, whose transaction has a timer of its own;   *)
(* the callbacks of both kinds work on the timers while                    *)
(* ogs_timer_mgr_expire walks its list of them.                            *)
(*                                                                         *)
(* One session with one URR.  The timers of a transaction other than       *)
(* tm_response are never started for a report and are left out.            *)
(***************************************************************************)
EXTENDS OgsTimer, FiniteSets

CONSTANTS Triggers,    \* time triggers of the URR, in the order of their setup
          Pool,        \* the timers, in the order the pool starts with
          Report,      \* use of tm_response
          Period,      \* duration of each trigger
          T1,          \* t1_response_duration
          N1,          \* n1_response_rcount
          Threshold,   \* volume threshold
          MaxVolume    \* bound: what a session forwards

Trigger == ToSet(Triggers)

ASSUME UsageAssumption ==
  /\ Pool \in Seq(Slot) /\ ToSet(Pool) = Slot /\ IsInjective(Pool)
  /\ Triggers \in Seq(User) /\ IsInjective(Triggers)
  /\ User = Trigger \cup {Report} /\ Report \notin Trigger
  /\ Period \in [Trigger -> 1 .. MaxDuration] /\ T1 \in 1 .. MaxDuration
  /\ {N1, Threshold} \subseteq Nat \ {0} /\ MaxVolume \in Nat

VARIABLES
  up,        \* whether the process runs
  mgr,       \* the timer manager
  cursor,    \* the timer ogs_timer_mgr_expire is at, Null outside of it
  batch,     \* history: the timers that were due and are still to be handled
  urr,       \* the timer of each trigger, or Null
  rcount,    \* response_rcount of the transaction that has the timer, or 0
  dropped,   \* the timers of transactions whose response was not handled
  sess,      \* whether there is the session
  total,     \* octets forwarded
  last,      \* octets up to the last report
  reported,  \* history: octets in all reports of the session
  quiet      \* history: time since the last report, up to MaxDuration

vars == <<up, mgr, cursor, batch, urr, rcount, dropped, sess, total, last,
          reported, quiet>>

Init ==
  /\ up = TRUE
  /\ mgr = [free |-> Pool, tree |-> <<>>,
            left |-> [s \in Slot |-> 0], next |-> [s \in Slot |-> Null],
            use |-> [s \in Slot |-> Report]]
  /\ cursor = Null
  /\ batch = <<>>
  /\ urr = [t \in Trigger |-> Null]
  /\ rcount = [s \in Slot |-> 0]
  /\ dropped = {}
  /\ sess = FALSE
  /\ total = 0 /\ last = 0 /\ reported = 0 /\ quiet = 0

-----------------------------------------------------------------------------
(* Operations on the timers, one after the other on a record.  A timer that *)
(* the pool does not have any more ends the process in ogs_assert.          *)

\* What the operations work on: ok is FALSE when one of them has failed.
Work == [mgr : Manager, urr : [Trigger -> Slot \cup {Null}],
         rcount : [Slot -> 0 .. N1], ok : BOOLEAN]

State == [mgr |-> mgr, urr |-> urr, rcount |-> rcount, ok |-> TRUE]

\* upf_pfcp_send_session_report_request: a transaction, whose timer is started.
send_report(w) ==
  IF w.mgr.free = <<>> THEN [w EXCEPT !.ok = FALSE]
  ELSE LET s == Fresh(w.mgr)
       IN  [w EXCEPT !.mgr = timer_start(timer_add(@, Report), s, T1),
                     !.rcount[s] = N1]

\* Mutant: a timer is only started when it is added.
trigger_setup_Once(w, t) ==
  IF w.urr[t] # Null THEN w
  ELSE IF w.mgr.free = <<>> THEN [w EXCEPT !.ok = FALSE]
  ELSE LET s == Fresh(w.mgr)
       IN  [w EXCEPT !.mgr = timer_start(timer_add(@, t), s, Period[t]),
                     !.urr[t] = s]

\* The timer of trigger t is started, and added before if there is none.  (A
\* function of w, which TLC evaluates once.)
trigger_setup(w, t) ==
  LET setup[v \in Work] ==
        IF v.urr[t] # Null
        THEN [v EXCEPT !.mgr = timer_start(@, v.urr[t], Period[t])]
        ELSE IF v.mgr.free = <<>> THEN [v EXCEPT !.ok = FALSE]
        ELSE LET s == Fresh(v.mgr)
             IN  [v EXCEPT !.mgr = timer_start(timer_add(@, t), s, Period[t]),
                           !.urr[t] = s]
  IN  setup[w]

\* upf_sess_urr_acc_timers_setup.
timers_setup(w) ==
  LET after[i \in 0 .. Len(Triggers)] ==
        IF i = 0 THEN w ELSE trigger_setup(after[i - 1], Triggers[i])
  IN  after[Len(Triggers)]

\* upf_sess_urr_acc_remove_all (which begins with the threshold timer, if there
\* is one: a difference in the order of the pool only).
remove_all(w) ==
  LET after[i \in 0 .. Len(Triggers)] ==
        IF i = 0 THEN w.mgr ELSE timer_delete(after[i - 1], w.urr[Triggers[i]])
  IN  [w EXCEPT !.mgr = after[Len(Triggers)], !.urr = [t \in Trigger |-> Null]]

\* Mutant: the timer is deleted twice.
xact_delete_Twice(w, s) ==
  [w EXCEPT !.mgr = timer_delete(timer_delete(@, s), s), !.rcount[s] = 0]

\* ogs_pfcp_xact_delete.
xact_delete(w, s) == [w EXCEPT !.mgr = timer_delete(@, s), !.rcount[s] = 0]

Becomes(w) == \E v \in {w} : /\ mgr' = v.mgr
                             /\ urr' = v.urr
                             /\ rcount' = v.rcount
                             /\ up' = v.ok

\* fill_usage_report and snapshot, when total is n.
Reported(n) == /\ reported' = reported + (n - last)
               /\ last' = n
               /\ quiet' = 0

-----------------------------------------------------------------------------
(* Messages and packets, between two calls of ogs_timer_mgr_expire. *)

Idle == up /\ cursor = Null

\* Mutant: the counters of the last report are those of the old session.
session_establishment_KeepLast ==
  /\ Idle /\ ~sess
  /\ sess' = TRUE
  /\ total' = 0 /\ reported' = 0 /\ quiet' = 0
  /\ Becomes(timers_setup(State))
  /\ UNCHANGED <<cursor, batch, dropped, last>>

\* A session with a URR that measures from the start (ISTM).
session_establishment ==
  /\ Idle /\ ~sess
  /\ sess' = TRUE
  /\ total' = 0 /\ last' = 0 /\ reported' = 0 /\ quiet' = 0
  /\ Becomes(timers_setup(State))
  /\ UNCHANGED <<cursor, batch, dropped>>

\* Mutant: a report is due when the threshold is exceeded.
ThresholdReached_Exceeded(n) == n - last > Threshold

ThresholdReached(n) == n - last >= Threshold

\* upf_sess_urr_acc_add.
packet(size) ==
  /\ Idle /\ sess /\ total + size <= MaxVolume
  /\ total' = total + size
  /\ IF ThresholdReached(total + size)
     THEN /\ Reported(total + size)
          /\ Becomes(timers_setup(send_report(State)))
     ELSE UNCHANGED <<up, mgr, urr, rcount, last, reported, quiet>>
  /\ UNCHANGED <<cursor, batch, dropped, sess>>

\* The response has the last report.
session_deletion ==
  /\ Idle /\ sess
  /\ sess' = FALSE
  /\ Reported(total)
  /\ Becomes(remove_all(State))
  /\ UNCHANGED <<cursor, batch, dropped, total>>

\* The receipt stops the timer, the commit deletes it.  Between the two lies the
\* event queue, and nothing that looks at the transaction: one step.  A second
\* response, after one that was dropped, fails in ogs_pfcp_xact_update_rx, which
\* deletes the transaction too.
report_response(s) ==
  /\ Idle /\ rcount[s] > 0
  /\ Becomes(xact_delete(State, s))
  /\ dropped' = dropped \ {s}
  /\ UNCHANGED <<cursor, batch, sess, total, last, reported, quiet>>

\* The receipt stops the timer, but the association is down and
\* upf_pfcp_state_will_associate does not handle the response.
report_dropped(s) ==
  /\ Idle /\ rcount[s] > 0 /\ s \notin dropped
  /\ mgr' = timer_stop(mgr, s)
  /\ dropped' = dropped \cup {s}
  /\ UNCHANGED <<up, cursor, batch, urr, rcount, sess, total, last, reported,
                 quiet>>

-----------------------------------------------------------------------------
(* ogs_timer_mgr_expire. *)

expire ==
  /\ Idle /\ Due(mgr) # <<>>
  /\ mgr' = Linked(mgr)
  /\ batch' = Due(mgr)
  /\ cursor' = FirstOf(Due(mgr))
  /\ UNCHANGED <<up, urr, rcount, dropped, sess, total, last, reported, quiet>>

Stopped == [State EXCEPT !.mgr = timer_stop(@, cursor)]

\* Mutant: the timers are deleted and added again.
timers_cb_Renew(w) == timers_setup(remove_all(send_report(w)))

timers_cb(w) == timers_setup(send_report(w))

\* Mutant: the transaction is tried for ever.
response_timeout_NoCount(w) == [w EXCEPT !.mgr = timer_start(@, cursor, T1)]

\* response_timeout.
response_timeout(w) ==
  IF w.rcount[cursor] > 1
  THEN [w EXCEPT !.mgr = timer_start(@, cursor, T1), !.rcount[cursor] = @ - 1]
  ELSE xact_delete(w, cursor)

Advance == /\ cursor' = mgr'.next[cursor]
           /\ batch' = IF batch = <<>> THEN <<>> ELSE Tail(batch)

\* Mutant: nothing is reported when a timer expires.
expire_trigger_Silent ==
  /\ up /\ cursor # Null /\ mgr.use[cursor] \in Trigger
  /\ Becomes(timers_setup(Stopped))
  /\ Advance
  /\ UNCHANGED <<dropped, sess, total, last, reported, quiet>>

\* upf_sess_urr_acc_timers_cb.
expire_trigger ==
  /\ up /\ cursor # Null /\ mgr.use[cursor] \in Trigger
  /\ Reported(total)
  /\ Becomes(timers_cb(Stopped))
  /\ Advance
  /\ UNCHANGED <<dropped, sess, total>>

expire_response ==
  /\ up /\ cursor # Null /\ mgr.use[cursor] = Report
  /\ Becomes(response_timeout(Stopped))
  /\ Advance
  /\ UNCHANGED <<dropped, sess, total, last, reported, quiet>>

\* Time passes, also while the process is at work.
tick ==
  /\ up
  /\ mgr' = Later(mgr)
  /\ quiet' = IF quiet < MaxDuration THEN quiet + 1 ELSE quiet
  /\ UNCHANGED <<up, cursor, batch, urr, rcount, dropped, sess, total, last,
                 reported>>

Next == \/ session_establishment \/ session_deletion
        \/ \E size \in 1 .. Threshold : packet(size)
        \/ \E s \in Slot : report_response(s) \/ report_dropped(s)
        \/ expire \/ expire_trigger \/ expire_response
        \/ tick

Spec == Init /\ [][Next]_vars

\* The main loop comes back to the timers, and time passes.
FairSpec == /\ Spec
            /\ WF_vars(expire) /\ WF_vars(expire_trigger) /\ WF_vars(expire_response)
            /\ WF_vars(tick)

-----------------------------------------------------------------------------
(* Properties. *)

\* The kinds of value of the variables: what was reported has been forwarded.
TypeOK ==
  /\ up \in BOOLEAN /\ sess \in BOOLEAN
  /\ mgr \in Manager
  /\ cursor \in Slot \cup {Null}
  /\ batch \in Seq(Slot)
  /\ urr \in [Trigger -> Slot \cup {Null}]
  /\ rcount \in [Slot -> 0 .. N1]
  /\ dropped \subseteq Slot
  /\ total \in 0 .. MaxVolume /\ last \in 0 .. total
  /\ quiet \in 0 .. MaxDuration

Reports == {s \in Slot : rcount[s] > 0}
Timed == {urr[t] : t \in Trigger} \ {Null}

\* A timer is in the pool, of a trigger or of a transaction, and never two of
\* these or none, although callbacks delete their own timers and add others
\* (response_timeout, upf_sess_urr_acc_timers_cb).
TimersAccounted ==
  /\ Len(mgr.free) = Cardinality(Free(mgr))
  /\ Cardinality(Timed) = Cardinality({t \in Trigger : urr[t] # Null})
  /\ Reports \cap Timed = {}
  /\ Free(mgr) = Slot \ (Reports \cup Timed)

\* The list that ogs_timer_mgr_expire walks is never cut, and holds no timer
\* that a callback before it has stopped or deleted, although the comment
\* above the loop forbids the deletions that callbacks do.
ListIntact ==
  /\ cursor = FirstOf(batch)
  /\ \A i \in DOMAIN batch :
       /\ mgr.next[batch[i]] = IF i = Len(batch) THEN Null ELSE batch[i + 1]
       /\ batch[i] \in Running(mgr)

\* Nobody waits in vain: the timer of every report that is not answered, and
\* each one of a session's triggers, runs.  Only the transactions whose response
\* was dropped stay without one (upf_pfcp_state_will_associate).
TimersRun == up => /\ Reports \ Running(mgr) = dropped
                   /\ sess => \A t \in Trigger : urr[t] \in Running(mgr)
                   /\ ~sess => Timed = {}

\* What a session has forwarded and not reported stays below the threshold,
\* and its deletion reports the rest.
UsageReported == IF sess THEN total - last < Threshold ELSE reported = total

\* A session that forwards nothing is reported all the same, again and again.
ReportsGoOn == []<>(~up \/ ~sess \/ quiet = 0)

\* A report that is never answered is given up; a transaction stays only when
\* its response was dropped.
ReportsEnd ==
  \A s \in Slot : (rcount[s] > 0) ~> (~up \/ rcount[s] = 0 \/ s \in dropped)

\* The callback starts a new report period for all timers of the URR: none of
\* them fires before one of the periods is over.
OncePerPeriod ==
  [][expire_trigger => \E t \in Trigger : quiet >= Period[t]]_vars
=============================================================================

------------------------------ MODULE OgsTimer ------------------------------
(***************************************************************************)
(* The timers of lib/core/ogs-timer.c: a pool of timers, those that run in *)
(* the order of their timeout, and the list of those that are due, which   *)
(* ogs_timer_mgr_expire walks while the callbacks of the timers start,     *)
(* add and delete timers themselves.                                       *)
(*                                                                         *)
(* A timer manager is a record; an operation maps it to the next one.      *)
(***************************************************************************)
EXTENDS Naturals, Sequences, SequencesExt

CONSTANTS Slot,          \* the timers of the pool
          Null,          \* no timer
          User,          \* what a timer is for: its callback and data
          MaxDuration    \* the longest duration

ASSUME TimerAssumption == Null \notin Slot /\ MaxDuration \in Nat \ {0}

\* free: the pool, in the order it hands its timers out.  tree: the timers
\* that run, by timeout.  left: time to the timeout of those, 0 for others.
\* next: lnode.next, where ogs_timer_mgr_expire may read it.
Manager == [free : Seq(Slot), tree : Seq(Slot),
            left : [Slot -> 0 .. MaxDuration],
            next : [Slot -> Slot \cup {Null}],
            use : [Slot -> User]]

Running(m) == ToSet(m.tree)
Free(m) == ToSet(m.free)

\* The members of S among the elements of q, in their order: SelectSeq, whose
\* definition the provers do not know.
Only(q, S) ==
  LET kept[i \in 0 .. Len(q)] ==
        IF i = 0 THEN <<>>
        ELSE IF q[i] \in S THEN Append(kept[i - 1], q[i]) ELSE kept[i - 1]
  IN  kept[Len(q)]

-----------------------------------------------------------------------------
(* Operations.  The use of a timer is still there after its deletion. *)

timer_stop(m, s) ==
  [m EXCEPT !.tree = Only(@, Slot \ {s}), !.left[s] = 0]

\* add_timer_node: behind the timers with the same timeout.
timer_start(m, s, d) ==
  LET before == Only(m.tree, {t \in Slot \ {s} : m.left[t] <= d})
      after == Only(m.tree, {t \in Slot \ {s} : m.left[t] > d})
  IN  [m EXCEPT !.tree = Append(before, s) \o after, !.left[s] = d]

timer_delete(m, s) ==
  [timer_stop(m, s) EXCEPT !.free = Append(@, s)]

\* A timer of the pool, which has one, is cleared.
Fresh(m) == Head(m.free)
timer_add(m, u) ==
  [m EXCEPT !.free = Tail(@), !.next[Fresh(m)] = Null, !.use[Fresh(m)] = u]

-----------------------------------------------------------------------------
(* ogs_timer_mgr_expire. *)

\* The timers that are due, in order.
Due(m) == Only(m.tree, {t \in Slot : m.left[t] = 0})

FirstOf(list) == IF list = <<>> THEN Null ELSE Head(list)

\* They are linked to a list: each to the one behind it.
Linked(m) ==
  LET due == Due(m)
      Behind(i) == IF i = Len(due) THEN Null ELSE due[i + 1]
  IN  [m EXCEPT !.next = [s \in Slot |->
         IF Contains(due, s) THEN Behind(CHOOSE i \in DOMAIN due : due[i] = s)
                             ELSE Null]]

\* The time that passes.
Later(m) == [m EXCEPT !.left = [s \in Slot |-> IF @[s] = 0 THEN 0 ELSE @[s] - 1]]
=============================================================================

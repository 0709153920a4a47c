---------------------------- MODULE MCEventLoop -----------------------------
(* Instances of EventLoop for TLC. *)
EXTENDS EventLoop, TLC

CONSTANTS l, d1, d2,    \* the main loop and two other threads
          v1, v2        \* two events

Threads == {l, d1, d2}
Events == {v1, v2}

\* One thread pushes; another pushes and pops, as tests/core/queue-test.c does.
EveryCall == (d1 :> {<<"push", "wait", v1>>}) @@
             (d2 :> {<<"push", "wait", v2>>, <<"pop", "timed", NoValue>>})
=============================================================================

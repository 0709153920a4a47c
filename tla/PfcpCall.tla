------------------------------ MODULE PfcpCall ------------------------------
(***************************************************************************)
(* What a user of the PFCP transaction layer relies on: a request is a     *)
(* call that the peer executes at most once, that succeeds only after the  *)
(* peer has executed it, and that may fail with the peer's execution       *)
(* undetermined - but never with an execution still to come.               *)
(***************************************************************************)
EXTENDS Naturals

CONSTANT Xid            \* the transaction ids the originator uses

VARIABLES call,         \* what the originator knows of each call
          exec          \* how often the peer's handler ran for each call

callVars == <<call, exec>>

Init == /\ call = [x \in Xid |-> "idle"]
        /\ exec = [x \in Xid |-> 0]

\* The originator issues the call.
Request(x) == /\ call[x] = "idle"
              /\ call' = [call EXCEPT ![x] = "pending"]
              /\ UNCHANGED exec

\* The peer's handler runs, once, while the originator still waits.
Execute(x) == /\ call[x] = "pending"
              /\ exec[x] = 0
              /\ exec' = [exec EXCEPT ![x] = 1]
              /\ UNCHANGED call

\* The originator learns of the execution.
Succeed(x) == /\ call[x] = "pending"
              /\ exec[x] = 1
              /\ call' = [call EXCEPT ![x] = "ok"]
              /\ UNCHANGED exec

\* The originator gives up; the peer may or may not have executed the call.
Fail(x) == /\ call[x] = "pending"
           /\ call' = [call EXCEPT ![x] = "failed"]
           /\ UNCHANGED exec

Next == \E x \in Xid : Request(x) \/ Execute(x) \/ Succeed(x) \/ Fail(x)

Spec == Init /\ [][Next]_callVars
=============================================================================

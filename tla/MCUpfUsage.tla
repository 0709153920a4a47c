----------------------------- MODULE MCUpfUsage -----------------------------
(* Instances of UpfUsage for TLC. *)
EXTENDS UpfUsage

CONSTANTS validity, quota,       \* triggers
          s1, s2, s3, s4         \* timers

InOrder == <<validity, quota>>
AllTimers == <<s1, s2, s3, s4>>
Periods == validity :> 2 @@ quota :> 3
=============================================================================

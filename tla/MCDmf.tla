------------------------------- MODULE MCDmf --------------------------------
(* Instances of Dmf for TLC. *)
EXTENDS Dmf

CONSTANTS g1,           \* a gNB
          r1, r2, bad   \* RAN reports; the address of bad does not parse
=============================================================================

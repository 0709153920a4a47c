-------------------------- MODULE MCN4Association --------------------------
(* Instances of N4Association for TLC. *)
EXTENDS N4Association

\* Who is configured to associate: the SMF or the UPF.
OneAssociates == {{"smf"}, {"upf"}}
SmfAssociates == {{"smf"}}
=============================================================================

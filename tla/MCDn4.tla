------------------------------- MODULE MCDn4 --------------------------------
(* Instances of Dn4 for TLC. *)
EXTENDS Dn4

CONSTANTS k1,           \* a gNB session
          a1, a2        \* RAN addresses

\* Two endpoints, and one whose address does not parse.
Endpoints == {[addr |-> a1, teid |-> 1], [addr |-> a2, teid |-> 2],
              [addr |-> NoAddr, teid |-> 1]}
OneEndpoint == {[addr |-> a1, teid |-> 1]}
TwoEndpoints == {[addr |-> a1, teid |-> 1], [addr |-> a2, teid |-> 2]}
=============================================================================

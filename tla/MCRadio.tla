------------------------------ MODULE MCRadio ------------------------------
(* Two or three neighbours and a node out of reach, two channels; MSH-DSCH   *)
(* bursts of one unit and data bursts of three.                              *)
EXTENDS Radio, TLC

CONSTANTS a, b, c, x, k0, k1

MCKinds == {[type |-> "DSCH", duration |-> 1], [type |-> "DATA", duration |-> 3]}
Plain == [links |-> FALSE, lossy |-> FALSE]
MCSetups == {Plain, [links |-> TRUE, lossy |-> TRUE]}
PlainSetups == {Plain}
MCSymmetry == Permutations(Neighbor) \cup Permutations(Channel)

=============================================================================

---------------------------- MODULE MCReservation ----------------------------
(* A small instance of Reservation: a chain of four nodes, with its hidden   *)
(* and exposed terminals, that ends in a triangle.                           *)
EXTENDS Reservation, TLC

CONSTANTS a, b, c, d, e

MCNode == {a, b, c, d, e}
MCNbr == a :> {b} @@ b :> {a, c} @@ c :> {b, d, e} @@ d :> {c, e} @@ e :> {c, d}
=============================================================================

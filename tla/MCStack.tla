------------------------------ MODULE MCStack ------------------------------
(* Values for Stack's constants: little room, so that all of it is used. *)
EXTENDS Stack

SmallBases == {0, 2, 3}
Addresses == {258}
=============================================================================

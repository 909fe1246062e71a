------------------------------ MODULE MCShell ------------------------------
(* Values for Shell's constants. *)
EXTENDS Shell, TLC

ThreeRoms ==
  [ roms |-> 3, files |-> (0 :> "rom") @@ (1 :> "notrom") @@ (2 :> "missing"),
    keys |-> {17, 23, 19} ]

\* The division by zero, the index -1 and the empty name.
NoRoms == [ roms |-> 0, files |-> <<>>, keys |-> {17, 31, 23} ]

TwoRoms == [ roms |-> 2, files |-> (0 :> "rom") @@ (1 :> "notrom"), keys |-> {31, 23} ]

ManySessions == {ThreeRoms, TwoRoms, NoRoms}
OneSession == {TwoRoms}
=============================================================================

------------------------------ MODULE MCFrame ------------------------------
(* Frame at a small scale: see the cfg files. *)
EXTENDS Frame
=============================================================================

---------------------------- MODULE MCCartridge ----------------------------
(* Values for Cartridge's constants: one file of each kind that            *)
(* fce_load_rom tells apart.                                               *)
EXTENDS Cartridge

Rom(name, mapper, prg, chr, mirror) ==
  [name |-> name, signed |-> TRUE, mapper |-> mapper, prg |-> prg, chr |-> chr,
   mirroring |-> mirror, pieces |-> 2 * prg + chr]

SomeFiles ==
  { Rom("nrom", 0, 1, 1, 0), Rom("cnrom", 3, 2, 2, 1), Rom("ram", 0, 2, 0, 0),
    Rom("uxrom", 66, 3, 1, 1), Rom("large", 0, 4, 0, 0),
    [Rom("cut", 19, 1, 1, 1) EXCEPT !.pieces = 1],
    [Rom("text", 5, 9, 9, 1) EXCEPT !.signed = FALSE] }
=============================================================================

----------------------------- MODULE MCPpuPort -----------------------------
(* Values for PpuPort's constants: addresses near the end of a nametable,  *)
(* in repetitions of the palette and at the end of the address space.      *)
EXTENDS PpuPort, TLC

\* Steps of 1 and 32; addresses 0x23F0, 0x3F3F, 0x3FF0 and others of their
\* bytes; two data bytes.
StreamValues ==
  [r \in StoreRegs |-> CASE r = 0 -> {0, 4} [] r = 6 -> {35, 63, 240} [] OTHER -> {0, 1}]

NameAndPalette == (8192 .. 12287) \cup (16128 .. 16383)

\* A pattern cell, which a position runs into from 0x3FF0, past the end of the
\* address space; 0x2410 with its twins, which one runs into from 0x23F0; and
\* the background colour, to which 0x3FF0 and 0x3F40 lead as well.
StreamCells == {16, 8208, 9232, 10256, 11280, PALETTE}

StreamPages == {[c \in {16} |-> 3]}

PatternValues ==
  [r \in StoreRegs |-> CASE r = 6 -> {0, 4} [] OTHER -> {1, 2}]

Everywhere == 0 .. VRAM - 1

PatternCells == {0, 4, 1024, 1028}
=============================================================================

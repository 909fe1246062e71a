------------------------------- MODULE Memory -------------------------------
(***************************************************************************)
(* The processor's memory, emulator/memory.c over cpu.c's CPU_RAM and      *)
(* mmc.c's memory, and the stack routines of cpu.c, as operators.          *)
(*                                                                         *)
(* A memory is a function on the cells that anything has been stored to;   *)
(* all other cells are 0, as static arrays are in C.  The two ranges that  *)
(* belong to the picture unit and to the controller are ports: what they   *)
(* do is in PpuPort and Joypad.                                            *)
(*                                                                         *)
(* The stack routines work on any record that has the stack pointer SP and *)
(* a memory mem.  Definitions named for a fault are not part of the model: *)
(* each stands before the definition it spoils.                            *)
(***************************************************************************)
EXTENDS Integers

Byte == 0..255
Word == 0..65535
PAGE_ONE == 256

\* memory_readb's and memory_writeb's switch (address >> 13).  The 2 KiB of
\* CPU_RAM stand behind the lowest and also behind the fourth range.
IsRam(a) == a \div 8192 \in {0, 3}
IsPort(a) == a \div 8192 \in {1, 2}
Cell(a) == IF IsRam(a) THEN a % 2048 ELSE a

ReadB(m, a) == IF ~IsPort(a) /\ Cell(a) \in DOMAIN m THEN m[Cell(a)] ELSE 0

WriteB(m, a, d) ==
  IF IsPort(a) THEN m
  ELSE [x \in DOMAIN m \cup {Cell(a)} |-> IF x = Cell(a) THEN d ELSE m[x]]

\* A word, low byte first; the address of its second byte wraps around.
ReadW(m, a) == ReadB(m, a) + 256 * ReadB(m, (a + 1) % 65536)
WriteW(m, a, d) == WriteB(WriteB(m, a, d % 256), (a + 1) % 65536, d \div 256)

-----------------------------------------------------------------------------
\* The stack is page one, and grows downwards.  Bytes are pushed at 0x100+SP;
\* words at 0xFF+SP, one lower, without a look at whether SP wraps between
\* their two bytes.

PushByte(s, d) ==
  [s EXCEPT !.mem = WriteB(@, PAGE_ONE + s.SP, d), !.SP = (s.SP + 255) % 256]

PushWordLow(s, d) ==
  [s EXCEPT !.mem = WriteW(@, PAGE_ONE - 2 + s.SP, d), !.SP = (s.SP + 254) % 256]

PushWord(s, d) ==
  [s EXCEPT !.mem = WriteW(@, PAGE_ONE - 1 + s.SP, d), !.SP = (s.SP + 254) % 256]

PopByteEarly(s) ==
  [value |-> ReadB(s.mem, PAGE_ONE + s.SP), SP |-> (s.SP + 1) % 256]

\* What is popped, and where SP then is.
PopByte(s) == LET sp == (s.SP + 1) % 256
              IN [value |-> ReadB(s.mem, PAGE_ONE + sp), SP |-> sp]

PopWord(s) == LET sp == (s.SP + 2) % 256
              IN [value |-> ReadW(s.mem, PAGE_ONE - 1 + sp), SP |-> sp]
=============================================================================

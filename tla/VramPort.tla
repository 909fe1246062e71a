------------------------------ MODULE VramPort ------------------------------
(***************************************************************************)
(* What a program may rely on when it talks to video memory through        *)
(* PPUADDR and PPUDATA: two stores set a position, the high byte first, if *)
(* the status was looked at before; every access moves the position on by  *)
(* one step; stores change the cell at the position and no other; loads    *)
(* return the cell of the access before, since the picture unit answers    *)
(* from a buffer one access behind.  Nametables come in mirrored pairs,    *)
(* the palette in repetitions: a cell has one value under all of its       *)
(* addresses.                                                              *)
(*                                                                         *)
(* PpuPort implements this.  What is not promised is Unspecified, or, of a *)
(* cell, missing from the domain of cell: that of a nametable cell which   *)
(* was last written under another ROM's mirroring.                         *)
(***************************************************************************)
EXTENDS Integers

CONSTANTS
  Bytes,
  Cells,
  Pages                           \* pages of patterns: their cells' bytes

SIZE == 16384                     \* 14 bits of address
Addr == 0 .. SIZE - 1
Unspecified == -1
Unwatched == -1
Whole == -2

VARIABLES
  v,                              \* where the next access goes
  last,                           \* where the last one went
  half,                           \* the first byte of an address, or Whole between addresses
  step,                           \* 1 along a row, 32 down a column
  mirroring,                      \* 0: bit 10 of a nametable address is ignored; 1: bit 11
  cell,                           \* the contents, as far as they are known
  out                             \* the byte last loaded

vars == <<v, last, half, step, mirroring, cell, out>>

TwinBit(m) == IF m = 0 THEN 1024 ELSE 2048

\* The one address that stands for all of a cell's.  Nothing is promised of
\* addresses between the nametables and the palette.
Mapped(a) == a < 12288 \/ a >= 16128

Canonical(a, m) ==
  CASE a < 8192 -> a
    [] a >= 8192 /\ a < 12288 -> IF (a \div TwinBit(m)) % 2 = 1 THEN a - TwinBit(m) ELSE a
    [] OTHER -> IF a % 32 \in {16, 20, 24, 28} THEN 16112 + (a % 32) ELSE 16128 + (a % 32)

CellsOf(m) == {c \in Cells : Mapped(c) /\ Canonical(c, m) = c}

\* Is f a byte for each of some of the cells?
Contents(f, m) == DOMAIN f \subseteq CellsOf(m) /\ f \in [DOMAIN f -> 0..255]

Init ==
  /\ v = 0 /\ last = Unspecified
  /\ half = Unspecified
  /\ step = 1
  /\ mirroring \in {0, 1}
  /\ Contents(cell, mirroring)
  /\ out = Unwatched

MoveOn ==
  /\ last' = v
  /\ v' = IF v = Unspecified THEN Unspecified ELSE (v + step) % SIZE
  /\ UNCHANGED half

Load ==
  /\ MoveOn
  /\ out' \in 0..255 \cup {Unwatched}
  /\ last # Unspecified /\ Mapped(last) /\ Canonical(last, mirroring) \in DOMAIN cell =>
       out' = cell[Canonical(last, mirroring)]
  /\ UNCHANGED <<step, mirroring, cell>>

\* From then on the cell that is stored to is known.
Store(d) ==
  /\ MoveOn
  /\ Contents(cell', mirroring)
  /\ v # Unspecified /\ Mapped(v) =>
       cell' = [c \in DOMAIN cell \cup ({Canonical(v, mirroring)} \cap CellsOf(mirroring)) |->
                  IF c = Canonical(v, mirroring) THEN d ELSE cell[c]]
  /\ UNCHANGED <<step, mirroring, out>>

\* In the middle of a stream of accesses the program must set the address anew.
Restart ==
  /\ v' = IF last = Unspecified THEN v ELSE Unspecified
  /\ last' = Unspecified
  /\ UNCHANGED <<step, mirroring, cell, out>>

\* A look at the status: the next byte of an address is a first one.
Look == Restart /\ half' = Whole

\* The first byte of an address is stored to PPUADDR ...
Half(d) ==
  /\ half \in {Whole, Unspecified}
  /\ half' = IF half = Whole THEN d ELSE Unspecified
  /\ Restart

\* ... and the second.
Point(d) ==
  /\ half # Whole
  /\ IF half = Unspecified
     THEN v' \in Addr /\ UNCHANGED half
     ELSE v' = (half * 256 + d) % SIZE /\ half' = Whole
  /\ last' = Unspecified
  /\ UNCHANGED <<step, mirroring, cell, out>>

\* Another step does not go with a stream that has begun.
SetStep ==
  /\ step' \in {1, 32}
  /\ IF step' = step \/ last = Unspecified
     THEN UNCHANGED <<v, last>>
     ELSE v' = Unspecified /\ last' = Unspecified
  /\ UNCHANGED <<half, mirroring, cell, out>>

\* The contents with a page of patterns copied over them.
Under(page) == [c \in DOMAIN cell |-> IF c \in DOMAIN page THEN page[c] ELSE cell[c]]

\* The cartridge shows another page of patterns.
Switch(page) ==
  /\ cell' = Under(page)
  /\ UNCHANGED <<v, last, half, step, mirroring, out>>

\* Another ROM, with patterns of its own or without.  The rest of memory is as
\* the last ROM left it, and nametables that are mirrored otherwise are
\* unknown; so is whether half an address is waiting.
Insert(m, page) ==
  /\ v' = 0 /\ last' = Unspecified /\ half' = Unspecified
  /\ step' = 1
  /\ mirroring' = m
  /\ cell' = [c \in {c \in DOMAIN cell : c >= 8192 /\ c < 12288 => m = mirroring} |->
                Under(page)[c]]
  /\ UNCHANGED out

Next ==
  \/ Load
  \/ \E d \in Bytes : Store(d) \/ Half(d) \/ Point(d)
  \/ Look \/ SetStep
  \/ \E page \in Pages : Switch(page)
  \/ \E m \in {0, 1} : \E page \in Pages \cup {[c \in {} |-> 0]} : Insert(m, page)

Spec == Init /\ [][Next]_vars
=============================================================================

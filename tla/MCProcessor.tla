---------------------------- MODULE MCProcessor ----------------------------
(***************************************************************************)
(* Programs for Processor, in machine code, with what they must compute.   *)
(* Each leaves its inputs where they can still be read when it halts.      *)
(***************************************************************************)
EXTENDS Processor, FiniteSets, TLC

Placed(origin, bytes) ==
  [a \in origin .. origin + Len(bytes) - 1 |-> bytes[a - origin + 1]]

ByteAt(a) == ReadB(cpu.mem, a)
WordAt(a) == ReadW(cpu.mem, a)
FlagAt(a, i) == BitAt(ByteAt(a), i) = 1
Edges == {0, 1, 127, 128, 255}

\* An interrupt handler that uses every register and the stack, at 0x8100.
HandlerCode ==
  <<72, 138, 72, 152, 72, 230, 16, 162, 127, 160, 128, 56,\* pha; txa; pha; tya; pha; inc $10; ldx #$7f; ldy #$80; sec
    32, 21, 129, 104, 168, 104, 170, 104, 64, 169, 64,  \* jsr sub; pla; tay; pla; tax; pla; rti; lda #$40
    101, 16, 8, 40, 96>>                                \* adc $10; php; plp; rts

Vectors == Placed(65530, <<0, 129, 0, 128>>)

\* At 0x8000 the program, below it what RAM holds.
MemoryOf(code, ram) ==
  ram @@ Vectors @@ Placed(32768, code) @@ Placed(33024, HandlerCode)

Image(code, ram) == [mem |-> MemoryOf(code, ram), nmis |-> 0]
InterruptedImage(code, ram) == [mem |-> MemoryOf(code, ram), nmis |-> 2]

\* Every program ends where no other does.
HaltedAt(end) == Halted /\ cpu.PC = end

-----------------------------------------------------------------------------
\* The product of the bytes at $04 and $05, by shifts and additions, at $00
\* (low) and $03 (high); $00 starts as a copy of $04.
MultiplyCode ==
  <<162, 255, 154, 162, 8, 169, 0, 70, 0, 144, 3, 24,   \* ldx #$ff; txs; ldx #8; lda #0; lsr $00; bcc skip; clc
    101, 5, 106, 102, 0, 202, 208, 245, 133, 3,         \* adc $05; rora; ror $00; dex; bne loop; sta $03
    76, 22, 128>>                                       \* jmp done

MultiplyEnd == 32790

MultiplyImages ==
  {InterruptedImage(MultiplyCode, (0 :> x) @@ (4 :> x) @@ (5 :> y)) :
     x \in {0, 3, 170, 255}, y \in {1, 129, 255}}

\* A product of two bytes is right wherever interrupts come (shifts, carries
\* between bytes, branches, and all that an interrupt saves).
ProductIsRight ==
  HaltedAt(MultiplyEnd) => ByteAt(0) + 256 * ByteAt(3) = ByteAt(4) * ByteAt(5)

-----------------------------------------------------------------------------
\* For the words at $00 and $02: their sum at $04, its flags at $06, their
\* difference at $07, its flags at $09; $0A and $0B count up when the first is
\* below the second, without and with signs; twice the first at $0C, and then
\* half of that again.
WordsCode ==
  <<24, 165, 0, 101, 2, 133, 4, 165, 1, 101, 3,         \* clc; lda $00; adc $02; sta $04; lda $01; adc $03
    133, 5, 8, 104, 133, 6, 56, 165, 0, 229, 2,         \* sta $05; php; pla; sta $06; sec; lda $00; sbc $02
    133, 7, 165, 1, 229, 3, 133, 8, 8, 104, 133, 9,     \* sta $07; lda $01; sbc $03; sta $08; php; pla; sta $09
    165, 8, 80, 2, 73, 128, 16, 2, 230, 11, 165, 1,     \* lda $08; bvc same; eor #$80; bpl notless; inc $0b; lda $01
    197, 3, 208, 4, 165, 0, 197, 2, 176, 2, 230, 10,    \* cmp $03; bne differ; lda $00; cmp $02; bcs notbelow; inc $0a
    165, 0, 10, 133, 12, 165, 1, 42, 133, 13, 102, 13,  \* lda $00; asla; sta $0c; lda $01; rola; sta $0d; ror $0d
    102, 12, 76, 72, 128>>                              \* ror $0c; jmp done

WordsEnd == 32840

WordImages ==
  {Image(WordsCode, Placed(0, <<x[1], x[2], y[1], y[2]>>)) :
     x \in Edges \X Edges, y \in Edges \X Edges}

Signed(w) == IF w > 32767 THEN w - 65536 ELSE w

\* Addition byte by byte is addition of words, and its flags are those of the
\* whole word: carry without signs, overflow with.
SumsAreExact ==
  HaltedAt(WordsEnd) =>
    LET x == WordAt(0)
        y == WordAt(2)
        signed == Signed(x) + Signed(y) IN
    /\ WordAt(4) = (x + y) % 65536
    /\ FlagAt(6, carry) <=> x + y > 65535
    /\ FlagAt(6, overflow) <=> signed \notin -32768 .. 32767
    /\ FlagAt(6, negative) <=> Signed(WordAt(4)) < 0

\* So is subtraction, with the carry as the absence of a borrow.
DifferencesAreExact ==
  HaltedAt(WordsEnd) =>
    LET x == WordAt(0)
        y == WordAt(2)
        signed == Signed(x) - Signed(y) IN
    /\ WordAt(7) = (x - y) % 65536
    /\ FlagAt(9, carry) <=> x >= y
    /\ FlagAt(9, overflow) <=> signed \notin -32768 .. 32767

\* Branches after comparisons decide the order of words, with the carry
\* without signs, with negative and overflow with them.
OrderIsExact ==
  HaltedAt(WordsEnd) =>
    /\ ByteAt(10) = IF WordAt(0) < WordAt(2) THEN 1 ELSE 0
    /\ ByteAt(11) = IF Signed(WordAt(0)) < Signed(WordAt(2)) THEN 1 ELSE 0

\* A word shifted left and back through the carry is the same word.
ShiftsAreInverse == HaltedAt(WordsEnd) => WordAt(12) = WordAt(0)

\* All of that: words can be computed with, byte by byte.
WordsAreExact ==
  SumsAreExact /\ DifferencesAreExact /\ OrderIsExact /\ ShiftsAreInverse

-----------------------------------------------------------------------------
\* Sorts the four bytes from $20 on, comparing and exchanging neighbours.
SortCode ==
  <<162, 255, 154, 160, 0, 162, 0, 181, 32, 213, 33,    \* ldx #$ff; txs; ldy #0; ldx #0; lda $20,x; cmp $21,x
    144, 12, 240, 10, 72, 181, 33, 149, 32, 104,        \* bcc ok; beq ok; pha; lda $21,x; sta $20,x; pla
    157, 33, 0, 200, 232, 224, 3, 208, 233, 192, 0,     \* sta $0021,x; iny; inx; cpx #3; bne next; cpy #0
    208, 225, 76, 34, 128>>                             \* bne again; jmp done

SortEnd == 32802

SortImages ==
  {Image(SortCode, Placed(32, <<a, b, c, d>>) @@ Placed(36, <<a, b, c, d>>)) :
     a \in {0, 128, 255}, b \in {0, 1, 255}, c \in {1, 127, 128}, d \in {0, 127}}

Occurrences(v, S) == Cardinality({a \in S : ByteAt(a) = v})

\* The bytes end up in order, and each as often as before (indexed modes,
\* comparisons, loops with two counters, the stack as a temporary).
SortIsRight ==
  HaltedAt(SortEnd) =>
    /\ \A i \in 32..34 : ByteAt(i) <= ByteAt(i + 1)
    /\ \A i \in 36..39 :
         Occurrences(ByteAt(i), 32..35) = Occurrences(ByteAt(i), 36..39)

-----------------------------------------------------------------------------
\* Copies four bytes from where the word at $01 points to where the word at
\* $FF points, whose high byte is at $00; then calls one of two handlers,
\* numbered by $03, by pushing its address and returning to it.  The first
\* goes on through a pointer in the last byte of a page.
CopyCode ==
  <<162, 255, 154, 160, 0, 162, 254, 177, 1, 129, 1,    \* ldx #$ff; txs; ldy #0; ldx #$fe; lda ($01),y; sta ($01,x)
    230, 255, 208, 2, 230, 0, 200, 192, 4, 208, 241,    \* inc $ff; bne near; inc $00; iny; cpy #4; bne loop
    166, 3, 189, 56, 128, 72, 189, 55, 128, 72, 96,     \* ldx $03; lda handlers+1,x; pha; lda handlers,x; pha; rts
    169, 1, 108, 255, 131, 32, 46, 128, 133, 4,         \* lda #1; jmp ($83ff); jsr sub; sta $04
    76, 43, 128, 169, 2, 96, 133, 4, 36, 4, 80, 244,    \* jmp done; lda #2; rts; sta $04; bit $04; bvc done
    32, 128, 37, 128>>                                  \* .byte <one-1,>one-1,<two-1,>two-1

CopyEnd == 32811
Source == <<11, 22, 33, 44, 55, 66, 77, 88>>

CopyImages ==
  {Image(CopyCode, (0 :> 6) @@ Placed(1, <<from, 129>>) @@ (3 :> which) @@ (255 :> to)
                   @@ Placed(6, <<from, to>>) @@ Placed(33276, Source)
                   @@ (33791 :> 49) @@ (33536 :> 128) @@ (33792 :> 0)) :
     from \in 252 .. 255, to \in 252 .. 255, which \in {0, 2}}

\* Whichever of source and target lies across the end of a page, four bytes
\* arrive, and the right handler runs and gives the stack back (pointers that
\* wrap in the zero page and in a page, calls by way of the stack).
CopyIsRight ==
  HaltedAt(CopyEnd) =>
    /\ \A i \in 0..3 : ByteAt(1536 + ByteAt(7) + i) = ByteAt(33024 + ByteAt(6) + i)
    /\ ByteAt(4) = IF ByteAt(3) = 0 THEN 1 ELSE 2
    /\ cpu.SP = 255

-----------------------------------------------------------------------------
\* Each combined operation on the cell $40, and the pair of operations that it
\* stands for on $50.  Both blocks start from A, a byte, X and P at $00..$03,
\* and leave A, X and P after the cell.
Pairs ==
  {[one |-> <<7, 64>>, two |-> <<6, 80, 5, 80>>],         \* slo = asl, ora
   [one |-> <<39, 64>>, two |-> <<38, 80, 37, 80>>],      \* rla = rol, and
   [one |-> <<71, 64>>, two |-> <<70, 80, 69, 80>>],      \* sre = lsr, eor
   [one |-> <<103, 64>>, two |-> <<102, 80, 101, 80>>],   \* rra = ror, adc
   [one |-> <<199, 64>>, two |-> <<198, 80, 197, 80>>],   \* dcp = dec, cmp
   [one |-> <<231, 64>>, two |-> <<230, 80, 229, 80>>],   \* isb = inc, sbc
   [one |-> <<167, 64>>, two |-> <<166, 80, 165, 80>>],   \* lax = ldx, lda
   [one |-> <<135, 64>>,                                  \* sax: no flags, no A
    two |-> <<8, 72, 134, 80, 37, 80, 133, 80, 104, 40>>]}

Block(code, cell) ==
  \* lda $03; pha; lda $01; sta cell; ldx $02; lda $00; plp
  <<165, 3, 72, 165, 1, 133, cell, 166, 2, 165, 0, 40>> \o code
  \* php; sta cell+1; stx cell+2; pla; sta cell+3
  \o <<8, 133, cell + 1, 134, cell + 2, 104, 133, cell + 3>>

PairCode(pair) ==
  LET code == Block(pair.one, 64) \o Block(pair.two, 80)
  IN code \o <<76, (Len(code) % 256), 128>>

PairEnds == {32768 + Len(PairCode(pair)) - 3 : pair \in Pairs}

PairImages ==
  {Image(PairCode(pair), Placed(0, <<a, v, x, p>>)) :
     pair \in Pairs, a \in Edges \cup {85}, v \in Edges \cup {170}, x \in {0, 15},
     p \in {32, 33}}

\* A combined operation leaves the cell, A, X and all flags as the two
\* operations one after the other do.
CombinedIsPair ==
  Halted /\ cpu.PC \in PairEnds => \A i \in 0..3 : ByteAt(64 + i) = ByteAt(80 + i)

-----------------------------------------------------------------------------
Programs ==
  MultiplyImages \cup WordImages \cup SortImages \cup CopyImages \cup PairImages
=============================================================================

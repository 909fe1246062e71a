-------------------------------- MODULE Cpu --------------------------------
(***************************************************************************)
(* The processor's instructions, emulator/cpu.c and cpu-addressing.c:      *)
(* operators on a record that holds the registers of CPU_STATE, the three  *)
(* globals in which an addressing mode hands its operand to the operation, *)
(* and the memory.  Integers are as wide as in the code: registers and     *)
(* bytes of memory 8 bits, PC 16, op_value and op_address int.             *)
(*                                                                         *)
(* Definitions named for a fault are not part of the model: each stands    *)
(* before the definition it spoils.                                        *)
(***************************************************************************)
EXTENDS Memory

Memories == UNION {[S -> Byte] : S \in SUBSET Word}

\* An address before it is truncated: of a branch, or of an indexed operand.
Addresses == -128 .. (2^16 - 1) + (2^8 - 1)

CpuState ==
  [A : Byte, X : Byte, Y : Byte, SP : Byte, P : Byte, PC : Word,
   op_value : Byte, op_address : Addresses, op_cycles : 0..1, mem : Memories]

-----------------------------------------------------------------------------
(* Bits.                                                                   *)

BitAt(v, i) == (v \div 2^i) % 2             \* of two's complement, v may be < 0
FromBits(f) == f[0] + 2 * f[1] + 4 * f[2] + 8 * f[3]
               + 16 * f[4] + 32 * f[5] + 64 * f[6] + 128 * f[7]
And(a, b) == FromBits([i \in 0..7 |-> BitAt(a, i) * BitAt(b, i)])
Or(a, b) == FromBits([i \in 0..7 |-> IF BitAt(a, i) + BitAt(b, i) > 0 THEN 1 ELSE 0])
Xor(a, b) == FromBits([i \in 0..7 |-> (BitAt(a, i) + BitAt(b, i)) % 2])

carry == 0
zero == 1
interrupt == 2
decimal == 3
break == 4
unused == 5
overflow == 6
negative == 7

Flag(c, i) == BitAt(c.P, i)

\* common_modify_bitb for each pair of a flag and its value in f.
Modify(P, f) ==
  FromBits([i \in 0..7 |-> IF <<i, TRUE>> \in f THEN 1
                           ELSE IF <<i, FALSE>> \in f THEN 0 ELSE BitAt(P, i)])
Flagged(c, f) == [c EXCEPT !.P = Modify(@, f)]

ZN(v) == {<<zero, v = 0>>, <<negative, v > 127>>}

\* Most operations leave a byte in a register or a cell, and its zn flags.
Load(c, register, v) == [Flagged(c, ZN(v)) EXCEPT ![register] = v]
Store(c, v) == [c EXCEPT !.mem = WriteB(@, c.op_address % 65536, v)]

-----------------------------------------------------------------------------
(* Operations.                                                             *)

AdcUnsigned(c) ==
  LET r == c.A + c.op_value + Flag(c, carry) IN
  Load(Flagged(c, {<<carry, r > 255>>, <<overflow, r > 255>>}), "A", r % 256)

AdcUnmasked(c) ==
  LET r == c.A + c.op_value + Flag(c, carry) IN
  Load(Flagged(c, {<<carry, r > 255>>}), "A", r)

Adc(c) ==
  LET r == c.A + c.op_value + Flag(c, carry) IN
  Load(Flagged(c, {<<carry, BitAt(r, 8) = 1>>,
                   <<overflow, /\ BitAt(c.A, 7) = BitAt(c.op_value, 7)
                               /\ BitAt(c.A, 7) # BitAt(r, 7)>>}), "A", r % 256)

Sbc(c) ==
  LET r == c.A - c.op_value - (1 - Flag(c, carry)) IN
  Load(Flagged(c, {<<carry, BitAt(r, 8) = 0>>,
                   <<overflow, /\ BitAt(c.A, 7) # BitAt(c.op_value, 7)
                               /\ BitAt(c.A, 7) # BitAt(r, 7)>>}), "A", r % 256)

BitTest(c) ==
  Flagged(c, {<<zero, And(c.A, c.op_value) = 0>>, <<overflow, BitAt(c.op_value, 6) = 1>>,
              <<negative, BitAt(c.op_value, 7) = 1>>})

Compare(c, v) ==
  LET r == v - c.op_value IN
  Flagged(c, {<<carry, r >= 0>>, <<zero, r = 0>>, <<negative, BitAt(r, 7) = 1>>})

RolledWithoutCarry(kind, v, in) ==
  CASE kind \in {"asl", "rol"} -> [out |-> v > 127, value |-> (2 * v) % 256]
    [] kind \in {"lsr", "ror"} -> [out |-> v % 2 = 1, value |-> v \div 2]

\* The four shifts of a byte, with the carry that goes in and comes out.
Shifted(kind, v, in) ==
  CASE kind = "asl" -> [out |-> v > 127, value |-> (2 * v) % 256]
    [] kind = "lsr" -> [out |-> v % 2 = 1, value |-> v \div 2]
    [] kind = "rol" -> [out |-> v > 127, value |-> ((2 * v) % 256) + in]
    [] kind = "ror" -> [out |-> v % 2 = 1, value |-> (v \div 2) + 128 * in]

ShiftA(kind, c) ==
  LET s == Shifted(kind, c.A, Flag(c, carry)) IN
  Load(Flagged(c, {<<carry, s.out>>}), "A", s.value)

\* op_value keeps the result, for the combined operations below.
Shift(kind, c) ==
  LET s == Shifted(kind, c.op_value, Flag(c, carry)) IN
  Store(Load(Flagged(c, {<<carry, s.out>>}), "op_value", s.value), s.value)

\* inc and dec of a cell; in the combined operations op_value changes too.
Step(c, by) ==
  LET v == (c.op_value + by) % 256 IN Store(Flagged(c, ZN(v)), v)

SteppedOperandUnkept(c, by) == Store(c, (c.op_value + by) % 256)

SteppedOperand(c, by) ==
  LET v == (c.op_value + by) % 256 IN Store([c EXCEPT !.op_value = v], v)

Jump(c) == [c EXCEPT !.PC = c.op_address % 65536]
Branch(c, taken) == IF taken THEN Jump(c) ELSE c

\* The return address on the stack is that of the last byte of the jsr.
Jsr(c) == Jump(PushWord(c, (c.PC + 65535) % 65536))
Rts(c) == LET w == PopWord(c) IN [c EXCEPT !.PC = (w.value + 1) % 65536, !.SP = w.SP]

NMI_VECTOR == 65530
RESET_VECTOR == 65532

\* brk goes through the vector of the NMI, and pushes the address of itself.
Brk(c) ==
  LET pushed == PushByte(PushWord(c, (c.PC + 65535) % 65536), c.P) IN
  [Flagged(pushed, {<<unused, TRUE>>, <<break, TRUE>>})
     EXCEPT !.PC = ReadW(pushed.mem, NMI_VECTOR)]

RtiKeepsFlags(c) ==
  LET w == PopWord([c EXCEPT !.SP = PopByte(c).SP])
  IN [c EXCEPT !.PC = w.value, !.SP = w.SP]

Rti(c) ==
  LET b == PopByte(c)
      w == PopWord([c EXCEPT !.SP = b.SP])
  IN [c EXCEPT !.P = Or(b.value, 32), !.PC = w.value, !.SP = w.SP]

Pla(c) == LET b == PopByte(c) IN Load([c EXCEPT !.SP = b.SP], "A", b.value)
Plp(c) == LET b == PopByte(c)
          IN [c EXCEPT !.SP = b.SP, !.P = Or(And(b.value, 239), 32)]

\* A & X & (op_address >> 8).
Axa(c) == Store(c, And(And(c.A, c.X), (c.op_address \div 256) % 256))

Operation(op, c) ==
  CASE op = "nop" -> c
    [] op = "adc" -> Adc(c)
    [] op = "sbc" -> Sbc(c)
    [] op = "and" -> Load(c, "A", And(c.A, c.op_value))
    [] op = "ora" -> Load(c, "A", Or(c.A, c.op_value))
    [] op = "eor" -> Load(c, "A", Xor(c.A, c.op_value))
    [] op = "bit" -> BitTest(c)
    [] op \in {"asl", "lsr", "rol", "ror"} -> Shift(op, c)
    [] op = "asla" -> ShiftA("asl", c)
    [] op = "lsra" -> ShiftA("lsr", c)
    [] op = "rola" -> ShiftA("rol", c)
    [] op = "rora" -> ShiftA("ror", c)
    [] op = "lda" -> Load(c, "A", c.op_value)
    [] op = "ldx" -> Load(c, "X", c.op_value)
    [] op = "ldy" -> Load(c, "Y", c.op_value)
    [] op = "sta" -> Store(c, c.A)
    [] op = "stx" -> Store(c, c.X)
    [] op = "sty" -> Store(c, c.Y)
    [] op = "tax" -> Load(c, "X", c.A)
    [] op = "txa" -> Load(c, "A", c.X)
    [] op = "tay" -> Load(c, "Y", c.A)
    [] op = "tya" -> Load(c, "A", c.Y)
    [] op = "tsx" -> Load(c, "X", c.SP)
    [] op = "txs" -> [c EXCEPT !.SP = c.X]
    [] op = "bcs" -> Branch(c, Flag(c, carry) = 1)
    [] op = "bcc" -> Branch(c, Flag(c, carry) = 0)
    [] op = "beq" -> Branch(c, Flag(c, zero) = 1)
    [] op = "bne" -> Branch(c, Flag(c, zero) = 0)
    [] op = "bmi" -> Branch(c, Flag(c, negative) = 1)
    [] op = "bpl" -> Branch(c, Flag(c, negative) = 0)
    [] op = "bvs" -> Branch(c, Flag(c, overflow) = 1)
    [] op = "bvc" -> Branch(c, Flag(c, overflow) = 0)
    [] op = "jmp" -> Jump(c)
    [] op = "jsr" -> Jsr(c)
    [] op = "rts" -> Rts(c)
    [] op = "brk" -> Brk(c)
    [] op = "rti" -> Rti(c)
    [] op = "clc" -> Flagged(c, {<<carry, FALSE>>})
    [] op = "sec" -> Flagged(c, {<<carry, TRUE>>})
    [] op = "cld" -> Flagged(c, {<<decimal, FALSE>>})
    [] op = "sed" -> Flagged(c, {<<decimal, TRUE>>})
    [] op = "cli" -> Flagged(c, {<<interrupt, FALSE>>})
    [] op = "sei" -> Flagged(c, {<<interrupt, TRUE>>})
    [] op = "clv" -> Flagged(c, {<<overflow, FALSE>>})
    [] op = "cmp" -> Compare(c, c.A)
    [] op = "cpx" -> Compare(c, c.X)
    [] op = "cpy" -> Compare(c, c.Y)
    [] op = "inc" -> Step(c, 1)
    [] op = "dec" -> Step(c, -1)
    [] op = "inx" -> Load(c, "X", (c.X + 1) % 256)
    [] op = "iny" -> Load(c, "Y", (c.Y + 1) % 256)
    [] op = "dex" -> Load(c, "X", (c.X + 255) % 256)
    [] op = "dey" -> Load(c, "Y", (c.Y + 255) % 256)
    [] op = "php" -> PushByte(c, Or(c.P, 48))
    [] op = "pha" -> PushByte(c, c.A)
    [] op = "pla" -> Pla(c)
    [] op = "plp" -> Plp(c)
    [] op = "aso" -> LET s == Shift("asl", c) IN Load(s, "A", Or(s.A, s.op_value))
    [] op = "rla" -> LET s == Shift("rol", c) IN Load(s, "A", And(s.A, s.op_value))
    [] op = "lse" -> LET s == Shift("lsr", c) IN Load(s, "A", Xor(s.A, s.op_value))
    [] op = "rra" -> Adc(Shift("ror", c))
    [] op = "dcm" -> LET s == SteppedOperand(c, -1) IN Compare(s, s.A)
    [] op = "ins" -> Sbc(SteppedOperand(c, 1))
    [] op = "lax" -> Load(Load(c, "X", c.op_value), "A", c.op_value)
    [] op = "axs" -> Store(c, And(c.A, c.X))
    [] op = "axa" -> Axa(c)
-----------------------------------------------------------------------------
(* Addressing modes: they find op_address, load op_value from there,       *)
(* whether the operation wants it or not, and move PC past the operand.    *)

\* The operand's own bytes.
ArgB(c) == ReadB(c.mem, c.PC)
ArgW(c) == ReadW(c.mem, c.PC)

Operand(c, address, value, length) ==
  [c EXCEPT !.op_address = address, !.op_value = value,
            !.PC = (@ + length) % 65536]

\* One cycle more when the operand and the next instruction are on different
\* pages.
PageCost(c) == [c EXCEPT !.op_cycles =
                  IF c.op_address \div 256 # c.PC \div 256 THEN 1 ELSE @]

At(c, address, length) ==
  Operand(c, address, ReadB(c.mem, address % 65536), length)

ZeroPage(c, index) == At(c, (ArgB(c) + index) % 256, 1)

IndirectUnwrapped(c) ==
  [c EXCEPT !.op_address = ReadW(c.mem, ArgW(c)), !.PC = (@ + 2) % 65536]

\* A pointer in the last byte of a page has its high byte at the page's start.
Indirect(c) ==
  LET a == ArgW(c)
      high == IF a % 256 = 255 THEN a - 255 ELSE (a + 1) % 65536
  IN [c EXCEPT !.op_address = ReadB(c.mem, a) + 256 * ReadB(c.mem, high),
               !.PC = (@ + 2) % 65536]

PointerUnwrapped(c, a) == ReadW(c.mem, a % 256)

\* A pointer in the zero page, whose second byte wraps around within it.
Pointer(c, a) == ReadB(c.mem, a % 256) + 256 * ReadB(c.mem, (a + 1) % 256)

IndirectY(c) == PageCost(At(c, (Pointer(c, ArgB(c)) + c.Y) % 65536, 1))

Relative(c) ==
  LET next == (c.PC + 1) % 65536
      offset == IF ArgB(c) > 127 THEN ArgB(c) - 256 ELSE ArgB(c)
  IN PageCost([c EXCEPT !.op_address = next + offset, !.PC = next])

Addressed(mode, c) ==
  CASE mode = "implied" -> c
    [] mode = "immediate" -> [c EXCEPT !.op_value = ArgB(c), !.PC = (@ + 1) % 65536]
    [] mode = "zero_page" -> ZeroPage(c, 0)
    [] mode = "zero_page_x" -> ZeroPage(c, c.X)
    [] mode = "zero_page_y" -> ZeroPage(c, c.Y)
    [] mode = "absolute" -> At(c, ArgW(c), 2)
    [] mode = "absolute_x" -> PageCost(At(c, ArgW(c) + c.X, 2))
    [] mode = "absolute_y" -> PageCost(At(c, (ArgW(c) + c.Y) % 65536, 2))
    [] mode = "indirect" -> Indirect(c)
    [] mode = "indirect_x" -> At(c, Pointer(c, ArgB(c) + c.X), 1)
    [] mode = "indirect_y" -> IndirectY(c)
    [] mode = "relative" -> Relative(c)

-----------------------------------------------------------------------------
(* The table of cpu_init: <<opcode, operation, mode, cycles>>.             *)

\* Operations come in columns: opcodes that differ only in their mode.
Columns(ops, cells) ==
  {<<o[2] + cell[1], o[1], cell[2], cell[3]>> : o \in ops, cell \in cells}

ReadModes ==
  {<<1, "indirect_x", 6>>, <<5, "zero_page", 3>>, <<9, "immediate", 2>>,
   <<13, "absolute", 4>>, <<17, "indirect_y", 5>>, <<21, "zero_page_x", 4>>,
   <<25, "absolute_y", 4>>, <<29, "absolute_x", 4>>}

\* and, absolute, is booked with 2 cycles where the others have 4.
AndModes == (ReadModes \ {<<13, "absolute", 4>>}) \cup {<<13, "absolute", 2>>}

StaModes ==
  {<<1, "indirect_x", 6>>, <<5, "zero_page", 3>>, <<13, "absolute", 4>>,
   <<17, "indirect_y", 6>>, <<21, "zero_page_x", 4>>, <<25, "absolute_y", 5>>,
   <<29, "absolute_x", 5>>}

ModifyModes ==
  {<<6, "zero_page", 5>>, <<14, "absolute", 6>>, <<22, "zero_page_x", 6>>,
   <<30, "absolute_x", 7>>}

CombinedModes ==
  {<<3, "indirect_x", 8>>, <<7, "zero_page", 5>>, <<15, "absolute", 6>>,
   <<19, "indirect_y", 8>>, <<23, "zero_page_x", 6>>, <<27, "absolute_y", 7>>,
   <<31, "absolute_x", 7>>}

Implied(cycles, ops) == {<<o[1], o[2], "implied", cycles>> : o \in ops}

BaseSet ==
  Columns({<<"ora", 0>>, <<"eor", 64>>, <<"adc", 96>>, <<"lda", 160>>,
           <<"cmp", 192>>, <<"sbc", 224>>}, ReadModes)
  \cup Columns({<<"and", 32>>}, AndModes)
  \cup Columns({<<"sta", 128>>}, StaModes)
  \cup Columns({<<"asl", 0>>, <<"rol", 32>>, <<"lsr", 64>>, <<"ror", 96>>,
                <<"dec", 192>>, <<"inc", 224>>}, ModifyModes)
  \cup {<<o[1], o[2], "relative", 2>> :
           o \in {<<16, "bpl">>, <<48, "bmi">>, <<80, "bvc">>, <<112, "bvs">>,
                  <<144, "bcc">>, <<176, "bcs">>, <<208, "bne">>, <<240, "beq">>}}
  \cup Implied(2, {<<10, "asla">>, <<42, "rola">>, <<74, "lsra">>, <<106, "rora">>,
                   <<24, "clc">>, <<56, "sec">>, <<88, "cli">>, <<120, "sei">>,
                   <<184, "clv">>, <<216, "cld">>, <<248, "sed">>, <<136, "dey">>,
                   <<138, "txa">>, <<152, "tya">>, <<154, "txs">>, <<168, "tay">>,
                   <<170, "tax">>, <<186, "tsx">>, <<200, "iny">>, <<202, "dex">>,
                   <<232, "inx">>, <<234, "nop">>})
  \cup Implied(3, {<<8, "php">>, <<72, "pha">>})
  \cup Implied(4, {<<40, "plp">>, <<104, "pla">>})
  \cup Implied(6, {<<64, "rti">>, <<96, "rts">>})
  \cup Implied(7, {<<0, "brk">>})
  \cup {<<32, "jsr", "absolute", 6>>, <<76, "jmp", "absolute", 3>>,
        <<108, "jmp", "indirect", 5>>,
        <<36, "bit", "zero_page", 3>>, <<44, "bit", "absolute", 4>>,
        <<132, "sty", "zero_page", 3>>, <<140, "sty", "absolute", 4>>,
        <<148, "sty", "zero_page_x", 4>>,
        <<134, "stx", "zero_page", 3>>, <<142, "stx", "absolute", 4>>,
        <<150, "stx", "zero_page_y", 4>>,
        <<160, "ldy", "immediate", 2>>, <<164, "ldy", "zero_page", 3>>,
        <<172, "ldy", "absolute", 4>>, <<180, "ldy", "zero_page_x", 4>>,
        <<188, "ldy", "absolute_x", 4>>,
        <<162, "ldx", "immediate", 2>>, <<166, "ldx", "zero_page", 3>>,
        <<174, "ldx", "absolute", 4>>, <<182, "ldx", "zero_page_y", 4>>,
        <<190, "ldx", "absolute_y", 4>>,
        <<192, "cpy", "immediate", 2>>, <<196, "cpy", "zero_page", 3>>,
        <<204, "cpy", "absolute", 4>>,
        <<224, "cpx", "immediate", 2>>, <<228, "cpx", "zero_page", 3>>,
        <<236, "cpx", "absolute", 4>>}

ExtendedSet ==
  Columns({<<"aso", 0>>, <<"rla", 32>>, <<"lse", 64>>, <<"rra", 96>>,
           <<"dcm", 192>>, <<"ins", 224>>}, CombinedModes)
  \cup {<<131, "axs", "indirect_x", 6>>, <<135, "axs", "zero_page", 3>>,
        <<143, "axs", "absolute", 4>>, <<151, "axs", "zero_page_y", 4>>,
        <<147, "axa", "indirect_y", 6>>, <<159, "axa", "absolute_y", 5>>,
        <<163, "lax", "indirect_x", 6>>, <<167, "lax", "zero_page", 3>>,
        <<175, "lax", "absolute", 4>>, <<179, "lax", "indirect_y", 5>>,
        <<183, "lax", "zero_page_y", 4>>, <<191, "lax", "absolute_y", 4>>,
        <<235, "sbc", "immediate", 2>>}

\* Opcodes that only fetch their operand.
NotImplementedSet ==
  {<<o, "nop", "zero_page", 1>> : o \in {4, 68, 100}}
  \cup {<<o, "nop", "zero_page_x", 1>> : o \in {20, 52, 84, 116, 212, 244}}
  \cup {<<o, "nop", "absolute_x", 1>> : o \in {28, 60, 92, 124, 220, 252}}
  \cup {<<o, "nop", "implied", 1>> : o \in {26, 58, 90, 122, 218, 250}}
  \cup {<<12, "nop", "absolute", 1>>, <<128, "nop", "immediate", 1>>}

OpcodeRows == BaseSet \cup ExtendedSet \cup NotImplementedSet

\* No row: cpu_op_address_mode[code] is NULL.
Opcode ==
  [code \in {row[1] : row \in OpcodeRows} |->
     LET row == CHOOSE r \in OpcodeRows : r[1] = code
     IN [op |-> row[2], mode |-> row[3], cycles |-> row[4]]]

-----------------------------------------------------------------------------
(* One round of cpu_run, and what happens to it from outside.              *)

OpcodeAt(c) == ReadB(c.mem, c.PC)

\* An opcode without a row costs nothing and does nothing.
Executed(c) ==
  LET fetched == [c EXCEPT !.PC = (@ + 1) % 65536, !.op_cycles = 0]
      code == OpcodeAt(c)
  IN IF code \in DOMAIN Opcode
     THEN Operation(Opcode[code].op, Addressed(Opcode[code].mode, fetched))
     ELSE fetched

\* What cpu_run books for the instruction at PC, which leads to c2.
Booked(c, c2) ==
  IF OpcodeAt(c) \in DOMAIN Opcode THEN Opcode[OpcodeAt(c)].cycles + c2.op_cycles ELSE 0

\* cpu_interrupt, when the picture unit generates NMIs: the flags are pushed
\* with the interrupt flag already set.
Interrupted(c) ==
  LET flagged == Flagged(c, {<<interrupt, TRUE>>, <<unused, FALSE>>})
      pushed == PushByte(PushWord(flagged, c.PC), flagged.P)
  IN [pushed EXCEPT !.PC = ReadW(pushed.mem, NMI_VECTOR)]

\* cpu_init and cpu_reset: no memory is cleared.
PoweredOn(m) ==
  [A |-> 0, X |-> 0, Y |-> 0, SP |-> 256 - 3, P |-> 36, PC |-> ReadW(m, RESET_VECTOR),
   op_value |-> 0, op_address |-> 0, op_cycles |-> 0, mem |-> m]
=============================================================================

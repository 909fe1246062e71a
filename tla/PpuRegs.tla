------------------------------ MODULE PpuRegs ------------------------------
(***************************************************************************)
(* The picture unit's registers as the processor sees them: ppu_io_read,   *)
(* ppu_io_write, ppu_init and the address decoding under them              *)
(* (emulator/ppu.c), as operators on a record.  The modules that use them  *)
(* hold the record in a variable.                                          *)
(*                                                                         *)
(* Every instruction that stores to a register reads it first: the         *)
(* addressing modes load op_value from op_address, whatever the operation  *)
(* goes on to do (cpu-addressing.c).  A store is therefore IoRead followed *)
(* by IoWrite, and ppu.c relies on it: only the read moves PPUADDR on.     *)
(*                                                                         *)
(* RamWriteUnmirrored and StatusReadForgetful are faulty variants of the   *)
(* definitions they precede, with which the properties of PpuPort are put  *)
(* to the test; nothing else uses them.                                    *)
(***************************************************************************)
EXTENDS Integers

CONSTANTS
  Bytes,                          \* the bytes that the program stores
  Cells,                          \* the cells of PPU_RAM that are watched
  OamSize                         \* bytes in PPU_SPRRAM: 256

VRAM == 16384                     \* 0x4000, the size of PPU_RAM
PALETTE == 16128                  \* 0x3F00
NAMETABLES == 8192                \* 0x2000
MIRRORS == 12288                  \* 0x3000
OUTSIDE == 65535

Byte == 0..255
Word == 0..65535
VramAddress == 0 .. VRAM - 1
OamAddress == 0 .. OamSize - 1

ASSUME PpuRegsAssumption ==
  /\ Bytes \subseteq Byte
  /\ Cells \subseteq VramAddress
  /\ OamSize \in 1..256

\* What a load returns that no watched cell, or nothing at all, stands behind.
Unknown == -1

Bit(byte, n) == (byte \div n) % 2 = 1

PpuState ==
  [PPUCTRL : Byte, PPUMASK : Byte, vblank : BOOLEAN, sprite0 : BOOLEAN,
   OAMADDR : OamAddress, PPUSCROLL_X : Byte, PPUSCROLL_Y : Byte,
   scroll_received_x : BOOLEAN, PPUADDR : Word,
   addr_received_high_byte : BOOLEAN, ppu_addr_latch : Byte,
   ppu_2007_first_read : BOOLEAN, ready : BOOLEAN, mirroring : {0, 1},
   PPU_RAM : [Cells -> Byte], PPU_SPRRAM : [OamAddress -> Byte]]

-----------------------------------------------------------------------------
(* Addresses.                                                              *)

\* ppu_get_real_ram_address: the palette repeats every 32 bytes, and the first
\* entry of each sprite palette is that of the background palette.
PaletteEntry(a) == LET i == a % 32 IN IF i >= 16 /\ i % 4 = 0 THEN i - 16 ELSE i

RealAddress(a) ==
  CASE a < PALETTE -> a
    [] a >= PALETTE /\ a < VRAM -> PALETTE + PaletteEntry(a)
    [] a >= VRAM -> OUTSIDE

\* address ^ bit, for a power of two.
Flip(a, bit) == IF Bit(a, bit) THEN a - bit ELSE a + bit

\* ppu_set_mirroring: the bit of the address in which the two copies of a
\* nametable differ.
MirroringXor(mirroring) == IF mirroring = 0 THEN 1024 ELSE 2048

RamWriteUnmirrored(s, a, d) ==
  [c \in Cells |-> IF c = RealAddress(a) THEN d ELSE s.PPU_RAM[c]]

RamRead(s, a) ==
  IF RealAddress(a) \in Cells THEN s.PPU_RAM[RealAddress(a)] ELSE Unknown

\* The two writes of ppu_io_write: its condition, address > 0x1FFF or
\* address < 0x4000, is true of every address.
RamWrite(s, a, d) ==
  [c \in Cells |->
     IF c \in {RealAddress(a), RealAddress(Flip(a, MirroringXor(s.mirroring)))}
     THEN d ELSE s.PPU_RAM[c]]

\* ppu_copy of a page of patterns; NoPage is that of a ROM without any.
NoPage == [c \in {} |-> 0]

Copied(s, page) ==
  [c \in Cells |-> IF c \in DOMAIN page THEN page[c] ELSE s.PPU_RAM[c]]

AddressIncrement(s) == IF Bit(s.PPUCTRL, 4) THEN 32 ELSE 1

-----------------------------------------------------------------------------
(* Registers: 0 PPUCTRL, 1 PPUMASK, 2 PPUSTATUS, 3 OAMADDR, 4 OAMDATA,     *)
(* 5 PPUSCROLL, 6 PPUADDR, 7 PPUDATA.                                      *)

Masked(s) == [s EXCEPT !.PPUADDR = @ % VRAM]

StatusReadForgetful(s) ==
  [s EXCEPT !.vblank = FALSE, !.sprite0 = FALSE,
            !.scroll_received_x = FALSE, !.ppu_addr_latch = 0,
            !.ppu_2007_first_read = TRUE]

StatusRead(s) ==
  [s EXCEPT !.vblank = FALSE, !.sprite0 = FALSE,
            !.scroll_received_x = FALSE, !.addr_received_high_byte = FALSE,
            !.ppu_addr_latch = 0, !.ppu_2007_first_read = TRUE]

\* The first read after the address was set does not move it on.
DataRead(s) ==
  IF s.ppu_2007_first_read
  THEN [s EXCEPT !.ppu_2007_first_read = FALSE]
  ELSE [s EXCEPT !.PPUADDR = @ + AddressIncrement(s)]

IoRead(s, r) ==
  LET t == Masked(s)
  IN  CASE r = 2 -> StatusRead(t)
        [] r = 7 -> DataRead(t)
        [] OTHER -> t

\* The byte that a load of PPUDATA returns.
IoData(s) == RamRead(s, Masked(s).PPUADDR)

ScrollWrite(s, d) ==
  [s EXCEPT !.scroll_received_x = ~@,
            !.PPUSCROLL_X = IF s.scroll_received_x THEN @ ELSE d,
            !.PPUSCROLL_Y = IF s.scroll_received_x THEN d ELSE @]

AddrWrite(s, d) ==
  [s EXCEPT !.addr_received_high_byte = ~@,
            !.ppu_2007_first_read = TRUE,
            !.PPUADDR = IF s.addr_received_high_byte
                        THEN s.ppu_addr_latch * 256 + d ELSE @,
            !.ppu_addr_latch = IF s.addr_received_high_byte THEN @ ELSE d]

OamWrite(s, d) ==
  [s EXCEPT !.PPU_SPRRAM = [@ EXCEPT ![s.OAMADDR] = d],
            !.OAMADDR = (@ + 1) % OamSize]

\* PPUCTRL, PPUMASK and PPUADDR take no writes until the unit is ready.
IoWrite(s, r, d) ==
  LET t == Masked(s)
  IN  CASE r = 0 /\ t.ready -> [t EXCEPT !.PPUCTRL = d]
        [] r = 1 /\ t.ready -> [t EXCEPT !.PPUMASK = d]
        [] r = 3 -> [t EXCEPT !.OAMADDR = d % OamSize]
        [] r = 4 -> OamWrite(t, d)
        [] r = 5 -> ScrollWrite(t, d)
        [] r = 6 /\ t.ready -> AddrWrite(t, d)
        [] r = 7 -> [t EXCEPT !.PPU_RAM = RamWrite(t, t.PPUADDR, d)]
        [] OTHER -> t

\* ppu_init and ppu_set_mirroring, run whenever a ROM has been loaded.  The
\* toggles, the latch, ready and both memories keep what the last game left.
Reset(s, mirroring) ==
  [s EXCEPT !.PPUCTRL = 0, !.PPUMASK = 0, !.vblank = TRUE, !.sprite0 = FALSE,
            !.OAMADDR = 0, !.PPUSCROLL_X = 0, !.PPUSCROLL_Y = 0, !.PPUADDR = 0,
            !.ppu_2007_first_read = TRUE, !.mirroring = mirroring]

\* Static storage, before anything ran.
Zeroed ==
  [PPUCTRL |-> 0, PPUMASK |-> 0, vblank |-> FALSE, sprite0 |-> FALSE,
   OAMADDR |-> 0, PPUSCROLL_X |-> 0, PPUSCROLL_Y |-> 0,
   scroll_received_x |-> FALSE, PPUADDR |-> 0,
   addr_received_high_byte |-> FALSE, ppu_addr_latch |-> 0,
   ppu_2007_first_read |-> FALSE, ready |-> FALSE, mirroring |-> 0,
   PPU_RAM |-> [c \in Cells |-> 0], PPU_SPRRAM |-> [i \in OamAddress |-> 0]]
=============================================================================

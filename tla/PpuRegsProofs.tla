--------------------------- MODULE PpuRegsProofs ---------------------------
(***************************************************************************)
(* Lemmas about the registers of PpuRegs, for any cells and any size of    *)
(* object memory: what the operators return is again a state of the        *)
(* registers, and what each of them leaves alone.                          *)
(*                                                                         *)
(* The provers do not cope with large numerals next to records, so the     *)
(* arithmetic on addresses is done in lemmas about plain integers, and the *)
(* names of the sets of addresses stay unexpanded elsewhere.               *)
(***************************************************************************)
EXTENDS PpuRegs, TLAPS

-----------------------------------------------------------------------------
(* Arithmetic on addresses.                                                *)

Twin(a, m) == Flip(a, MirroringXor(m))

\* An address and its decoding stay in the 14 bits of PPU_RAM.
LEMMA PaletteEntryInRange ==
  ASSUME NEW a \in Nat
  PROVE  PaletteEntry(a) \in 0..31
BY DEF PaletteEntry

LEMMA RealAddressInRange ==
  ASSUME NEW a \in VramAddress
  PROVE  RealAddress(a) \in VramAddress
<1>1. a \in Nat
  BY DEF VramAddress, VRAM
<1>2. PaletteEntry(a) \in 0..31
  BY <1>1, PaletteEntryInRange
<1>3. CASE a < PALETTE
  <2>1. RealAddress(a) = a
    BY <1>1, <1>3 DEF RealAddress, PALETTE, VRAM
  <2> QED
    BY <2>1
<1>4. CASE a >= PALETTE
  <2>1. a < VRAM
    BY DEF VramAddress, VRAM
  <2>2. RealAddress(a) = PALETTE + PaletteEntry(a)
    BY <1>1, <1>4, <2>1 DEF RealAddress, PALETTE, VRAM
  <2> QED
    BY <1>2, <2>2 DEF VramAddress, VRAM, PALETTE
<1> QED
  BY <1>1, <1>3, <1>4 DEF PALETTE

\* Flipping the mirroring bit of an address stays there too, ...
LEMMA TwinInRange ==
  ASSUME NEW a \in VramAddress, NEW m \in {0, 1}
  PROVE  Twin(a, m) \in VramAddress
<1>1. CASE m = 0
  BY <1>1, SMTT(30) DEF Twin, Flip, Bit, MirroringXor, VramAddress, VRAM
<1>2. CASE m = 1
  BY <1>2, SMTT(30) DEF Twin, Flip, Bit, MirroringXor, VramAddress, VRAM
<1> QED
  BY <1>1, <1>2

\* ... keeps a nametable address among the nametables, and is undone by
\* flipping it again.
LEMMA TwinOfNametable ==
  ASSUME NEW a \in VramAddress, NEW m \in {0, 1}
  PROVE  /\ Twin(Twin(a, m), m) = a
         /\ a >= NAMETABLES /\ a < MIRRORS
              <=> Twin(a, m) >= NAMETABLES /\ Twin(a, m) < MIRRORS
<1>1. CASE m = 0
  BY <1>1, SMTT(30) DEF Twin, Flip, Bit, MirroringXor, VramAddress, VRAM, NAMETABLES, MIRRORS
<1>2. CASE m = 1
  BY <1>2, SMTT(30) DEF Twin, Flip, Bit, MirroringXor, VramAddress, VRAM, NAMETABLES, MIRRORS
<1> QED
  BY <1>1, <1>2

LEMMA MaskInRange ==
  ASSUME NEW a \in Word
  PROVE  a % VRAM \in VramAddress
<1>1. a \in Nat
  BY DEF Word
<1>2. VRAM \in Nat /\ VRAM > 0
  BY DEF VRAM
<1> QED
  BY <1>1, <1>2 DEF VramAddress

LEMMA VramIsWord == \A a \in VramAddress : a \in Word
BY DEF Word, VramAddress, VRAM

LEMMA StepInRange ==
  ASSUME NEW a \in VramAddress, NEW i \in {1, 32}
  PROVE  a + i \in Word
BY DEF Word, VramAddress, VRAM

LEMMA PointInRange ==
  ASSUME NEW hi \in Byte, NEW lo \in Byte
  PROVE  hi * 256 + lo \in Word
BY DEF Word, Byte

-----------------------------------------------------------------------------
(* The registers keep their types.                                         *)

LEMMA MaskedType ==
  ASSUME NEW s \in PpuState
  PROVE  Masked(s) \in PpuState /\ Masked(s).PPUADDR \in VramAddress
<1>1. s.PPUADDR \in Word
  BY DEF PpuState
<1>2. s.PPUADDR % VRAM \in VramAddress
  BY <1>1, MaskInRange
<1> QED
  BY <1>1, <1>2, VramIsWord DEF Masked, PpuState

LEMMA IoReadType ==
  ASSUME NEW s \in PpuState, NEW r \in 0..7
  PROVE  IoRead(s, r) \in PpuState
<1> DEFINE t == Masked(s)
<1>1. t \in PpuState /\ t.PPUADDR \in VramAddress
  BY MaskedType
<1> HIDE DEF t
<1>2. StatusRead(t) \in PpuState
  <2>1. 0 \in Byte
    BY DEF Byte
  <2> QED
    BY <1>1, <2>1 DEF StatusRead, PpuState
<1>3. DataRead(t) \in PpuState
  <2>1. AddressIncrement(t) \in {1, 32}
    BY DEF AddressIncrement
  <2>2. t.PPUADDR + AddressIncrement(t) \in Word
    BY <1>1, <2>1, StepInRange
  <2> QED
    BY <1>1, <2>2 DEF DataRead, PpuState
<1> QED
  BY <1>1, <1>2, <1>3 DEF IoRead, t

LEMMA IoWriteType ==
  ASSUME NEW s \in PpuState, NEW r \in 0..7, NEW d \in Byte
  PROVE  IoWrite(s, r, d) \in PpuState
<1> DEFINE t == Masked(s)
<1>1. t \in PpuState /\ t.PPUADDR \in VramAddress
  BY MaskedType
<1> HIDE DEF t
<1>2. [t EXCEPT !.PPUCTRL = d] \in PpuState /\ [t EXCEPT !.PPUMASK = d] \in PpuState
  BY <1>1 DEF PpuState
<1>3. [t EXCEPT !.OAMADDR = d % OamSize] \in PpuState
  <2>1. d % OamSize \in OamAddress
    BY PpuRegsAssumption DEF OamAddress, Byte
  <2> QED
    BY <1>1, <2>1 DEF PpuState
<1>4. OamWrite(t, d) \in PpuState
  <2>1. t.OAMADDR \in OamAddress /\ t.PPU_SPRRAM \in [OamAddress -> Byte]
    BY <1>1 DEF PpuState
  <2>2. (t.OAMADDR + 1) % OamSize \in OamAddress
    BY <2>1, PpuRegsAssumption DEF OamAddress
  <2>3. [t.PPU_SPRRAM EXCEPT ![t.OAMADDR] = d] \in [OamAddress -> Byte]
    BY <2>1
  <2> QED
    BY <1>1, <2>2, <2>3 DEF PpuState, OamWrite
<1>5. ScrollWrite(t, d) \in PpuState
  BY <1>1 DEF PpuState, ScrollWrite
<1>6. AddrWrite(t, d) \in PpuState
  <2>1. t.ppu_addr_latch \in Byte
    BY <1>1 DEF PpuState
  <2>2. t.ppu_addr_latch * 256 + d \in Word
    BY <2>1, PointInRange
  <2>3. CASE t.addr_received_high_byte
    <3> DEFINE a == t.ppu_addr_latch * 256 + d
    <3>1. AddrWrite(t, d) = [t EXCEPT !.addr_received_high_byte = FALSE,
                                      !.ppu_2007_first_read = TRUE,
                                      !.PPUADDR = a]
      BY <1>1, <2>3 DEF PpuState, AddrWrite
    <3>2. a \in Word
      BY <2>2
    <3> HIDE DEF a
    <3> QED
      BY <1>1, <3>1, <3>2 DEF PpuState
  <2>4. CASE ~t.addr_received_high_byte
    BY <1>1, <2>4 DEF PpuState, AddrWrite
  <2> QED
    BY <2>3, <2>4
<1>7. [t EXCEPT !.PPU_RAM = RamWrite(t, t.PPUADDR, d)] \in PpuState
  <2>1. RamWrite(t, t.PPUADDR, d) \in [Cells -> Byte]
    <3>1. \A c \in Cells : t.PPU_RAM[c] \in Byte
      BY <1>1 DEF PpuState
    <3>2. \A c \in Cells : RamWrite(t, t.PPUADDR, d)[c] \in Byte
      BY <3>1 DEF RamWrite
    <3> QED
      BY <3>2 DEF RamWrite
  <2> QED
    BY <1>1, <2>1 DEF PpuState
<1> QED
  BY <1>1, <1>2, <1>3, <1>4, <1>5, <1>6, <1>7 DEF IoWrite, t

LEMMA ResetType ==
  ASSUME NEW s \in PpuState, NEW m \in {0, 1}
  PROVE  Reset(s, m) \in PpuState
<1>1. 0 \in Byte /\ 0 \in Word
  BY DEF Byte, Word
<1>2. 0 \in OamAddress
  BY PpuRegsAssumption DEF OamAddress
<1> QED
  BY <1>1, <1>2 DEF Reset, PpuState

\* A page copied over the memory leaves the cells that are not of the page.
LEMMA CopiedType ==
  ASSUME NEW s \in PpuState, NEW page, NEW S \in SUBSET Cells, page \in [S -> Byte]
  PROVE  /\ Copied(s, page) \in [Cells -> Byte]
         /\ \A c \in Cells : c \notin S => Copied(s, page)[c] = s.PPU_RAM[c]
<1>1. s.PPU_RAM \in [Cells -> Byte]
  BY DEF PpuState
<1>2. \A c \in S : page[c] \in Byte
  OBVIOUS
<1>3. DOMAIN page = S
  OBVIOUS
<1> QED
  BY <1>1, <1>2, <1>3 DEF Copied

LEMMA ZeroedType == Zeroed \in PpuState
<1>1. 0 \in Byte /\ 0 \in Word
  BY DEF Byte, Word
<1>2. 0 \in OamAddress
  BY PpuRegsAssumption DEF OamAddress
<1> QED
  BY <1>1, <1>2 DEF Zeroed, PpuState

LEMMA IoDataType ==
  ASSUME NEW s \in PpuState
  PROVE  IoData(s) \in Byte \cup {Unknown}
<1>1. s.PPU_RAM \in [Cells -> Byte]
  BY DEF PpuState
<1> QED
  BY <1>1 DEF IoData, RamRead

\* Which operations leave the memory and the mirroring alone.
LEMMA IoReadKeepsRam ==
  ASSUME NEW s \in PpuState, NEW r \in 0..7
  PROVE  IoRead(s, r).PPU_RAM = s.PPU_RAM /\ IoRead(s, r).mirroring = s.mirroring
BY DEF IoRead, Masked, StatusRead, DataRead, PpuState

LEMMA IoWriteKeepsRam ==
  ASSUME NEW s \in PpuState, NEW r \in 0..7, NEW d \in Byte, r # 7
  PROVE  IoWrite(s, r, d).PPU_RAM = s.PPU_RAM /\ IoWrite(s, r, d).mirroring = s.mirroring
BY DEF IoWrite, Masked, OamWrite, ScrollWrite, AddrWrite, PpuState

\* Reading a register lowers flags of PPUSTATUS and raises none; writing one
\* leaves them alone.
LEMMA IoReadFlags ==
  ASSUME NEW s \in PpuState, NEW r \in 0..7
  PROVE  /\ IoRead(s, r).vblank => s.vblank
         /\ IoRead(s, r).sprite0 => s.sprite0
BY DEF IoRead, Masked, StatusRead, DataRead, PpuState

LEMMA IoWriteFlags ==
  ASSUME NEW s \in PpuState, NEW r \in 0..7, NEW d \in Byte
  PROVE  IoWrite(s, r, d).vblank = s.vblank /\ IoWrite(s, r, d).sprite0 = s.sprite0
BY DEF IoWrite, Masked, OamWrite, ScrollWrite, AddrWrite, PpuState
=============================================================================

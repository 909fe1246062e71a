--------------------------- MODULE PpuPortProofs ---------------------------
(***************************************************************************)
(* Proofs about PpuPort for any cells, any pages of patterns, any game and *)
(* any size of object memory: the copies of a nametable cell are equal     *)
(* once it has been stored to under the mirroring in force, and, for games *)
(* that leave the pattern tables alone, the registers implement VramPort,  *)
(* through loads of ROMs with whatever mirroring.                          *)
(***************************************************************************)
EXTENDS PpuPort, PpuRegsProofs

-----------------------------------------------------------------------------
\* A page is made of pattern cells only.
LEMMA PageType ==
  ASSUME NEW page \in Pages \cup {NoPage}
  PROVE  \E S \in SUBSET Cells : S \subseteq Patterns /\ page \in [S -> Byte]
<1>1. Patterns \in SUBSET Cells /\ {} \in SUBSET Cells
  BY DEF Patterns
<1>2. NoPage \in [{} -> Byte]
  BY DEF NoPage
<1> QED
  BY <1>1, <1>2, PpuPortAssumption

\* Copying it leaves the rest of the memory alone.
LEMMA PageCopied ==
  ASSUME NEW s \in PpuState, NEW page \in Pages \cup {NoPage}
  PROVE  /\ Copied(s, page) \in [Cells -> Byte]
         /\ \A c \in Cells : c \notin Patterns => Copied(s, page)[c] = s.PPU_RAM[c]
<1>1. PICK S \in SUBSET Cells : S \subseteq Patterns /\ page \in [S -> Byte]
  BY PageType
<1> QED
  BY <1>1, CopiedType

LEMMA InitTypeOK == Init => TypeOK
<1> SUFFICES ASSUME Init PROVE TypeOK
  OBVIOUS
<1>1. ppu \in PpuState
  BY ZeroedType, ResetType DEF Init
<1>2. 0 \in 0..MaxRun
  BY PpuPortAssumption
<1> QED
  BY <1>1, <1>2 DEF Init, TypeOK

LEMMA NextTypeOK == TypeOK /\ [Next]_vars => TypeOK'
<1> SUFFICES ASSUME TypeOK, [Next]_vars PROVE TypeOK'
  OBVIOUS
<1> USE DEF TypeOK
<1>0. Bytes \subseteq Byte /\ \A r \in StoreRegs : Values[r] \subseteq Bytes /\ r \in 0..7
  BY PpuPortAssumption, PpuRegsAssumption
<1>1. ASSUME NEW r \in LoadRegs, Load(r) PROVE TypeOK'
  <2>1. r \in 0..7
    BY PpuPortAssumption
  <2>2. ppu' \in PpuState
    BY <1>1, <2>1, IoReadType DEF Load
  <2> QED
    BY <1>1, <2>2 DEF Load
<1>2. CASE 7 \in LoadRegs /\ LoadData
  <2>1. ppu' \in PpuState /\ out' \in Byte \cup {Unknown}
    BY <1>2, IoReadType, IoDataType DEF LoadData
  <2>2. run' \in 0..MaxRun
    BY <1>2, PpuPortAssumption DEF LoadData
  <2> QED
    BY <1>2, <2>1, <2>2 DEF LoadData
<1>3. ASSUME NEW r \in StoreRegs, NEW d \in Values[r], Store(r, d) PROVE TypeOK'
  <2>1. r \in 0..7 /\ d \in Byte
    BY <1>0
  <2>2. ppu' \in PpuState
    BY <1>3, <2>1, IoReadType, IoWriteType DEF Store
  <2>3. run' \in 0..MaxRun
    BY <1>3, PpuPortAssumption DEF Store
  <2> QED
    BY <1>3, <2>2, <2>3 DEF Store
<1>4. ASSUME 7 \in StoreRegs, NEW d \in Values[7], StoreData(d) PROVE TypeOK'
  <2>1. d \in Byte
    BY <1>0, <1>4
  <2>2. ppu' \in PpuState
    BY <1>4, <2>1, IoReadType, IoWriteType DEF StoreData
  <2>3. run' \in 0..MaxRun
    BY <1>4, PpuPortAssumption DEF StoreData
  <2> QED
    BY <1>4, <2>2, <2>3 DEF StoreData
<1>5. CASE BecomeReady
  <2>1. ppu' \in PpuState
    BY <1>5 DEF BecomeReady, PpuState
  <2> QED
    BY <1>5, <2>1 DEF BecomeReady
<1>6. ASSUME NEW page \in Pages, Switch(page) PROVE TypeOK'
  <2>1. ppu' \in PpuState
    <3>1. Copied(ppu, page) \in [Cells -> Byte]
      BY PageCopied
    <3> QED
      BY <1>6, <3>1 DEF Switch, PpuState
  <2> QED
    BY <1>6, <2>1 DEF Switch
<1>7. ASSUME NEW m \in {0, 1}, NEW page \in Pages \cup {NoPage}, Insert(m, page)
      PROVE  TypeOK'
  <2>1. 0 \in 0..MaxRun
    BY PpuPortAssumption
  <2>2. ppu' \in PpuState
    <3>1. Copied(ppu, page) \in [Cells -> Byte]
      BY PageCopied
    <3>2. Reset(ppu, m) \in PpuState
      BY ResetType
    <3> QED
      BY <1>7, <3>1, <3>2 DEF Insert, PpuState
  <2> QED
    BY <1>7, <2>1, <2>2 DEF Insert
<1>8. CASE UNCHANGED vars
  BY <1>8 DEF vars
<1> QED
  BY <1>1, <1>2, <1>3, <1>4, <1>5, <1>6, <1>7, <1>8 DEF Next

\* The registers, and what is remembered of them, keep to their types.
THEOREM TypeCorrect == Spec => []TypeOK
<1> QED
  BY InitTypeOK, NextTypeOK, PTL DEF Spec

-----------------------------------------------------------------------------
(* Arithmetic on positions.                                                *)

LEMMA Advance ==
  ASSUME NEW a \in Word, NEW i \in {1, 32}
  PROVE  /\ ((a % VRAM) + i) % VRAM = (a + i) % VRAM
         /\ (a % VRAM) % VRAM = a % VRAM
         /\ (a + i) % VRAM # a % VRAM
         /\ a % VRAM \in VramAddress /\ (a + i) % VRAM \in VramAddress
<1> DEFINE q == a \div VRAM
           r == a % VRAM
<1>1. q \in 0 .. 3 /\ r \in 0 .. 16383 /\ a = q * 16384 + r
  <2>1. a \in Nat /\ a < 65536
    BY DEF Word
  <2>2. q \in Nat /\ r \in Nat /\ r < 16384 /\ a = q * 16384 + r
    BY <2>1 DEF VRAM
  <2> HIDE DEF q, r
  <2> QED
    BY <2>1, <2>2
<1> HIDE DEF q, r
<1>2. r % VRAM = r
  <2>1. \A n \in 0 .. 16383 : n % 16384 = n
    OBVIOUS
  <2>2. r \in 0 .. 16383
    BY <1>1
  <2>3. r % 16384 = r
    BY <2>1, <2>2
  <2> QED
    BY <2>3 DEF VRAM
<1>3. (r + i) % VRAM = IF r + i < 16384 THEN r + i ELSE r + i - 16384
  BY <1>1 DEF VRAM
<1>4. (a + i) % VRAM = IF r + i < 16384 THEN r + i ELSE r + i - 16384
  <2>1. CASE r + i < 16384
    BY <1>1, <2>1 DEF VRAM
  <2>2. CASE ~ (r + i < 16384)
    <3>1. a + i = (q + 1) * 16384 + (r + i - 16384) /\ r + i - 16384 \in 0 .. 31
      BY <1>1, <2>2
    <3> QED
      BY <1>1, <2>2, <3>1 DEF VRAM
  <2> QED
    BY <2>1, <2>2
<1>5. (a + i) % VRAM # r
  BY <1>1, <1>4
<1>6. r \in VramAddress /\ (a + i) % VRAM \in VramAddress
  BY <1>1, <1>4 DEF VramAddress, VRAM
<1> QED
  BY <1>2, <1>3, <1>4, <1>5, <1>6 DEF r

LEMMA OtherStep ==
  ASSUME NEW a \in Word
  PROVE  (a + 1) % VRAM # (a + 32) % VRAM
BY DEF Word, VRAM

\* A decoded palette address is decoded to itself.
LEMMA PaletteIdempotent ==
  ASSUME NEW a \in VramAddress, a >= PALETTE
  PROVE  /\ RealAddress(RealAddress(a)) = RealAddress(a)
         /\ RealAddress(a) >= PALETTE
         /\ RealAddress(a) = IF a % 32 \in {16, 20, 24, 28} THEN 16112 + (a % 32)
                                                            ELSE 16128 + (a % 32)
<1>1. a \in Nat /\ a < VRAM
  BY DEF VramAddress, VRAM
<1> DEFINE i == a % 32
           e == IF i >= 16 /\ i % 4 = 0 THEN i - 16 ELSE i
<1>2. i \in 0 .. 31
  BY <1>1
<1>3. e \in 0 .. 31 /\ (IF e >= 16 /\ e % 4 = 0 THEN e - 16 ELSE e) = e
  BY <1>2
<1>4. RealAddress(a) = PALETTE + e
  BY <1>1 DEF RealAddress, PaletteEntry, PALETTE, VRAM
<1>5. (PALETTE + e) % 32 = e
  BY <1>3 DEF PALETTE
<1>6. PaletteEntry(PALETTE + e) = e
  BY <1>3, <1>5 DEF PaletteEntry
<1>7. PALETTE + e >= PALETTE /\ PALETTE + e < VRAM
  BY <1>3 DEF PALETTE, VRAM
<1>8. RealAddress(PALETTE + e) = PALETTE + e
  BY <1>3, <1>6, <1>7 DEF RealAddress, PALETTE, VRAM
<1>9. e = IF i \in {16, 20, 24, 28} THEN i - 16 ELSE i
  BY <1>2
<1> HIDE DEF i, e
<1>10. PALETTE + e = IF i \in {16, 20, 24, 28} THEN 16112 + i ELSE 16128 + i
  BY <1>2, <1>9 DEF PALETTE
<1> QED
  BY <1>4, <1>7, <1>8, <1>10 DEF i

-----------------------------------------------------------------------------
(* Streams: how the operations move the position.                          *)

Kept(s, t) == t.PPU_RAM = s.PPU_RAM /\ t.mirroring = s.mirroring

LEMMA PositionIs ==
  ASSUME NEW s \in PpuState
  PROVE  /\ Position(s) = IF s.ppu_2007_first_read THEN s.PPUADDR % VRAM
                          ELSE ((s.PPUADDR % VRAM) + AddressIncrement(s)) % VRAM
         /\ Position(s) \in VramAddress
         /\ s.PPUADDR % VRAM \in VramAddress
         /\ AddressIncrement(s) \in {1, 32}
<1>1. s.PPUADDR \in Word /\ s.PPUADDR \in Nat
  <2>1. s.PPUADDR \in Word
    BY DEF PpuState
  <2>2. \A w \in Word : w \in Nat
    BY DEF Word
  <2> QED
    BY <2>1, <2>2
<1>2. AddressIncrement(s) \in {1, 32}
  BY DEF AddressIncrement
<1>3. s.PPUADDR + 0 = s.PPUADDR
  BY <1>1
<1> QED
  BY <1>1, <1>2, <1>3, Advance DEF Position

\* A stream whose address is set anew, or whose step is another one, goes on
\* elsewhere.
LEMMA Diverted ==
  ASSUME NEW s \in PpuState, NEW t \in PpuState, t.PPUADDR % VRAM = s.PPUADDR % VRAM,
         ~s.ppu_2007_first_read, Position(t) = Position(s)
  PROVE  ~t.ppu_2007_first_read /\ AddressIncrement(t) = AddressIncrement(s)
<1> DEFINE a == s.PPUADDR
<1>1. a \in Word
  BY DEF PpuState
<1>2. /\ Position(s) = ((a % VRAM) + AddressIncrement(s)) % VRAM
      /\ Position(t) = IF t.ppu_2007_first_read THEN a % VRAM
                       ELSE ((a % VRAM) + AddressIncrement(t)) % VRAM
      /\ AddressIncrement(s) \in {1, 32} /\ AddressIncrement(t) \in {1, 32}
  BY PositionIs
<1> HIDE DEF a
<1>3. \A i \in {1, 32} : ((a % VRAM) + i) % VRAM = (a + i) % VRAM /\ (a + i) % VRAM # a % VRAM
  BY <1>1, Advance
<1>4. (a + 1) % VRAM # (a + 32) % VRAM
  BY <1>1, OtherStep
<1> QED
  BY <1>2, <1>3, <1>4

LEMMA MaskedStream ==
  ASSUME NEW s \in PpuState
  PROVE  /\ Masked(s).PPUADDR = s.PPUADDR % VRAM
         /\ Masked(s).PPUADDR % VRAM = s.PPUADDR % VRAM
         /\ Kept(s, Masked(s))
         /\ Masked(s).ppu_2007_first_read = s.ppu_2007_first_read
         /\ Masked(s).PPUCTRL = s.PPUCTRL
         /\ Masked(s).ready = s.ready
         /\ Masked(s).addr_received_high_byte = s.addr_received_high_byte
         /\ Masked(s).ppu_addr_latch = s.ppu_addr_latch
<1>1. s.PPUADDR \in Word
  BY DEF PpuState
<1>2. (s.PPUADDR % VRAM) % VRAM = s.PPUADDR % VRAM
  BY <1>1, Advance
<1> QED
  BY <1>2 DEF Masked, Kept, PpuState

\* A load of PPUSTATUS starts the address over; one of another register but
\* PPUDATA changes nothing here.
LEMMA ReadStream ==
  ASSUME NEW s \in PpuState, NEW r \in 0..7, r # 7
  PROVE  /\ IoRead(s, r).PPUADDR % VRAM = s.PPUADDR % VRAM
         /\ Kept(s, IoRead(s, r))
         /\ IoRead(s, r).PPUCTRL = s.PPUCTRL
         /\ IoRead(s, r).ready = s.ready
         /\ IF r = 2
            THEN IoRead(s, r).ppu_2007_first_read /\ ~IoRead(s, r).addr_received_high_byte
            ELSE /\ IoRead(s, r).ppu_2007_first_read = s.ppu_2007_first_read
                 /\ IoRead(s, r).addr_received_high_byte = s.addr_received_high_byte
                 /\ IoRead(s, r).ppu_addr_latch = s.ppu_addr_latch
<1> DEFINE t == Masked(s)
<1>1. t \in PpuState
  BY MaskedType
<1>2. CASE r = 2
  <2>1. IoRead(s, r) = StatusRead(t)
    BY <1>2 DEF IoRead
  <2> HIDE DEF t
  <2>2. /\ StatusRead(t).PPUADDR = t.PPUADDR /\ Kept(t, StatusRead(t))
        /\ StatusRead(t).ppu_2007_first_read = TRUE
        /\ StatusRead(t).addr_received_high_byte = FALSE
        /\ StatusRead(t).PPUCTRL = t.PPUCTRL
        /\ StatusRead(t).ready = t.ready
    BY <1>1 DEF StatusRead, PpuState, Kept
  <2> QED
    BY <1>2, <2>1, <2>2, MaskedStream DEF t, Kept
<1>3. CASE r # 2
  <2>1. IoRead(s, r) = t
    BY <1>3 DEF IoRead
  <2> QED
    BY <1>3, <2>1, MaskedStream
<1> QED
  BY <1>2, <1>3

\* Only PPUADDR takes an address, half by half; only PPUCTRL sets the step.
LEMMA WriteStream ==
  ASSUME NEW s \in PpuState, NEW r \in 0..7, NEW d \in Byte, r # 7
  PROVE  LET w == IoWrite(s, r, d) IN
         /\ Kept(s, w)
         /\ r # 0 => w.PPUCTRL = s.PPUCTRL
         /\ IF r = 6 /\ s.ready
            THEN /\ w.ppu_2007_first_read
                 /\ IF s.addr_received_high_byte
                    THEN /\ ~w.addr_received_high_byte
                         /\ w.PPUADDR = s.ppu_addr_latch * 256 + d
                    ELSE /\ w.addr_received_high_byte /\ w.ppu_addr_latch = d
                         /\ w.PPUADDR % VRAM = s.PPUADDR % VRAM
            ELSE /\ w.PPUADDR % VRAM = s.PPUADDR % VRAM
                 /\ w.ppu_2007_first_read = s.ppu_2007_first_read
                 /\ w.addr_received_high_byte = s.addr_received_high_byte
                 /\ w.ppu_addr_latch = s.ppu_addr_latch
<1> DEFINE t == Masked(s)
           w == IoWrite(s, r, d)
<1>1. t \in PpuState
  BY MaskedType
<1>2. /\ t.PPUADDR % VRAM = s.PPUADDR % VRAM /\ Kept(s, t)
      /\ t.ppu_2007_first_read = s.ppu_2007_first_read
      /\ t.PPUCTRL = s.PPUCTRL /\ t.ready = s.ready
      /\ t.addr_received_high_byte = s.addr_received_high_byte
      /\ t.ppu_addr_latch = s.ppu_addr_latch
  BY MaskedStream
<1>3. w = CASE r = 0 /\ t.ready -> [t EXCEPT !.PPUCTRL = d]
            [] r = 1 /\ t.ready -> [t EXCEPT !.PPUMASK = d]
            [] r = 3 -> [t EXCEPT !.OAMADDR = d % OamSize]
            [] r = 4 -> OamWrite(t, d)
            [] r = 5 -> ScrollWrite(t, d)
            [] r = 6 /\ t.ready -> AddrWrite(t, d)
            [] r = 7 -> [t EXCEPT !.PPU_RAM = RamWrite(t, t.PPUADDR, d)]
            [] OTHER -> t
  BY DEF IoWrite
<1> HIDE DEF t, w
<1>4. CASE r = 6 /\ t.ready
  <2>1. w = AddrWrite(t, d)
    BY <1>3, <1>4
  <2>2. /\ Kept(t, w) /\ w.ppu_2007_first_read = TRUE /\ w.PPUCTRL = t.PPUCTRL
        /\ w.addr_received_high_byte = ~t.addr_received_high_byte
    BY <1>1, <2>1 DEF AddrWrite, PpuState, Kept
  <2>3. ~t.addr_received_high_byte => w.PPUADDR = t.PPUADDR /\ w.ppu_addr_latch = d
    BY <1>1, <2>1 DEF AddrWrite, PpuState
  <2>4. t.addr_received_high_byte => w.PPUADDR = t.ppu_addr_latch * 256 + d
    BY <1>1, <2>1 DEF AddrWrite, PpuState
  <2>5. r = 6 /\ s.ready /\ Kept(s, w) /\ w.PPUCTRL = s.PPUCTRL
    BY <1>2, <1>4, <2>2 DEF Kept
  <2>6. w.addr_received_high_byte = ~s.addr_received_high_byte
    BY <1>2, <2>2
  <2>7. CASE s.addr_received_high_byte
    BY <1>2, <2>2, <2>4, <2>5, <2>6, <2>7 DEF w
  <2>8. CASE ~s.addr_received_high_byte
    BY <1>2, <2>2, <2>3, <2>5, <2>6, <2>8 DEF w
  <2> QED
    BY <2>7, <2>8
<1>5. CASE ~ (r = 6 /\ t.ready)
  <2>1. \/ w \in { t, [t EXCEPT !.PPUMASK = d],
                   [t EXCEPT !.OAMADDR = d % OamSize], OamWrite(t, d), ScrollWrite(t, d) }
        \/ r = 0 /\ w = [t EXCEPT !.PPUCTRL = d]
    BY <1>3, <1>5
  <2>2. /\ Kept(t, w) /\ w.PPUADDR = t.PPUADDR
        /\ w.ppu_2007_first_read = t.ppu_2007_first_read
        /\ w.addr_received_high_byte = t.addr_received_high_byte
        /\ w.ppu_addr_latch = t.ppu_addr_latch
        /\ r # 0 => w.PPUCTRL = t.PPUCTRL
    BY <1>1, <2>1 DEF OamWrite, ScrollWrite, PpuState, Kept
  <2> QED
    BY <1>2, <1>5, <2>2 DEF Kept, w
<1> QED
  BY <1>4, <1>5

\* An access of PPUDATA goes to the position, and moves it on.
LEMMA DataStream ==
  ASSUME NEW s \in PpuState
  PROVE  /\ IoRead(s, 7).PPUADDR % VRAM = Position(s)
         /\ Kept(s, IoRead(s, 7))
         /\ ~IoRead(s, 7).ppu_2007_first_read
         /\ AddressIncrement(IoRead(s, 7)) = AddressIncrement(s)
         /\ IoRead(s, 7).addr_received_high_byte = s.addr_received_high_byte
         /\ IoRead(s, 7).ppu_addr_latch = s.ppu_addr_latch
         /\ IoData(s) = RamRead(s, s.PPUADDR % VRAM)
<1> DEFINE t == Masked(s)
<1>1. t \in PpuState
  BY MaskedType
<1>2. /\ t.PPUADDR = s.PPUADDR % VRAM /\ t.PPUADDR % VRAM = s.PPUADDR % VRAM
      /\ Kept(s, t) /\ t.PPUCTRL = s.PPUCTRL
      /\ t.ppu_2007_first_read = s.ppu_2007_first_read
      /\ t.addr_received_high_byte = s.addr_received_high_byte
      /\ t.ppu_addr_latch = s.ppu_addr_latch
  BY MaskedStream
<1>3. IoRead(s, 7) = DataRead(t)
  BY DEF IoRead
<1>4. IoData(s) = RamRead(s, s.PPUADDR % VRAM)
  BY <1>2 DEF IoData
<1> HIDE DEF t
<1>5. /\ Kept(t, DataRead(t)) /\ DataRead(t).PPUCTRL = t.PPUCTRL
      /\ DataRead(t).ppu_2007_first_read = FALSE
      /\ DataRead(t).addr_received_high_byte = t.addr_received_high_byte
      /\ DataRead(t).ppu_addr_latch = t.ppu_addr_latch
      /\ DataRead(t).PPUADDR = IF t.ppu_2007_first_read THEN t.PPUADDR
                               ELSE t.PPUADDR + AddressIncrement(t)
  BY <1>1 DEF DataRead, PpuState, Kept
<1>6. AddressIncrement(t) = AddressIncrement(s)
  BY <1>2 DEF AddressIncrement
<1>7. DataRead(t).PPUADDR % VRAM = Position(s)
  BY <1>2, <1>5, <1>6, PositionIs
<1> QED
  BY <1>2, <1>3, <1>4, <1>5, <1>6, <1>7 DEF Kept, AddressIncrement

-----------------------------------------------------------------------------
(* The copies of a nametable.                                              *)

Nametable(a) == a >= NAMETABLES /\ a < MIRRORS

Coherent(ram, m, S) == \A c \in S : ram[c] = ram[Twin(c, m)]

\* Only a nametable address is decoded to a nametable address, to itself.
LEMMA RealOfNametable ==
  ASSUME NEW a \in VramAddress, NEW c \in VramAddress, Nametable(c)
  PROVE  RealAddress(a) = c <=> a = c
<1>1. a \in Nat /\ c \in Nat /\ c < PALETTE /\ a < VRAM
  BY DEF VramAddress, VRAM, Nametable, MIRRORS, PALETTE
<1>2. CASE a < PALETTE
  <2>1. RealAddress(a) = a
    BY <1>1, <1>2 DEF RealAddress, PALETTE, VRAM
  <2> QED
    BY <2>1
<1>3. CASE a >= PALETTE
  <2>1. RealAddress(a) = PALETTE + PaletteEntry(a)
    BY <1>1, <1>3 DEF RealAddress, PALETTE, VRAM
  <2>2. PaletteEntry(a) \in 0..31
    BY <1>1, PaletteEntryInRange
  <2> QED
    BY <1>1, <1>3, <2>1, <2>2 DEF PALETTE
<1> QED
  BY <1>1, <1>2, <1>3 DEF PALETTE

\* The double write of ppu_io_write keeps equal copies equal, wherever it goes,
\* and makes the two that it stores to equal.
LEMMA RamWriteCoherent ==
  ASSUME NEW s \in PpuState, NEW a \in VramAddress, NEW d \in Byte,
         NEW F \in SUBSET Nametables, Coherent(s.PPU_RAM, s.mirroring, F)
  PROVE  Coherent(RamWrite(s, a, d), s.mirroring,
                  F \cup ({a, Twin(a, s.mirroring)} \cap Nametables))
<1> DEFINE m == s.mirroring
           S == {RealAddress(a), RealAddress(Twin(a, m))}
<1>0. m \in {0, 1}
  BY DEF PpuState
<1> SUFFICES ASSUME NEW c \in Nametables, c \in F \/ c \in {a, Twin(a, m)}
             PROVE  RamWrite(s, a, d)[c] = RamWrite(s, a, d)[Twin(c, m)]
  BY DEF Coherent
<1>1. c \in Cells /\ c \in VramAddress /\ Nametable(c)
  BY PpuRegsAssumption DEF Nametables, Nametable
<1>2. Twin(c, m) \in Cells
  BY <1>0, PpuPortAssumption DEF Twin
<1>3. Twin(c, m) \in VramAddress /\ Twin(a, m) \in VramAddress
  BY <1>0, <1>1, TwinInRange
<1>4. Nametable(Twin(c, m)) /\ Twin(Twin(c, m), m) = c /\ Twin(Twin(a, m), m) = a
  BY <1>0, <1>1, TwinOfNametable DEF Nametable
<1>5. c \in S <=> c \in {a, Twin(a, m)}
  BY <1>1, <1>3, RealOfNametable
<1>6. Twin(c, m) \in S <=> Twin(c, m) \in {a, Twin(a, m)}
  BY <1>3, <1>4, RealOfNametable
<1>7. c \in S <=> Twin(c, m) \in S
  BY <1>4, <1>5, <1>6
<1>8. CASE c \in S
  BY <1>1, <1>2, <1>7, <1>8 DEF RamWrite, Twin
<1>9. CASE c \notin S
  <2>1. c \in F
    BY <1>5, <1>9
  <2>2. s.PPU_RAM[c] = s.PPU_RAM[Twin(c, m)]
    BY <2>1 DEF Coherent
  <2> QED
    BY <1>1, <1>2, <1>7, <1>9, <2>2 DEF RamWrite, Twin
<1> QED
  BY <1>8, <1>9

\* What a store to PPUDATA does to the memory.
LEMMA StoreDataRam ==
  ASSUME NEW s \in PpuState, NEW d \in Byte
  PROVE  LET t == IoRead(s, 7) IN
           /\ IoWrite(t, 7, d).PPU_RAM = RamWrite(s, t.PPUADDR % VRAM, d)
           /\ IoWrite(t, 7, d).mirroring = s.mirroring
           /\ t.PPUADDR % VRAM \in VramAddress
<1> DEFINE t == IoRead(s, 7)
           u == Masked(t)
<1>1. t \in PpuState /\ u \in PpuState /\ u.PPUADDR \in VramAddress
  BY IoReadType, MaskedType
<1>2. u.PPUADDR = t.PPUADDR % VRAM
  BY <1>1 DEF Masked, PpuState
<1>3. u.PPU_RAM = s.PPU_RAM /\ u.mirroring = s.mirroring
  BY <1>1, IoReadKeepsRam DEF Masked, PpuState
<1>4. IoWrite(t, 7, d) = [u EXCEPT !.PPU_RAM = RamWrite(u, u.PPUADDR, d)]
  BY DEF IoWrite
<1>5. RamWrite(u, u.PPUADDR, d) = RamWrite(s, u.PPUADDR, d)
  BY <1>3 DEF RamWrite
<1> HIDE DEF t, u
<1>6. /\ IoWrite(t, 7, d).PPU_RAM = RamWrite(u, u.PPUADDR, d)
      /\ IoWrite(t, 7, d).mirroring = u.mirroring
  BY <1>1, <1>4 DEF PpuState
<1> QED
  BY <1>1, <1>2, <1>3, <1>5, <1>6 DEF t

\* The copies of a nametable cell are equal from the first time that it is
\* stored to under the mirroring in force, whatever the games store, wherever,
\* and whatever ROMs are loaded.
THEOREM NametablesStayCoherent == Spec => []NametablesCoherent
<1> DEFINE Coh == Coherent(ppu.PPU_RAM, ppu.mirroring, fresh)
<1>1. Init => Coh
  <2> SUFFICES ASSUME NEW m \in {0, 1}, ppu = Reset(Zeroed, m), fresh = Nametables
               PROVE  Coh
    BY DEF Init
  <2>1. ppu.PPU_RAM = [c \in Cells |-> 0] /\ ppu.mirroring = m
    BY DEF Reset, Zeroed
  <2> QED
    BY <2>1, PpuPortAssumption DEF Coherent, Nametables, Twin
<1>2. TypeOK /\ Coh /\ [Next]_vars => Coh'
  <2> SUFFICES ASSUME TypeOK, Coh, [Next]_vars PROVE Coh'
    OBVIOUS
  <2>0. ppu \in PpuState /\ fresh \in SUBSET Nametables /\ ppu.mirroring \in {0, 1}
    BY DEF TypeOK, PpuState
  <2>1. ASSUME ppu'.PPU_RAM = ppu.PPU_RAM, ppu'.mirroring = ppu.mirroring, fresh' = fresh
        PROVE  Coh'
    BY <2>1 DEF Coherent
  <2>2. ASSUME NEW r \in LoadRegs, Load(r) PROVE Coh'
    <3>1. r \in 0..7
      BY PpuPortAssumption
    <3> QED
      BY <2>0, <2>1, <2>2, <3>1, IoReadKeepsRam DEF Load
  <2>3. CASE LoadData
    BY <2>0, <2>1, <2>3, IoReadKeepsRam DEF LoadData
  <2>4. ASSUME NEW r \in StoreRegs, NEW d \in Values[r], Store(r, d) PROVE Coh'
    <3>1. r \in 0..7 /\ d \in Byte
      BY PpuPortAssumption, PpuRegsAssumption
    <3>2. IoRead(ppu, r) \in PpuState
      BY <2>0, <3>1, IoReadType
    <3> QED
      BY <2>0, <2>1, <2>4, <3>1, <3>2, IoReadKeepsRam, IoWriteKeepsRam DEF Store
  <2>5. ASSUME 7 \in StoreRegs, NEW d \in Values[7], StoreData(d) PROVE Coh'
    <3> DEFINE a == IoRead(ppu, 7).PPUADDR % VRAM
    <3>1. d \in Byte
      BY <2>5, PpuPortAssumption, PpuRegsAssumption
    <3>2. /\ ppu'.PPU_RAM = RamWrite(ppu, a, d) /\ ppu'.mirroring = ppu.mirroring
          /\ a \in VramAddress
      BY <2>0, <2>5, <3>1, StoreDataRam DEF StoreData
    <3>3. Position(ppu) = a
      BY <2>0, DataStream
    <3> HIDE DEF a
    <3>4. fresh' = fresh \cup ({a, Twin(a, ppu.mirroring)} \cap Nametables)
      BY <2>5, <3>3 DEF StoreData, Twin
    <3>5. Coherent(RamWrite(ppu, a, d), ppu.mirroring, fresh')
      BY <2>0, <3>1, <3>2, <3>4, RamWriteCoherent
    <3> QED
      BY <3>2, <3>5
  <2>6. CASE BecomeReady
    BY <2>0, <2>1, <2>6 DEF BecomeReady, PpuState
  <2>7. ASSUME NEW page \in Pages \cup {NoPage}, ppu'.PPU_RAM = Copied(ppu, page),
               ppu'.mirroring = ppu.mirroring, fresh' = fresh
        PROVE  Coh'
    <3> SUFFICES ASSUME NEW c \in fresh
                 PROVE  ppu'.PPU_RAM[c] = ppu'.PPU_RAM[Twin(c, ppu.mirroring)]
      BY <2>7 DEF Coherent
    <3>1. /\ c \in Cells /\ Nametable(c) /\ c \in VramAddress
          /\ Twin(c, ppu.mirroring) \in Cells
      BY <2>0, PpuPortAssumption, PpuRegsAssumption DEF Nametables, Nametable, Twin
    <3>2. Nametable(Twin(c, ppu.mirroring))
      BY <2>0, <3>1, TwinOfNametable DEF Nametable
    <3>3. \A b \in Cells : Nametable(b) => b \notin Patterns
      BY PpuRegsAssumption DEF Nametable, Patterns, VramAddress, VRAM, NAMETABLES
    <3>4. ppu.PPU_RAM[c] = ppu.PPU_RAM[Twin(c, ppu.mirroring)]
      BY DEF Coherent
    <3> QED
      BY <2>0, <2>7, <3>1, <3>2, <3>3, <3>4, PageCopied
  <2>8. ASSUME NEW page \in Pages, Switch(page) PROVE Coh'
    BY <2>0, <2>7, <2>8 DEF Switch, PpuState
  <2>9. ASSUME NEW m \in {0, 1}, NEW page \in Pages \cup {NoPage}, Insert(m, page)
        PROVE  Coh'
    <3>1. ppu'.PPU_RAM = Copied(ppu, page) /\ ppu'.mirroring = m
      BY <2>0, <2>9 DEF Insert, Reset, PpuState
    <3>2. CASE m = ppu.mirroring
      BY <2>7, <2>9, <3>1, <3>2 DEF Insert
    <3>3. CASE m # ppu.mirroring
      BY <2>9, <3>3 DEF Insert, Coherent
    <3> QED
      BY <3>2, <3>3
  <2>10. CASE UNCHANGED vars
    BY <2>1, <2>10 DEF vars
  <2> QED
    BY <2>2, <2>3, <2>4, <2>5, <2>6, <2>8, <2>9, <2>10 DEF Next
<1>3. Coh <=> NametablesCoherent
  BY DEF NametablesCoherent, Coherent, Twin
<1> QED
  BY <1>1, <1>2, <1>3, TypeCorrect, PTL DEF Spec
-----------------------------------------------------------------------------
(* PpuPort implements VramPort.  The values that Port gives to VramPort's  *)
(* variables:                                                              *)

PortV == IF lost THEN -1 ELSE Position(ppu)
PortLast == IF lost \/ ppu.ppu_2007_first_read THEN -1 ELSE ppu.PPUADDR % VRAM
PortHalf == IF ~aligned THEN -1
            ELSE IF ppu.addr_received_high_byte THEN ppu.ppu_addr_latch ELSE -2
PortCell == [c \in Known |-> ppu.PPU_RAM[c]]

\* The addresses that stand for a cell, and of those the ones of known cells.
PortCells(m) == {c \in Cells : /\ c < MIRRORS \/ c >= PALETTE
                               /\ c \in Nametables => ~Bit(c, MirroringXor(m))
                               /\ c >= PALETTE => RealAddress(c) = c}
KnownOf(s, F) == {c \in PortCells(s.mirroring) : c \in Nametables => c \in F}

LEMMA KnownIs == Known = KnownOf(ppu, fresh) /\ Known' = KnownOf(ppu', fresh')
BY DEF Known, KnownOf, PortCells

-----------------------------------------------------------------------------
(* Cells: VramPort's canonical addresses are the decoded ones, and of the  *)
(* two of a nametable the one with the mirroring bit clear.                *)

\* The mirroring bit changes with the twin.
LEMMA TwinBitFlips ==
  ASSUME NEW a \in VramAddress, NEW m \in {0, 1}
  PROVE  /\ Bit(Twin(a, m), MirroringXor(m)) <=> ~Bit(a, MirroringXor(m))
         /\ Bit(a, MirroringXor(m)) => Twin(a, m) = a - MirroringXor(m)
<1> DEFINE w == MirroringXor(m)
           q == a \div w
<1>1. a \in Nat
  BY DEF VramAddress, VRAM
<1>2. w \in {1024, 2048}
  BY DEF MirroringXor
<1> HIDE DEF w
<1>3. q \in Nat /\ (a + w) \div w = q + 1 /\ (a - w) \div w = q - 1
  <2>1. CASE w = 1024
    BY <1>1, <2>1
  <2>2. CASE w = 2048
    BY <1>1, <2>2
  <2> QED
    BY <1>2, <2>1, <2>2
<1>4. /\ q % 2 = 1 => (q - 1) % 2 # 1
      /\ q % 2 # 1 => (q + 1) % 2 = 1
  BY <1>3
<1>5. Twin(a, m) = IF q % 2 = 1 THEN a - w ELSE a + w
  BY DEF Twin, Flip, Bit, w
<1> QED
  BY <1>3, <1>4, <1>5 DEF Bit, w

\* The twin of a palette address is where nothing is promised.
LEMMA TwinOfPalette ==
  ASSUME NEW a \in VramAddress, NEW m \in {0, 1}, a >= PALETTE
  PROVE  Twin(a, m) >= MIRRORS /\ Twin(a, m) < PALETTE
<1>1. a \in Nat /\ a >= 16128 /\ a < 16384
  BY DEF VramAddress, VRAM, PALETTE
<1>2. a \div 1024 = 15 /\ a \div 2048 = 7
  BY <1>1
<1>3. Twin(a, m) = a - MirroringXor(m)
  BY <1>2 DEF Twin, Flip, Bit, MirroringXor
<1>4. MirroringXor(m) \in {1024, 2048}
  BY DEF MirroringXor
<1> QED
  BY <1>1, <1>3, <1>4 DEF PALETTE, MIRRORS

LEMMA CanonicalIs ==
  ASSUME NEW a \in VramAddress, NEW m \in {0, 1}
  PROVE  /\ Port!Mapped(a) <=> a < MIRRORS \/ a >= PALETTE
         /\ a < NAMETABLES => Port!Canonical(a, m) = a
         /\ Nametable(a) => Port!Canonical(a, m) =
                              IF Bit(a, MirroringXor(m)) THEN Twin(a, m) ELSE a
         /\ a >= PALETTE => Port!Canonical(a, m) = RealAddress(a)
<1>1. a \in Nat
  BY DEF VramAddress, VRAM
<1>2. Port!Mapped(a) <=> a < MIRRORS \/ a >= PALETTE
  BY <1>1 DEF Port!Mapped, MIRRORS, PALETTE
<1>3. ASSUME a < NAMETABLES PROVE Port!Canonical(a, m) = a
  BY <1>1, <1>3 DEF Port!Canonical, NAMETABLES
<1>4. ASSUME Nametable(a)
      PROVE  Port!Canonical(a, m) = IF Bit(a, MirroringXor(m)) THEN Twin(a, m) ELSE a
  <2>1. /\ ~ (a < 8192) /\ a >= 8192 /\ a < 12288
        /\ Port!TwinBit(m) = MirroringXor(m)
    BY <1>1, <1>4 DEF Nametable, NAMETABLES, MIRRORS, Port!TwinBit, MirroringXor
  <2>2. Port!Canonical(a, m) = IF (a \div Port!TwinBit(m)) % 2 = 1 THEN a - Port!TwinBit(m) ELSE a
    BY <2>1 DEF Port!Canonical
  <2> QED
    BY <2>1, <2>2, TwinBitFlips DEF Bit
<1>5. ASSUME a >= PALETTE PROVE Port!Canonical(a, m) = RealAddress(a)
  <2>1. ~ (a < 8192) /\ ~ (a >= 8192 /\ a < 12288)
    BY <1>1, <1>5 DEF PALETTE
  <2>2. Port!Canonical(a, m) = IF a % 32 \in {16, 20, 24, 28} THEN 16112 + (a % 32)
                                                             ELSE 16128 + (a % 32)
    BY <2>1 DEF Port!Canonical
  <2> QED
    BY <1>5, <2>2, PaletteIdempotent
<1> QED
  BY <1>2, <1>3, <1>4, <1>5

LEMMA RealOfLow ==
  ASSUME NEW a \in VramAddress, a < PALETTE
  PROVE  RealAddress(a) = a
<1>1. a \in Nat
  BY DEF VramAddress, VRAM
<1> QED
  BY <1>1 DEF RealAddress, PALETTE, VRAM

LEMMA CellsAre ==
  ASSUME NEW m \in {0, 1}
  PROVE  Port!CellsOf(m) = PortCells(m)
<1> SUFFICES ASSUME NEW c \in Cells
             PROVE  Port!Mapped(c) /\ Port!Canonical(c, m) = c <=>
                      /\ c < MIRRORS \/ c >= PALETTE
                      /\ c \in Nametables => ~Bit(c, MirroringXor(m))
                      /\ c >= PALETTE => RealAddress(c) = c
  BY DEF Port!CellsOf, PortCells
<1>1. c \in VramAddress /\ c \in Nat /\ (c \in Nametables <=> Nametable(c))
  BY PpuRegsAssumption DEF VramAddress, VRAM, Nametables, Nametable
<1>2. Nametable(c) => (Port!Canonical(c, m) = c <=> ~Bit(c, MirroringXor(m)))
  <2>1. MirroringXor(m) \in Nat \ {0}
    BY DEF MirroringXor
  <2> QED
    BY <1>1, <2>1, CanonicalIs, TwinBitFlips
<1>3. NAMETABLES < MIRRORS /\ MIRRORS < PALETTE /\ MIRRORS \in Nat /\ PALETTE \in Nat
      /\ NAMETABLES \in Nat
  BY DEF NAMETABLES, MIRRORS, PALETTE
<1>4. CASE c < NAMETABLES
  BY <1>1, <1>3, <1>4, CanonicalIs DEF Nametable
<1>5. CASE Nametable(c)
  BY <1>1, <1>2, <1>3, <1>5, CanonicalIs DEF Nametable
<1>6. CASE c >= MIRRORS
  BY <1>1, <1>3, <1>6, CanonicalIs DEF Nametable
<1> QED
  BY <1>1, <1>3, <1>4, <1>5, <1>6 DEF Nametable

\* What a load finds is the one value that the cell has, if it is known.
LEMMA LoadsCell ==
  ASSUME NEW s \in PpuState, NEW F \in SUBSET Nametables,
         Coherent(s.PPU_RAM, s.mirroring, F), NEW a \in VramAddress,
         Port!Mapped(a), Port!Canonical(a, s.mirroring) \in KnownOf(s, F)
  PROVE  RamRead(s, a) = s.PPU_RAM[Port!Canonical(a, s.mirroring)]
<1> DEFINE m == s.mirroring
           b == Port!Canonical(a, m)
<1>1. m \in {0, 1} /\ a \in Nat /\ b \in Cells
  BY DEF PpuState, VramAddress, VRAM, PortCells, KnownOf
<1>2. NAMETABLES < MIRRORS /\ MIRRORS < PALETTE /\ MIRRORS \in Nat /\ PALETTE \in Nat
      /\ NAMETABLES \in Nat
  BY DEF NAMETABLES, MIRRORS, PALETTE
<1>3. CASE a < NAMETABLES
  <2>1. b = a /\ RealAddress(a) = a
    BY <1>1, <1>2, <1>3, CanonicalIs, RealOfLow
  <2> QED
    BY <1>1, <2>1 DEF RamRead
<1>4. CASE Nametable(a)
  <2>1. RealAddress(a) = a
    BY <1>1, <1>2, <1>4, RealOfLow DEF Nametable
  <2>2. CASE b = a
    BY <1>1, <2>1, <2>2 DEF RamRead
  <2>3. CASE b # a
    <3>1. b = Twin(a, m)
      BY <1>1, <1>4, <2>3, CanonicalIs
    <3>2. Nametable(b) /\ Twin(b, m) = a
      BY <1>1, <1>4, <3>1, TwinOfNametable DEF Nametable
    <3>3. b \in Nametables
      BY <1>1, <3>2 DEF Nametable, Nametables
    <3>4. a \in Cells
      BY <1>1, <3>2, <3>3, PpuPortAssumption DEF Twin
    <3>5. s.PPU_RAM[b] = s.PPU_RAM[a]
      BY <1>1, <3>2, <3>3 DEF Coherent, KnownOf
    <3> QED
      BY <2>1, <3>4, <3>5 DEF RamRead
  <2> QED
    BY <2>2, <2>3
<1>5. CASE a >= PALETTE
  BY <1>1, <1>5, CanonicalIs DEF RamRead
<1>6. a < MIRRORS \/ a >= PALETTE
  BY <1>1, CanonicalIs
<1> QED
  BY <1>1, <1>2, <1>3, <1>4, <1>5, <1>6 DEF Nametable

\* A store changes that value and no other, if it does not go to a pattern
\* table.
LEMMA StoresCell ==
  ASSUME NEW a \in VramAddress, NEW m \in {0, 1}, NEW c \in PortCells(m),
         Port!Mapped(a), a >= NAMETABLES
  PROVE  c \in {RealAddress(a), RealAddress(Twin(a, m))} <=> c = Port!Canonical(a, m)
<1>1. a \in Nat /\ c \in VramAddress /\ c \in Nat /\ Twin(a, m) \in Nat
      /\ Twin(a, m) \in VramAddress
  <2>1. c \in VramAddress /\ Twin(a, m) \in VramAddress
    BY PpuRegsAssumption, TwinInRange DEF PortCells
  <2>2. \A b \in VramAddress : b \in Nat
    BY DEF VramAddress, VRAM
  <2> QED
    BY <2>1, <2>2
<1>2. NAMETABLES < MIRRORS /\ MIRRORS < PALETTE /\ MIRRORS \in Nat /\ PALETTE \in Nat
      /\ NAMETABLES \in Nat
  BY DEF NAMETABLES, MIRRORS, PALETTE
<1>3. CASE Nametable(a)
  <2>1. Nametable(Twin(a, m))
    BY <1>3, TwinOfNametable DEF Nametable
  <2>2. RealAddress(a) = a /\ RealAddress(Twin(a, m)) = Twin(a, m)
    <3>1. a < PALETTE /\ Twin(a, m) < PALETTE
      <4>2. Twin(a, m) < MIRRORS /\ a < MIRRORS
        BY <1>3, <2>1 DEF Nametable
      <4> QED
        BY <1>1, <1>2, <4>2
    <3> QED
      BY <1>1, <3>1, RealOfLow
  <2>3. Port!Canonical(a, m) = IF Bit(a, MirroringXor(m)) THEN Twin(a, m) ELSE a
    BY <1>3, CanonicalIs
  <2>4. Nametable(c) => ~Bit(c, MirroringXor(m))
    BY DEF PortCells, Nametable, Nametables
  <2>5. Bit(Twin(a, m), MirroringXor(m)) <=> ~Bit(a, MirroringXor(m))
    BY TwinBitFlips
  <2> QED
    BY <1>3, <2>1, <2>2, <2>3, <2>4, <2>5
<1>4. CASE a >= PALETTE
  <2>1. Port!Canonical(a, m) = RealAddress(a)
    BY <1>4, CanonicalIs
  <2>2. Twin(a, m) >= MIRRORS /\ Twin(a, m) < PALETTE
    BY <1>4, TwinOfPalette
  <2>3. RealAddress(Twin(a, m)) = Twin(a, m)
    BY <1>1, <2>2, RealOfLow
  <2>4. c # Twin(a, m)
    <3>1. c < MIRRORS \/ c >= PALETTE
      BY DEF PortCells
    <3> QED
      BY <1>1, <1>2, <2>2, <3>1
  <2> QED
    BY <2>1, <2>3, <2>4
<1>5. a < MIRRORS \/ a >= PALETTE
  BY CanonicalIs
<1> QED
  BY <1>1, <1>2, <1>3, <1>4, <1>5 DEF Nametable

-----------------------------------------------------------------------------
(* Every step of PpuPort is one of VramPort, or changes nothing there.     *)

PortInv == TypeOK /\ Coherent(ppu.PPU_RAM, ppu.mirroring, fresh)

LEMMA PortFacts ==
  ASSUME TypeOK
  PROVE  /\ ppu \in PpuState /\ lost \in BOOLEAN /\ ppu.mirroring \in {0, 1}
         /\ ppu.ppu_2007_first_read \in BOOLEAN
         /\ AddressIncrement(ppu) \in {1, 32}
         /\ PortV = -1 <=> lost
         /\ ~lost => PortV = Position(ppu) /\ PortV \in VramAddress
         /\ PortLast = -1 <=> lost \/ ppu.ppu_2007_first_read
         /\ PortLast # -1 => PortLast = ppu.PPUADDR % VRAM /\ PortLast \in VramAddress
<1>1. ppu \in PpuState /\ lost \in BOOLEAN
  BY DEF TypeOK
<1>2. ppu.mirroring \in {0, 1} /\ ppu.ppu_2007_first_read \in BOOLEAN
  BY <1>1 DEF PpuState
<1>3. \A a \in VramAddress : a # -1
  BY DEF VramAddress, VRAM
<1> QED
  BY <1>1, <1>2, <1>3, PositionIs DEF PortV, PortLast

\* The contents are one byte for each cell that is known.
LEMMA CellType ==
  ASSUME NEW s \in PpuState, NEW F
  PROVE  Port!Contents([c \in KnownOf(s, F) |-> s.PPU_RAM[c]], s.mirroring)
<1>1. s.mirroring \in {0, 1} /\ s.PPU_RAM \in [Cells -> 0..255]
  BY DEF PpuState, Byte
<1>2. KnownOf(s, F) \subseteq PortCells(s.mirroring) /\ PortCells(s.mirroring) \subseteq Cells
  BY DEF PortCells, KnownOf
<1>3. Port!CellsOf(s.mirroring) = PortCells(s.mirroring)
  BY <1>1, CellsAre
<1> QED
  BY <1>1, <1>2, <1>3 DEF Port!Contents

LEMMA PortInit ==
  ASSUME Init, TypeOK
  PROVE  Port!Init
<1>1. PICK m \in {0, 1} : ppu = Reset(Zeroed, m)
  BY DEF Init
<1>2. /\ ppu.PPUADDR = 0 /\ ppu.ppu_2007_first_read = TRUE /\ ppu.PPUCTRL = 0
  BY <1>1 DEF Reset, Zeroed
<1>3. lost = FALSE /\ aligned = FALSE /\ out = -1
  BY DEF Init, Unknown
<1>4. 0 % VRAM = 0 /\ 0 + 0 = 0
  BY DEF VRAM
<1>5. PortV = 0 /\ PortLast = -1 /\ AddressIncrement(ppu) = 1 /\ PortHalf = -1
  BY <1>2, <1>3, <1>4 DEF PortV, PortLast, PortHalf, Position, AddressIncrement, Bit
<1>6. ppu.mirroring \in {0, 1} /\ Port!Contents(PortCell, ppu.mirroring)
  BY CellType, PortFacts, KnownIs DEF PortCell
<1>7. Port!Init <=> /\ PortV = 0 /\ PortLast = Port!Unspecified
                    /\ PortHalf = Port!Unspecified
                    /\ AddressIncrement(ppu) = 1
                    /\ ppu.mirroring \in {0, 1}
                    /\ Port!Contents(PortCell, ppu.mirroring)
                    /\ out = Port!Unwatched
  BY DEF Port!Init, PortV, PortLast, PortHalf, PortCell
<1> QED
  BY <1>3, <1>5, <1>6, <1>7 DEF Port!Unspecified, Port!Unwatched

\* What Port's actions say in terms of PortV, PortLast, PortHalf and PortCell.
LEMMA PortMoveOn ==
  Port!MoveOn <=>
      /\ PortLast' = PortV
      /\ PortV' = IF PortV = -1 THEN -1 ELSE (PortV + AddressIncrement(ppu)) % 16384
      /\ PortHalf' = PortHalf
BY DEF Port!MoveOn, PortV, PortLast, PortHalf, Port!Unspecified, Port!SIZE

LEMMA PortLoad ==
  Port!Load <=>
      /\ Port!MoveOn
      /\ out' \in 0..255 \cup {-1}
      /\ PortLast # -1 /\ Port!Mapped(PortLast)
           /\ Port!Canonical(PortLast, ppu.mirroring) \in DOMAIN PortCell =>
           out' = PortCell[Port!Canonical(PortLast, ppu.mirroring)]
      /\ UNCHANGED <<AddressIncrement(ppu), ppu.mirroring, PortCell>>
BY DEF Port!Load, PortV, PortLast, PortCell, Port!Unspecified, Port!Unwatched

LEMMA PortStore ==
  \A d : Port!Store(d) <=>
      /\ Port!MoveOn
      /\ Port!Contents(PortCell', ppu.mirroring)
      /\ PortV # -1 /\ Port!Mapped(PortV) =>
           PortCell' =
             [c \in DOMAIN PortCell \cup ({Port!Canonical(PortV, ppu.mirroring)}
                                            \cap Port!CellsOf(ppu.mirroring)) |->
                IF c = Port!Canonical(PortV, ppu.mirroring) THEN d ELSE PortCell[c]]
      /\ UNCHANGED <<AddressIncrement(ppu), ppu.mirroring, out>>
BY DEF Port!Store, PortV, PortLast, PortCell, Port!Unspecified

LEMMA PortRestart ==
  Port!Restart <=>
      /\ PortV' = IF PortLast = -1 THEN PortV ELSE -1
      /\ PortLast' = -1
      /\ UNCHANGED <<AddressIncrement(ppu), ppu.mirroring, PortCell, out>>
BY DEF Port!Restart, PortV, PortLast, PortCell, Port!Unspecified

LEMMA PortLook == Port!Look <=> Port!Restart /\ PortHalf' = -2
BY DEF Port!Look, PortHalf, Port!Whole

LEMMA PortHalfAddress ==
  \A d : Port!Half(d) <=>
      /\ PortHalf \in {-2, -1}
      /\ PortHalf' = IF PortHalf = -2 THEN d ELSE -1
      /\ Port!Restart
BY DEF Port!Half, PortHalf, Port!Whole, Port!Unspecified

LEMMA PortPoint ==
  \A d : Port!Point(d) <=>
      /\ PortHalf # -2
      /\ IF PortHalf = -1 THEN PortV' \in VramAddress /\ PortHalf' = PortHalf
         ELSE PortV' = (PortHalf * 256 + d) % VRAM /\ PortHalf' = -2
      /\ PortLast' = -1
      /\ UNCHANGED <<AddressIncrement(ppu), ppu.mirroring, PortCell, out>>
BY DEF Port!Point, PortV, PortLast, PortHalf, PortCell, Port!Unspecified, Port!Whole,
       Port!Addr, Port!SIZE, VramAddress, VRAM

LEMMA PortSetStep ==
  Port!SetStep <=>
      /\ AddressIncrement(ppu)' \in {1, 32}
      /\ IF AddressIncrement(ppu)' = AddressIncrement(ppu) \/ PortLast = -1
         THEN PortV' = PortV /\ PortLast' = PortLast
         ELSE PortV' = -1 /\ PortLast' = -1
      /\ UNCHANGED <<PortHalf, ppu.mirroring, PortCell, out>>
BY DEF Port!SetStep, PortV, PortLast, PortHalf, PortCell, Port!Unspecified

LEMMA PortUnder ==
  \A page : Port!Under(page) =
    [c \in DOMAIN PortCell |-> IF c \in DOMAIN page THEN page[c] ELSE PortCell[c]]
BY DEF Port!Under, PortCell

LEMMA PortSwitch ==
  \A page : Port!Switch(page) <=>
      /\ PortCell' = Port!Under(page)
      /\ UNCHANGED <<PortV, PortLast, PortHalf, AddressIncrement(ppu), ppu.mirroring, out>>
BY DEF Port!Switch, PortV, PortLast, PortHalf, PortCell

LEMMA PortInsert ==
  \A m, page : Port!Insert(m, page) <=>
      /\ PortV' = 0 /\ PortLast' = -1 /\ PortHalf' = -1 /\ AddressIncrement(ppu)' = 1
      /\ ppu'.mirroring = m
      /\ PortCell' = [c \in {c \in DOMAIN PortCell :
                               c >= 8192 /\ c < 12288 => m = ppu.mirroring} |->
                        Port!Under(page)[c]]
      /\ UNCHANGED out
BY DEF Port!Insert, PortV, PortLast, PortHalf, PortCell, Port!Unspecified

PortStep == [Port!Next]_(Port!vars)

LEMMA PortAction ==
  ASSUME \/ Port!Load
         \/ \E d \in Bytes : Port!Store(d) \/ Port!Half(d) \/ Port!Point(d)
         \/ Port!Look \/ Port!SetStep
         \/ \E page \in Pages : Port!Switch(page)
         \/ \E m \in {0, 1} : \E page \in Pages \cup {NoPage} : Port!Insert(m, page)
  PROVE  PortStep
BY DEF PortStep, Port!Next, NoPage

LEMMA CellKept ==
  ASSUME Kept(ppu, ppu'), fresh' = fresh
  PROVE  PortCell' = PortCell /\ ppu'.mirroring = ppu.mirroring
BY KnownIs DEF Kept, PortCell, KnownOf

\* A look at the status or half an address, in the middle of a stream or not.
LEMMA RestartStep ==
  ASSUME TypeOK, TypeOK', Kept(ppu, ppu'), fresh' = fresh,
         ppu'.PPUADDR % VRAM = ppu.PPUADDR % VRAM, ppu'.ppu_2007_first_read,
         AddressIncrement(ppu') = AddressIncrement(ppu),
         lost' = (lost \/ Interrupted(ppu, ppu')), out' = out
  PROVE  Port!Restart
<1>1. PortCell' = PortCell /\ ppu'.mirroring = ppu.mirroring
  BY CellKept
<1>2. ppu \in PpuState /\ ppu' \in PpuState /\ lost \in BOOLEAN
  BY DEF TypeOK
<1>3. PortLast' = -1
  BY DEF PortLast
<1>4. CASE lost
  BY <1>1, <1>3, <1>4, PortRestart DEF PortV, PortLast
<1>5. CASE ~lost /\ ppu.ppu_2007_first_read
  <2>1. ~lost' /\ PortLast = -1
    BY <1>5 DEF Interrupted, PortLast
  <2>2. Position(ppu') = Position(ppu)
    BY <1>2, <1>5, PositionIs
  <2>3. PortV' = PortV
    BY <1>5, <2>1, <2>2 DEF PortV
  <2> QED
    BY <1>1, <1>3, <2>1, <2>3, PortRestart
<1>6. CASE ~lost /\ ~ppu.ppu_2007_first_read
  <2>1. Position(ppu') # Position(ppu)
    BY <1>2, <1>6, Diverted
  <2>2. lost'
    BY <1>6, <2>1 DEF Interrupted
  <2>3. PortV' = -1 /\ PortLast # -1
    BY <1>6, <2>2, PortFacts DEF PortV
  <2> QED
    BY <1>1, <1>3, <2>3, PortRestart
<1> QED
  BY <1>2, <1>4, <1>5, <1>6 DEF TypeOK

\* Whatever else happens to the registers: another step, or none at all.
LEMMA SetStepStep ==
  ASSUME TypeOK, TypeOK', Kept(ppu, ppu'), fresh' = fresh,
         ppu'.PPUADDR % VRAM = ppu.PPUADDR % VRAM,
         ppu'.ppu_2007_first_read = ppu.ppu_2007_first_read,
         PortHalf' = PortHalf,
         lost' = (lost \/ Interrupted(ppu, ppu')), out' = out
  PROVE  PortStep
<1>1. PortCell' = PortCell /\ ppu'.mirroring = ppu.mirroring
  BY CellKept
<1>2. ppu \in PpuState /\ ppu' \in PpuState /\ lost \in BOOLEAN
      /\ ppu.ppu_2007_first_read \in BOOLEAN
  BY DEF TypeOK, PpuState
<1>3. AddressIncrement(ppu') \in {1, 32} /\ AddressIncrement(ppu)' = AddressIncrement(ppu')
  BY <1>2, PositionIs
<1>4. CASE lost
  <2>1. PortV = -1 /\ PortLast = -1 /\ PortV' = -1 /\ PortLast' = -1
    BY <1>4 DEF PortV, PortLast
  <2>2. Port!SetStep
    BY <1>1, <1>3, <2>1, PortSetStep
  <2> QED
    BY <2>2, PortAction
<1>5. CASE ~lost /\ ppu.ppu_2007_first_read
  <2>1. ~lost' /\ PortLast = -1 /\ PortLast' = -1
    BY <1>5 DEF Interrupted, PortLast
  <2>2. Position(ppu') = Position(ppu)
    BY <1>2, <1>5, PositionIs
  <2>3. PortV' = PortV
    BY <1>5, <2>1, <2>2 DEF PortV
  <2>4. Port!SetStep
    BY <1>1, <1>3, <2>1, <2>3, PortSetStep
  <2> QED
    BY <2>4, PortAction
<1>6. CASE ~lost /\ ~ppu.ppu_2007_first_read /\ AddressIncrement(ppu') = AddressIncrement(ppu)
  <2>1. Position(ppu') = Position(ppu)
    BY <1>2, <1>6, PositionIs
  <2>2. ~lost'
    BY <1>6, <2>1 DEF Interrupted
  <2>3. PortV' = PortV /\ PortLast' = PortLast
    BY <1>6, <2>1, <2>2 DEF PortV, PortLast
  <2>4. Port!SetStep
    BY <1>1, <1>3, <1>6, <2>3, PortSetStep
  <2> QED
    BY <2>4, PortAction
<1>7. CASE ~lost /\ ~ppu.ppu_2007_first_read /\ AddressIncrement(ppu') # AddressIncrement(ppu)
  <2>1. Position(ppu') # Position(ppu)
    BY <1>2, <1>7, Diverted
  <2>2. lost'
    BY <1>7, <2>1 DEF Interrupted
  <2>3. PortV' = -1 /\ PortLast' = -1 /\ PortLast # -1
    BY <1>7, <2>2, PortFacts DEF PortV, PortLast
  <2>4. Port!SetStep
    BY <1>1, <1>3, <1>7, <2>3, PortSetStep
  <2> QED
    BY <2>4, PortAction
<1> QED
  BY <1>2, <1>4, <1>5, <1>6, <1>7

\* A look at the status.
LEMMA LookStep ==
  ASSUME TypeOK, TypeOK', Kept(ppu, ppu'), fresh' = fresh, aligned',
         ppu'.PPUADDR % VRAM = ppu.PPUADDR % VRAM, ppu'.ppu_2007_first_read,
         ~ppu'.addr_received_high_byte, ppu'.PPUCTRL = ppu.PPUCTRL,
         lost' = (lost \/ Interrupted(ppu, ppu')), out' = out
  PROVE  PortStep
<1>1. AddressIncrement(ppu') = AddressIncrement(ppu)
  BY DEF AddressIncrement
<1>2. PortHalf' = -2
  BY DEF PortHalf
<1>3. Port!Look
  BY <1>1, <1>2, RestartStep, PortLook
<1> QED
  BY <1>3, PortAction

\* Half an address.
LEMMA HalfStep ==
  ASSUME TypeOK, TypeOK', Kept(ppu, ppu'), fresh' = fresh, aligned' = aligned,
         NEW d \in Bytes,
         ppu'.PPUADDR % VRAM = ppu.PPUADDR % VRAM, ppu'.ppu_2007_first_read,
         ~ppu.addr_received_high_byte,
         ppu'.addr_received_high_byte, ppu'.ppu_addr_latch = d,
         ppu'.PPUCTRL = ppu.PPUCTRL,
         lost' = (lost \/ Interrupted(ppu, ppu')), out' = out
  PROVE  PortStep
<1>1. AddressIncrement(ppu') = AddressIncrement(ppu)
  BY DEF AddressIncrement
<1>2. PortHalf \in {-2, -1} /\ PortHalf' = IF PortHalf = -2 THEN d ELSE -1
  BY DEF PortHalf
<1>3. Port!Half(d)
  BY <1>1, <1>2, RestartStep, PortHalfAddress
<1> QED
  BY <1>3, PortAction

\* The address is complete: the stream starts where it says.
LEMMA PointStep ==
  ASSUME TypeOK, TypeOK', Kept(ppu, ppu'), fresh' = fresh, aligned' = aligned,
         NEW d \in Bytes,
         ppu.addr_received_high_byte, ~ppu'.addr_received_high_byte,
         ppu'.PPUADDR = ppu.ppu_addr_latch * 256 + d, ppu'.ppu_2007_first_read,
         ppu'.PPUCTRL = ppu.PPUCTRL, ~lost', out' = out
  PROVE  PortStep
<1>1. PortCell' = PortCell /\ ppu'.mirroring = ppu.mirroring
  BY CellKept
<1>2. ppu' \in PpuState /\ ppu.ppu_addr_latch \in Byte
  BY DEF TypeOK, PpuState
<1>3. PortLast' = -1 /\ PortV' = Position(ppu')
  BY DEF PortLast, PortV
<1>4. Position(ppu') = ppu'.PPUADDR % VRAM /\ Position(ppu') \in VramAddress
  BY <1>2, PositionIs
<1>5. AddressIncrement(ppu)' = AddressIncrement(ppu)
  BY DEF AddressIncrement
<1>6. CASE aligned
  <2>1. PortHalf = ppu.ppu_addr_latch /\ PortHalf' = -2
    BY <1>6 DEF PortHalf
  <2>2. PortHalf # -2 /\ PortHalf # -1
    BY <1>2, <2>1 DEF Byte
  <2>3. PortV' = (PortHalf * 256 + d) % VRAM
    BY <1>3, <1>4, <2>1
  <2>4. Port!Point(d)
    BY <1>1, <1>3, <1>5, <2>1, <2>2, <2>3, PortPoint
  <2> QED
    BY <2>4, PortAction
<1>7. CASE ~aligned
  <2>1. PortHalf = -1 /\ PortHalf' = -1
    BY <1>7 DEF PortHalf
  <2>2. Port!Point(d)
    BY <1>1, <1>3, <1>4, <1>5, <2>1, PortPoint
  <2> QED
    BY <2>2, PortAction
<1> QED
  BY <1>6, <1>7

LEMMA MoveOnStep ==
  ASSUME TypeOK, TypeOK', lost' = lost, PortHalf' = PortHalf,
         ppu'.PPUADDR % VRAM = Position(ppu), ~ppu'.ppu_2007_first_read,
         AddressIncrement(ppu') = AddressIncrement(ppu)
  PROVE  Port!MoveOn
<1>1. ppu \in PpuState /\ ppu' \in PpuState /\ lost \in BOOLEAN
  BY DEF TypeOK
<1>2. CASE lost
  BY <1>2, PortMoveOn DEF PortV, PortLast
<1>3. CASE ~lost
  <2>1. PortV = Position(ppu) /\ PortV # -1 /\ PortLast' = Position(ppu)
    BY <1>3, PortFacts DEF PortLast
  <2>2. PortV' = (Position(ppu) + AddressIncrement(ppu)) % VRAM
    BY <1>1, <1>3, PositionIs DEF PortV
  <2>3. PortV' = (Position(ppu) + AddressIncrement(ppu)) % 16384
    BY <2>2 DEF VRAM
  <2> QED
    BY <2>1, <2>3, PortMoveOn
<1> QED
  BY <1>1, <1>2, <1>3

LEMMA LoadDataStep ==
  ASSUME PortInv, TypeOK', LoadData
  PROVE  PortStep
<1>1. /\ TypeOK /\ ppu \in PpuState /\ fresh \in SUBSET Nametables
      /\ Coherent(ppu.PPU_RAM, ppu.mirroring, fresh)
  BY DEF PortInv, TypeOK
<1>2. /\ ppu' = IoRead(ppu, 7) /\ out' = IoData(ppu)
      /\ lost' = lost /\ fresh' = fresh /\ aligned' = aligned
  BY DEF LoadData
<1>3. /\ ppu'.PPUADDR % VRAM = Position(ppu) /\ Kept(ppu, ppu')
      /\ ~ppu'.ppu_2007_first_read /\ AddressIncrement(ppu') = AddressIncrement(ppu)
      /\ out' = RamRead(ppu, ppu.PPUADDR % VRAM)
      /\ ppu'.addr_received_high_byte = ppu.addr_received_high_byte
      /\ ppu'.ppu_addr_latch = ppu.ppu_addr_latch
  BY <1>1, <1>2, DataStream
<1>4. PortHalf' = PortHalf
  BY <1>2, <1>3 DEF PortHalf
<1>5. Port!MoveOn
  BY <1>1, <1>2, <1>3, <1>4, MoveOnStep
<1>6. PortCell' = PortCell /\ ppu'.mirroring = ppu.mirroring
  BY <1>2, <1>3, CellKept
<1>7. out' \in 0..255 \cup {-1}
  BY <1>1, <1>2, IoDataType DEF Byte, Unknown
<1>8. DOMAIN PortCell = KnownOf(ppu, fresh)
  BY KnownIs DEF PortCell
<1>9. ASSUME PortLast # -1, Port!Mapped(PortLast),
             Port!Canonical(PortLast, ppu.mirroring) \in DOMAIN PortCell
      PROVE  out' = PortCell[Port!Canonical(PortLast, ppu.mirroring)]
  <2>1. PortLast = ppu.PPUADDR % VRAM /\ PortLast \in VramAddress
    BY <1>1, <1>9, PortFacts
  <2>2. RamRead(ppu, PortLast) = ppu.PPU_RAM[Port!Canonical(PortLast, ppu.mirroring)]
    BY <1>1, <1>8, <1>9, <2>1, LoadsCell
  <2> QED
    BY <1>3, <1>9, <2>1, <2>2 DEF PortCell
<1>10. Port!Load
  BY <1>3, <1>5, <1>6, <1>7, <1>9, PortLoad
<1> QED
  BY <1>10, PortAction

\* What a store to the nametables or the palette makes of the cells.
LEMMA StoredCells ==
  ASSUME NEW s \in PpuState, NEW t \in PpuState, NEW F \in SUBSET Nametables,
         NEW a \in VramAddress, NEW d \in Byte, Port!Mapped(a), a >= NAMETABLES,
         t.PPU_RAM = RamWrite(s, a, d), t.mirroring = s.mirroring,
         NEW G, G = F \cup ({a, Twin(a, s.mirroring)} \cap Nametables)
  PROVE  LET b == Port!Canonical(a, s.mirroring) IN
         [c \in KnownOf(t, G) |-> t.PPU_RAM[c]] =
           [c \in KnownOf(s, F) \cup ({b} \cap PortCells(s.mirroring)) |->
              IF c = b THEN d ELSE s.PPU_RAM[c]]
<1> DEFINE m == s.mirroring
           b == Port!Canonical(a, m)
           S == {RealAddress(a), RealAddress(Twin(a, m))}
<1>1. m \in {0, 1}
  BY DEF PpuState
<1>2. \A c \in PortCells(m) : c \in Cells /\ (c \in S <=> c = b)
  BY <1>1, StoresCell DEF PortCells
<1>3. ASSUME NEW c \in Nametables PROVE c \in S <=> c \in {a, Twin(a, m)}
  <2>1. c \in VramAddress /\ Nametable(c) /\ Twin(a, m) \in VramAddress
    BY <1>1, TwinInRange, PpuRegsAssumption DEF Nametables, Nametable
  <2> QED
    BY <2>1, RealOfNametable
<1>4. KnownOf(t, G) = KnownOf(s, F) \cup ({b} \cap PortCells(m))
  BY <1>2, <1>3 DEF KnownOf
<1>5. \A c \in PortCells(m) : t.PPU_RAM[c] = IF c = b THEN d ELSE s.PPU_RAM[c]
  BY <1>2 DEF RamWrite, Twin
<1>6. KnownOf(t, G) \subseteq PortCells(m)
  BY DEF KnownOf
<1> HIDE DEF b
<1>7. \A c \in KnownOf(t, G) : t.PPU_RAM[c] = IF c = b THEN d ELSE s.PPU_RAM[c]
  BY <1>5, <1>6
<1> QED
  BY <1>4, <1>7 DEF b

LEMMA StoreDataStep ==
  ASSUME PortInv, TypeOK', NEW d \in Bytes, StoreData(d),
         \A a \in StoredTo : a >= NAMETABLES
  PROVE  PortStep
<1> DEFINE s == IoRead(ppu, 7)
           t == Masked(s)
           m == ppu.mirroring
<1>1. /\ TypeOK /\ ppu \in PpuState /\ m \in {0, 1} /\ ppu' \in PpuState
      /\ fresh \in SUBSET Nametables
  BY DEF PortInv, TypeOK, PpuState
<1>2. s \in PpuState /\ t \in PpuState /\ d \in Byte
  BY <1>1, IoReadType, MaskedType, PpuRegsAssumption
<1>3. /\ s.PPUADDR % VRAM = Position(ppu)
      /\ ~s.ppu_2007_first_read /\ AddressIncrement(s) = AddressIncrement(ppu)
      /\ s.addr_received_high_byte = ppu.addr_received_high_byte
      /\ s.ppu_addr_latch = ppu.ppu_addr_latch
  BY <1>1, DataStream
<1>4. /\ t.PPUADDR % VRAM = Position(ppu)
      /\ ~t.ppu_2007_first_read /\ AddressIncrement(t) = AddressIncrement(ppu)
      /\ t.addr_received_high_byte = ppu.addr_received_high_byte
      /\ t.ppu_addr_latch = ppu.ppu_addr_latch
  BY <1>2, <1>3, MaskedStream DEF AddressIncrement
<1>5. /\ ppu' = IoWrite(s, 7, d)
      /\ ppu' = [t EXCEPT !.PPU_RAM = RamWrite(t, t.PPUADDR, d)]
      /\ lost' = lost /\ out' = out /\ aligned' = aligned
      /\ fresh' = fresh \cup ({Position(ppu), Twin(Position(ppu), m)} \cap Nametables)
      /\ Position(ppu) >= NAMETABLES
  BY DEF StoreData, IoWrite, Twin
<1>6. ppu'.PPU_RAM = RamWrite(ppu, Position(ppu), d) /\ ppu'.mirroring = m
  BY <1>1, <1>2, <1>3, <1>5, StoreDataRam
<1> HIDE DEF t
<1>7. /\ ppu'.PPUADDR % VRAM = Position(ppu)
      /\ ~ppu'.ppu_2007_first_read /\ AddressIncrement(ppu') = AddressIncrement(ppu)
      /\ ppu'.addr_received_high_byte = ppu.addr_received_high_byte
      /\ ppu'.ppu_addr_latch = ppu.ppu_addr_latch
  BY <1>2, <1>4, <1>5 DEF PpuState, AddressIncrement
<1>8. PortHalf' = PortHalf
  BY <1>5, <1>7 DEF PortHalf
<1>9. Port!MoveOn
  BY <1>1, <1>5, <1>7, <1>8, MoveOnStep
<1>10. PortCell' = [c \in KnownOf(ppu', fresh') |-> ppu'.PPU_RAM[c]]
       /\ DOMAIN PortCell = KnownOf(ppu, fresh)
       /\ \A c \in KnownOf(ppu, fresh) : PortCell[c] = ppu.PPU_RAM[c]
  BY KnownIs DEF PortCell
<1>11. Port!Contents(PortCell', m)
  BY <1>1, <1>6, <1>10, CellType
<1>12. ASSUME PortV # -1, Port!Mapped(PortV)
       PROVE  PortCell' =
                [c \in DOMAIN PortCell \cup ({Port!Canonical(PortV, m)} \cap Port!CellsOf(m)) |->
                   IF c = Port!Canonical(PortV, m) THEN d ELSE PortCell[c]]
  <2> DEFINE b == Port!Canonical(PortV, m)
             D == KnownOf(ppu, fresh) \cup ({b} \cap PortCells(m))
  <2>1. PortV = Position(ppu) /\ PortV \in VramAddress
    BY <1>1, <1>12, PortFacts
  <2>2. PortCell' = [c \in D |-> IF c = b THEN d ELSE ppu.PPU_RAM[c]]
    BY <1>1, <1>2, <1>5, <1>6, <1>10, <1>12, <2>1, StoredCells
  <2>3. D = DOMAIN PortCell \cup ({b} \cap Port!CellsOf(m))
    BY <1>1, <1>10, CellsAre
  <2>4. \A c \in D : c # b => c \in KnownOf(ppu, fresh)
    OBVIOUS
  <2> HIDE DEF b, D
  <2>5. \A c \in D : (IF c = b THEN d ELSE ppu.PPU_RAM[c]) = (IF c = b THEN d ELSE PortCell[c])
    BY <1>10, <2>4
  <2>6. PortCell' = [c \in D |-> IF c = b THEN d ELSE PortCell[c]]
    BY <2>2, <2>5
  <2> QED
    BY <2>3, <2>6 DEF b
<1>13. Port!Store(d)
  BY <1>5, <1>6, <1>7, <1>9, <1>11, <1>12, PortStore
<1> QED
  BY <1>13, PortAction

LEMMA StoreStep ==
  ASSUME TypeOK, TypeOK', NEW r \in StoreRegs, NEW d \in Values[r], Store(r, d)
  PROVE  PortStep
<1> DEFINE s == IoRead(ppu, r)
<1>1. ppu \in PpuState /\ ppu' \in PpuState /\ r \in 0..7 /\ r # 7 /\ d \in Byte /\ d \in Bytes
      /\ lost \in BOOLEAN /\ aligned \in BOOLEAN
  BY PpuPortAssumption, PpuRegsAssumption DEF TypeOK, Store
<1>2. /\ s \in PpuState /\ s.PPUADDR % VRAM = ppu.PPUADDR % VRAM
      /\ Kept(ppu, s) /\ s.ready = ppu.ready /\ s.PPUCTRL = ppu.PPUCTRL
      /\ IF r = 2
         THEN s.ppu_2007_first_read /\ ~s.addr_received_high_byte
         ELSE /\ s.ppu_2007_first_read = ppu.ppu_2007_first_read
              /\ s.addr_received_high_byte = ppu.addr_received_high_byte
              /\ s.ppu_addr_latch = ppu.ppu_addr_latch
  BY <1>1, IoReadType, ReadStream
<1>3. /\ ppu' = IoWrite(s, r, d)
      /\ lost' = (~Pointed(r) /\ (lost \/ Interrupted(ppu, ppu')))
      /\ aligned' = (aligned \/ r = 2)
      /\ out' = out /\ fresh' = fresh
  BY DEF Store
<1> HIDE DEF s
<1>4. /\ Kept(s, ppu')
      /\ r # 0 => ppu'.PPUCTRL = s.PPUCTRL
      /\ IF r = 6 /\ s.ready
         THEN /\ ppu'.ppu_2007_first_read
              /\ IF s.addr_received_high_byte
                 THEN /\ ~ppu'.addr_received_high_byte
                      /\ ppu'.PPUADDR = s.ppu_addr_latch * 256 + d
                 ELSE /\ ppu'.addr_received_high_byte /\ ppu'.ppu_addr_latch = d
                      /\ ppu'.PPUADDR % VRAM = s.PPUADDR % VRAM
         ELSE /\ ppu'.PPUADDR % VRAM = s.PPUADDR % VRAM
              /\ ppu'.ppu_2007_first_read = s.ppu_2007_first_read
              /\ ppu'.addr_received_high_byte = s.addr_received_high_byte
              /\ ppu'.ppu_addr_latch = s.ppu_addr_latch
  BY <1>1, <1>2, <1>3, WriteStream
<1>5. Kept(ppu, ppu')
  BY <1>2, <1>4 DEF Kept
<1>6. Pointed(r) <=> r = 6 /\ s.ready /\ s.addr_received_high_byte
  BY <1>2 DEF Pointed
<1>7. CASE r = 2
  <2>1. /\ ppu'.PPUADDR % VRAM = ppu.PPUADDR % VRAM /\ ppu'.ppu_2007_first_read
        /\ ~ppu'.addr_received_high_byte /\ ppu'.PPUCTRL = ppu.PPUCTRL
    BY <1>2, <1>4, <1>7
  <2>2. ~Pointed(r)
    BY <1>7 DEF Pointed
  <2>3. aligned' /\ lost' = (lost \/ Interrupted(ppu, ppu'))
    BY <1>3, <1>7, <2>2, Zenon
  <2> QED
    BY <1>3, <1>5, <2>1, <2>3, LookStep
<1>8. CASE Pointed(r)
  <2>1. /\ ppu.addr_received_high_byte /\ ~ppu'.addr_received_high_byte
        /\ ppu'.PPUADDR = ppu.ppu_addr_latch * 256 + d /\ ppu'.ppu_2007_first_read
        /\ ppu'.PPUCTRL = ppu.PPUCTRL
    BY <1>2, <1>4, <1>6, <1>8
  <2>2. ~lost'
    BY <1>3, <1>8, Zenon
  <2>3. r # 2
    BY <1>8 DEF Pointed
  <2>4. aligned' = aligned
    BY <1>1, <1>3, <2>3, Zenon
  <2> QED
    BY <1>1, <1>3, <1>5, <2>1, <2>2, <2>4, PointStep
<1>9. CASE r = 6 /\ s.ready /\ ~s.addr_received_high_byte
  BY <1>1, <1>2, <1>3, <1>4, <1>5, <1>6, <1>9, HalfStep
<1>10. CASE r # 2 /\ ~ (r = 6 /\ s.ready)
  <2>1. PortHalf' = PortHalf
    BY <1>1, <1>2, <1>3, <1>4, <1>10 DEF PortHalf
  <2> QED
    BY <1>1, <1>2, <1>3, <1>4, <1>5, <1>6, <1>10, <2>1, SetStepStep
<1> QED
  BY <1>6, <1>7, <1>8, <1>9, <1>10

LEMMA SwitchStep ==
  ASSUME TypeOK, NEW page \in Pages, Switch(page)
  PROVE  PortStep
<1>1. ppu \in PpuState
  BY DEF TypeOK
<1>2. /\ ppu' = [ppu EXCEPT !.PPU_RAM = Copied(ppu, page)]
      /\ out' = out /\ lost' = lost /\ aligned' = aligned /\ fresh' = fresh
  BY DEF Switch
<1>3. /\ ppu'.PPU_RAM = Copied(ppu, page) /\ ppu'.mirroring = ppu.mirroring
      /\ ppu'.PPUADDR = ppu.PPUADDR /\ ppu'.PPUCTRL = ppu.PPUCTRL
      /\ ppu'.ppu_2007_first_read = ppu.ppu_2007_first_read
      /\ ppu'.addr_received_high_byte = ppu.addr_received_high_byte
      /\ ppu'.ppu_addr_latch = ppu.ppu_addr_latch
  BY <1>1, <1>2 DEF PpuState
<1>4. /\ AddressIncrement(ppu') = AddressIncrement(ppu)
      /\ Position(ppu') = Position(ppu)
  BY <1>3 DEF AddressIncrement, Position
<1>5. /\ PortV' = PortV /\ PortLast' = PortLast /\ PortHalf' = PortHalf
      /\ AddressIncrement(ppu)' = AddressIncrement(ppu)
  BY <1>2, <1>3, <1>4 DEF PortV, PortLast, PortHalf
<1> DEFINE K == KnownOf(ppu, fresh)
<1>6. KnownOf(ppu', fresh') = K /\ K \subseteq Cells
  BY <1>2, <1>3 DEF KnownOf, PortCells
<1>7. PortCell' = [c \in K |-> Copied(ppu, page)[c]] /\ PortCell = [c \in K |-> ppu.PPU_RAM[c]]
  BY <1>3, <1>6, KnownIs DEF PortCell
<1> HIDE DEF K
<1>8. PortCell' = [c \in DOMAIN PortCell |-> IF c \in DOMAIN page THEN page[c] ELSE PortCell[c]]
  BY <1>6, <1>7 DEF Copied
<1>9. Port!Switch(page)
  BY <1>2, <1>3, <1>5, <1>8, PortSwitch, PortUnder
<1> QED
  BY <1>9, PortAction

LEMMA InsertStep ==
  ASSUME TypeOK, NEW m \in {0, 1}, NEW page \in Pages \cup {NoPage}, Insert(m, page)
  PROVE  PortStep
<1>1. ppu \in PpuState
  BY DEF TypeOK
<1>2. /\ ppu' = [Reset(ppu, m) EXCEPT !.PPU_RAM = Copied(ppu, page)]
      /\ lost' = FALSE /\ aligned' = FALSE /\ out' = out
      /\ fresh' = IF m = ppu.mirroring THEN fresh ELSE {}
  BY DEF Insert
<1>3. /\ ppu'.PPUADDR = 0 /\ ppu'.ppu_2007_first_read = TRUE /\ ppu'.PPUCTRL = 0
      /\ ppu'.PPU_RAM = Copied(ppu, page) /\ ppu'.mirroring = m
  BY <1>1, <1>2 DEF Reset, PpuState
<1>4. 0 % VRAM = 0 /\ 0 + 0 = 0
  BY DEF VRAM
<1>5. PortV' = 0 /\ PortLast' = -1 /\ PortHalf' = -1 /\ AddressIncrement(ppu)' = 1
  BY <1>2, <1>3, <1>4 DEF PortV, PortLast, PortHalf, Position, AddressIncrement, Bit
<1> DEFINE K == KnownOf(ppu, fresh)
           D == {c \in K : c >= 8192 /\ c < 12288 => m = ppu.mirroring}
<1>6. \A c \in Cells : c \in Nametables <=> c >= 8192 /\ c < 12288
  BY DEF Nametables, NAMETABLES, MIRRORS
<1>7. KnownOf(ppu', fresh') = D /\ K \subseteq Cells
  <2>1. K \subseteq Cells
    BY DEF KnownOf, PortCells
  <2>2. CASE m = ppu.mirroring
    BY <1>2, <1>3, <2>1, <2>2 DEF KnownOf
  <2>3. CASE m # ppu.mirroring
    BY <1>2, <1>3, <1>6, <2>1, <2>3 DEF KnownOf, PortCells
  <2> QED
    BY <2>1, <2>2, <2>3
<1>8. PortCell' = [c \in D |-> Copied(ppu, page)[c]] /\ PortCell = [c \in K |-> ppu.PPU_RAM[c]]
  BY <1>3, <1>7, KnownIs DEF PortCell
<1>9. D = {c \in DOMAIN PortCell : c >= 8192 /\ c < 12288 => m = ppu.mirroring}
  BY <1>8
<1>10. D \subseteq K
  OBVIOUS
<1> HIDE DEF K, D
<1>11. Port!Under(page) = [c \in K |-> IF c \in DOMAIN page THEN page[c] ELSE ppu.PPU_RAM[c]]
  BY <1>8, PortUnder
<1>12. \A c \in D : Copied(ppu, page)[c] = Port!Under(page)[c]
  BY <1>7, <1>10, <1>11 DEF Copied
<1>13. PortCell' = [c \in D |-> Port!Under(page)[c]]
  BY <1>8, <1>12
<1>14. Port!Insert(m, page)
  BY <1>2, <1>3, <1>5, <1>9, <1>13, PortInsert
<1> QED
  BY <1>14, PortAction

\* The registers are the port that games are written for.  If the game leaves
\* the pattern tables alone: once it has looked at the status, two stores to
\* PPUADDR set the position, every load and store through PPUDATA goes one step
\* further, a load returns the cell before, a store changes the one cell, under
\* all its addresses.  That a ROM finds its predecessor's toggles, memory and,
\* with another mirroring, nametables breaks none of this.
THEOREM ImplementsVramPort ==
  ASSUME \A a \in StoredTo : a >= NAMETABLES
  PROVE  Spec => PortSpec
<1>1. Init /\ TypeOK => Port!Init
  BY PortInit
<1>2. PortInv /\ PortInv' /\ [Next]_vars => [Port!Next]_(Port!vars)
  <2> SUFFICES ASSUME PortInv, PortInv', [Next]_vars PROVE PortStep
    BY DEF PortStep
  <2>1. TypeOK /\ TypeOK' /\ ppu \in PpuState
    BY DEF PortInv, TypeOK
  <2>2. ASSUME NEW r \in LoadRegs, Load(r) PROVE PortStep
    <3>1. r \in 0..7 /\ r # 7 /\ ppu' = IoRead(ppu, r)
      BY <2>2, PpuPortAssumption DEF Load
    <3>2. /\ lost' = (lost \/ Interrupted(ppu, ppu')) /\ out' = out
          /\ aligned' = (aligned \/ r = 2) /\ fresh' = fresh
      BY <2>2 DEF Load
    <3>3. CASE r = 2
      BY <2>1, <3>1, <3>2, <3>3, ReadStream, LookStep
    <3>4. CASE r # 2
      <4>1. /\ ppu'.PPUADDR % VRAM = ppu.PPUADDR % VRAM /\ Kept(ppu, ppu')
            /\ ppu'.ppu_2007_first_read = ppu.ppu_2007_first_read
            /\ ppu'.addr_received_high_byte = ppu.addr_received_high_byte
            /\ ppu'.ppu_addr_latch = ppu.ppu_addr_latch
        BY <2>1, <3>1, <3>4, ReadStream
      <4>2. aligned' = aligned
        BY <2>1, <3>2, <3>4 DEF TypeOK
      <4>3. PortHalf' = PortHalf
        BY <4>1, <4>2 DEF PortHalf
      <4> QED
        BY <2>1, <3>2, <4>1, <4>3, SetStepStep
    <3> QED
      BY <3>3, <3>4
  <2>3. CASE LoadData
    BY <2>1, <2>3, LoadDataStep
  <2>4. ASSUME NEW r \in StoreRegs, NEW d \in Values[r], Store(r, d) PROVE PortStep
    BY <2>1, <2>4, StoreStep
  <2>5. ASSUME 7 \in StoreRegs, NEW d \in Values[7], StoreData(d) PROVE PortStep
    <3>1. d \in Bytes
      BY <2>5, PpuPortAssumption
    <3> QED
      BY <2>1, <2>5, <3>1, StoreDataStep
  <2>6. CASE BecomeReady
    <3>1. /\ ppu'.PPUADDR = ppu.PPUADDR /\ Kept(ppu, ppu') /\ ppu'.PPUCTRL = ppu.PPUCTRL
          /\ ppu'.ppu_2007_first_read = ppu.ppu_2007_first_read
          /\ ppu'.addr_received_high_byte = ppu.addr_received_high_byte
          /\ ppu'.ppu_addr_latch = ppu.ppu_addr_latch
      BY <2>1, <2>6 DEF BecomeReady, PpuState, Kept
    <3>2. AddressIncrement(ppu') = AddressIncrement(ppu) /\ Position(ppu') = Position(ppu)
      BY <3>1 DEF AddressIncrement, Position
    <3>3. /\ lost' = (lost \/ Interrupted(ppu, ppu')) /\ out' = out /\ fresh' = fresh
          /\ aligned' = aligned
      BY <2>1, <2>6, <3>2 DEF BecomeReady, Interrupted, TypeOK
    <3>4. PortHalf' = PortHalf
      BY <3>1, <3>3 DEF PortHalf
    <3> QED
      BY <2>1, <3>1, <3>3, <3>4, SetStepStep
  <2>7. ASSUME NEW page \in Pages, Switch(page) PROVE PortStep
    BY <2>1, <2>7, SwitchStep
  <2>8. ASSUME NEW m \in {0, 1}, NEW page \in Pages \cup {NoPage}, Insert(m, page)
        PROVE  PortStep
    BY <2>1, <2>8, InsertStep
  <2>9. CASE UNCHANGED vars
    <3>1. Known' = Known
      BY <2>9 DEF vars, Known
    <3> QED
      BY <2>9, <3>1 DEF vars, PortStep, Port!vars
  <2> QED
    BY <2>2, <2>3, <2>4, <2>5, <2>6, <2>7, <2>8, <2>9 DEF Next
<1>3. Spec => []PortInv
  <2>1. NametablesCoherent <=> Coherent(ppu.PPU_RAM, ppu.mirroring, fresh)
    BY DEF NametablesCoherent, Coherent, Twin
  <2>2. Spec => []NametablesCoherent
    BY NametablesStayCoherent
  <2>3. TypeOK /\ NametablesCoherent => PortInv
    BY <2>1 DEF PortInv
  <2> QED
    BY <2>2, <2>3, TypeCorrect, PTL
<1>4. PortInv => TypeOK
  BY DEF PortInv
<1> QED
  BY <1>1, <1>2, <1>3, <1>4, PTL DEF Spec, PortSpec, Port!Spec
=============================================================================

------------------------------ MODULE PpuPort ------------------------------
(***************************************************************************)
(* A game talking to the picture unit's registers, $2000 to $2007: any     *)
(* sequence of loads and stores, each one instruction, with the unit       *)
(* becoming ready (ppu_cycle), the cartridge showing another page of       *)
(* patterns (mmc_write) and other ROMs, with whatever mirroring, being     *)
(* loaded (fce_load_rom, fce_init) in between.                             *)
(***************************************************************************)
EXTENDS PpuRegs

CONSTANTS
  LoadRegs,                       \* the registers this game loads from ...
  StoreRegs,                      \* ... and stores to,
  Values,                         \* and which bytes: [StoreRegs -> SUBSET Bytes]
  StoredTo,                       \* the addresses it stores to through PPUDATA
  Pages,                          \* the pages of patterns of all ROMs
  MaxRun                          \* bound: accesses of PPUDATA between two addresses

Patterns == {c \in Cells : c < NAMETABLES}
Nametables == {c \in Cells : c >= NAMETABLES /\ c < MIRRORS}

ASSUME PpuPortAssumption ==
  /\ LoadRegs \subseteq 0..7
  /\ StoreRegs \subseteq 0..7
  /\ Values \in [StoreRegs -> SUBSET Bytes]
  /\ Pages \subseteq [Patterns -> Byte]
  /\ MaxRun \in Nat
  \* a cell is watched together with its twins
  /\ \A c \in Nametables : \A m \in {0, 1} : Flip(c, MirroringXor(m)) \in Cells

VARIABLES
  ppu,
  out,                            \* history: the byte last loaded from PPUDATA
  lost,                           \* history: a stream of accesses was interrupted
  aligned,                        \* history: PPUSTATUS was looked at since the ROM was loaded
  fresh,                          \* history: nametable cells whose copies were last stored
                                  \* to under the present mirroring
  run                             \* bound: see MaxRun

vars == <<ppu, out, lost, aligned, fresh, run>>

\* The address that the next access of PPUDATA uses.
Position(s) ==
  (s.PPUADDR + IF s.ppu_2007_first_read THEN 0 ELSE AddressIncrement(s)) % VRAM

Init ==
  /\ \E m \in {0, 1} : ppu = Reset(Zeroed, m)
  /\ out = Unknown
  /\ lost = FALSE
  /\ aligned = FALSE
  /\ fresh = Nametables
  /\ run = 0

\* Has the step from s to t taken the position elsewhere than where the
\* stream had got to?
Interrupted(s, t) == ~s.ppu_2007_first_read /\ Position(t) # Position(s)

Load(r) ==
  /\ r # 7
  /\ ppu' = IoRead(ppu, r)
  /\ lost' = (lost \/ Interrupted(ppu, ppu'))
  /\ aligned' = (aligned \/ r = 2)
  /\ UNCHANGED <<out, fresh, run>>

LoadData ==
  /\ run < MaxRun
  /\ ppu' = IoRead(ppu, 7)
  /\ out' = IoData(ppu)
  /\ run' = run + 1
  /\ UNCHANGED <<lost, aligned, fresh>>

\* The second byte of an address arrives.
Pointed(r) == r = 6 /\ ppu.ready /\ ppu.addr_received_high_byte

Store(r, d) ==
  /\ r # 7
  /\ ppu' = IoWrite(IoRead(ppu, r), r, d)
  /\ lost' = (~Pointed(r) /\ (lost \/ Interrupted(ppu, ppu')))
  /\ aligned' = (aligned \/ r = 2)
  /\ run' = IF Pointed(r) THEN 0 ELSE run
  /\ UNCHANGED <<out, fresh>>

StoreData(d) ==
  /\ run < MaxRun
  /\ Position(ppu) \in StoredTo
  /\ ppu' = IoWrite(IoRead(ppu, 7), 7, d)
  /\ fresh' = fresh \cup
       ({Position(ppu), Flip(Position(ppu), MirroringXor(ppu.mirroring))} \cap Nametables)
  /\ run' = run + 1
  /\ UNCHANGED <<out, lost, aligned>>

\* ppu_cycle, once the processor has been running long enough.
BecomeReady ==
  /\ ~ppu.ready
  /\ ppu' = [ppu EXCEPT !.ready = TRUE]
  /\ UNCHANGED <<out, lost, aligned, fresh, run>>

\* mmc_write, when the game stores to its ROM: another page of patterns.
Switch(page) ==
  /\ ppu' = [ppu EXCEPT !.PPU_RAM = Copied(ppu, page)]
  /\ UNCHANGED <<out, lost, aligned, fresh, run>>

\* fce_load_rom, which copies the ROM's first page of patterns if it has any,
\* and fce_init.
Insert(m, page) ==
  /\ ppu' = [Reset(ppu, m) EXCEPT !.PPU_RAM = Copied(ppu, page)]
  /\ fresh' = IF m = ppu.mirroring THEN fresh ELSE {}
  /\ aligned' = FALSE
  /\ lost' = FALSE
  /\ run' = 0
  /\ UNCHANGED out

Next ==
  \/ \E r \in LoadRegs : Load(r)
  \/ 7 \in LoadRegs /\ LoadData
  \/ \E r \in StoreRegs : \E d \in Values[r] : Store(r, d)
  \/ 7 \in StoreRegs /\ \E d \in Values[7] : StoreData(d)
  \/ BecomeReady
  \/ \E page \in Pages : Switch(page)
  \/ \E m \in {0, 1} : \E page \in Pages \cup {NoPage} : Insert(m, page)

Spec == Init /\ [][Next]_vars

-----------------------------------------------------------------------------
(* Properties.                                                             *)

TypeOK ==
  /\ ppu \in PpuState
  /\ out \in Byte \cup {Unknown}
  /\ lost \in BOOLEAN
  /\ aligned \in BOOLEAN
  /\ fresh \subseteq Nametables
  /\ run \in 0..MaxRun

\* The two copies of a nametable cell are equal from the first time that it is
\* stored to under the mirroring in force, whatever other ROMs had made of the
\* memory before.  (Memory is not cleared when a ROM is loaded: what an earlier
\* game left under another mirroring stays, and need not be equal.)
NametablesCoherent ==
  \A c \in fresh : ppu.PPU_RAM[c] = ppu.PPU_RAM[Flip(c, MirroringXor(ppu.mirroring))]

\* The cells whose contents a game can know, by the one of their addresses that
\* stands for all.
Known ==
  {c \in Cells : /\ c < MIRRORS \/ c >= PALETTE
                 /\ c \in Nametables =>
                      c \in fresh /\ ~Bit(c, MirroringXor(ppu.mirroring))
                 /\ c >= PALETTE => RealAddress(c) = c}

\* The registers implement the port that games are written for.  No promise is
\* broken when half an address, a mirroring or a memory is left behind by one
\* ROM for the next, because ppu_init clears none of them.
Port == INSTANCE VramPort WITH
  v <- IF lost THEN -1 ELSE Position(ppu),
  last <- IF lost \/ ppu.ppu_2007_first_read THEN -1 ELSE ppu.PPUADDR % VRAM,
  half <- IF ~aligned THEN -1
          ELSE IF ppu.addr_received_high_byte THEN ppu.ppu_addr_latch ELSE -2,
  step <- AddressIncrement(ppu),
  mirroring <- ppu.mirroring,
  cell <- [c \in Known |-> ppu.PPU_RAM[c]]

PortSpec == Port!Spec

\* A byte stored in a pattern table, where each cell has an address of its own,
\* changes no other cell.  (ppu_io_write has a branch for this case, which its
\* condition never lets it take.)
PatternStoresAlone ==
  [][\A d \in Values[7] : StoreData(d) =>
       \A c \in Patterns : ppu'.PPU_RAM[c] # ppu.PPU_RAM[c] => c = Position(ppu)]_vars
=============================================================================

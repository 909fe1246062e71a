---------------------------- MODULE FrameProofs ----------------------------
(***************************************************************************)
(* Proofs about Frame for any number of scanlines in a picture and in a    *)
(* call of fce_run that FrameAssumption allows, any slice, any costs of    *)
(* instructions and any game.                                              *)
(*                                                                         *)
(* The argument for the pictures: in a call of fce_run, scanline and the   *)
(* number of lines done move on together until a picture ends.  A second   *)
(* one would need LAST_LINE + 1 more lines, and the call has no more than  *)
(* that left.  A call that ends no picture leaves scanline at RUN_LINES - 1*)
(* or more, and RUN_LINES lines later the picture would have ended twice.  *)
(***************************************************************************)
EXTENDS Frame, PpuRegsProofs

\* Lines that the current call of fce_run has given to the picture unit.
LinesDone == RUN_LINES - scanlines + (IF turn = "cpu" THEN 1 ELSE 0)

RunInv ==
  /\ updates \in {0, 1} /\ dark \in {0, 1}
  /\ turn = "idle" => scanlines = 0
  /\ turn = "idle" /\ dark = 1 => scanline >= RUN_LINES - 1
  /\ turn # "idle" => scanlines >= 1
  /\ turn = "cpu" => cycles >= 1
  /\ turn # "idle" /\ updates = 1 => scanline + 2 <= LinesDone
  /\ turn # "idle" /\ updates = 0 => scanline >= LinesDone - 1
  /\ turn # "idle" /\ updates = 0 /\ dark = 1 => scanline >= RUN_LINES + LinesDone - 1

HitInv ==
  /\ Sprite0Recent
  /\ ppu.sprite0 /\ scanline >= VBLANK_LINE => hit_line >= VBLANK_LINE + 1

IInv == TypeOK /\ RunInv /\ VblankInBlanking /\ HitInv

-----------------------------------------------------------------------------
\* Init satisfies the invariant.
LEMMA InitIInv == Init => IInv
<1> SUFFICES ASSUME Init PROVE IInv
  OBVIOUS
<1>1. ppu \in PpuState
  BY ZeroedType, ResetType DEF Init
<1>2. ppu.sprite0 = FALSE
  BY DEF Init, Reset, Zeroed
<1>3. TypeOK
  <2>1. /\ 0 \in -1 .. LAST_LINE - 1 /\ 0 \in 0 .. CLOCK_RANGE - 1 /\ 0 \in 0..RUN_LINES
        /\ 0 \in 1 - MaxCost .. SLICE /\ 0 \in 0..LAST_LINE /\ 0 \in 0 .. WARMUP + 1
    BY FrameAssumption
  <2> QED
    BY <1>1, <2>1 DEF Init, TypeOK
<1>4. RunInv
  BY FrameAssumption DEF Init, RunInv, LinesDone
<1>5. VblankInBlanking
  BY DEF Init, VblankInBlanking
<1>6. HitInv
  BY <1>2 DEF HitInv, Sprite0Recent
<1> QED
  BY <1>3, <1>4, <1>5, <1>6 DEF IInv

\* Whatever the game does in an instruction, it takes its cycles, raises no
\* flag of PPUSTATUS, and leaves the lines alone.
LEMMA InstructionStep ==
  ASSUME TypeOK, NEW c \in Costs, Instruction(c)
  PROVE  /\ Spend(c)
         /\ ppu' \in PpuState
         /\ ppu'.vblank => ppu.vblank
         /\ ppu'.sprite0 => ppu.sprite0
         /\ game' \in {"free", "look", "branch"}
<1>1. ppu \in PpuState /\ game \in {"free", "look", "branch"}
  BY DEF TypeOK
<1>2. Controls \subseteq Byte /\ Masks \subseteq Byte
  BY FrameAssumption
<1>3. \A r \in 0..7 : /\ IoRead(ppu, r) \in PpuState
                      /\ IoRead(ppu, r).vblank => ppu.vblank
                      /\ IoRead(ppu, r).sprite0 => ppu.sprite0
  BY <1>1, IoReadType, IoReadFlags
<1>4. ASSUME NEW r \in {0, 1}, NEW d \in Byte, StoreRegister(r, d, c)
      PROVE  /\ Spend(c) /\ ppu' \in PpuState
             /\ ppu'.vblank => ppu.vblank
             /\ ppu'.sprite0 => ppu.sprite0
             /\ game' = game
  <2>1. r \in 0..7
    OBVIOUS
  <2>2. IoWrite(IoRead(ppu, r), r, d) \in PpuState
    BY <1>3, <2>1, IoWriteType
  <2>3. /\ IoWrite(IoRead(ppu, r), r, d).vblank = IoRead(ppu, r).vblank
        /\ IoWrite(IoRead(ppu, r), r, d).sprite0 = IoRead(ppu, r).sprite0
    BY <1>3, <2>1, IoWriteFlags
  <2> QED
    BY <1>3, <1>4, <2>1, <2>2, <2>3 DEF StoreRegister
<1>5. CASE Other(c)
  BY <1>1, <1>5 DEF Other
<1>6. CASE LoadStatus(c)
  BY <1>1, <1>3, <1>6 DEF LoadStatus
<1>7. CASE StartWaiting(c)
  BY <1>1, <1>7 DEF StartWaiting
<1>8. CASE Look(c)
  BY <1>1, <1>3, <1>8 DEF Look
<1>9. CASE Branch(c)
  BY <1>1, <1>9 DEF Branch
<1> QED
  BY <1>1, <1>2, <1>4, <1>5, <1>6, <1>7, <1>8, <1>9 DEF Instruction

\* The three lines that ppu_cycle distinguishes.
LEMMA LineStep ==
  ASSUME TypeOK, NEW hit \in BOOLEAN, PpuCycle(hit)
  PROVE  /\ ppu' \in PpuState
         /\ scanline' \in -1 .. LAST_LINE - 1
         /\ ppu_sprite_hit_occured' \in BOOLEAN
         /\ booting' \in BOOLEAN
         /\ \/ /\ scanline' = scanline + 1 /\ scanline + 1 # VBLANK_LINE
               /\ updates' = updates /\ booting' = booting
               /\ ppu'.vblank = ppu.vblank
               /\ ppu'.sprite0 = (ppu.sprite0 \/ hit)
               /\ ppu_sprite_hit_occured' = (ppu_sprite_hit_occured \/ hit)
            \/ /\ scanline' = scanline + 1 /\ scanline + 1 = VBLANK_LINE
               /\ updates' = updates
               /\ ppu'.sprite0 = FALSE
            \/ /\ scanline + 1 = LAST_LINE /\ scanline' = -1
               /\ updates' = updates + 1
               /\ ppu'.vblank = FALSE
               /\ ppu'.sprite0 = (ppu.sprite0 \/ hit)
<1>1. /\ ppu \in PpuState /\ scanline \in -1 .. LAST_LINE - 1
      /\ ppu_sprite_hit_occured \in BOOLEAN /\ booting \in BOOLEAN
  BY DEF TypeOK
<1>2. VBLANK_LINE \in Nat /\ LAST_LINE \in Nat /\ 0 < VBLANK_LINE /\ VBLANK_LINE < LAST_LINE
  BY FrameAssumption
<1>3. BecomesReady \in BOOLEAN
  BY <1>1 DEF BecomesReady, PpuState
<1>a. PICK after \in BOOLEAN, before \in BOOLEAN :
        after = (ppu.sprite0 \/ hit) /\ before = ppu.vblank
  BY <1>1 DEF PpuState
<1>b. /\ scanline + 1 \in Int /\ scanline + 1 >= 0 /\ scanline + 1 <= LAST_LINE
      /\ -1 \in -1 .. LAST_LINE - 1 /\ VBLANK_LINE \in -1 .. LAST_LINE - 1
      /\ scanline + 1 # LAST_LINE => scanline + 1 \in -1 .. LAST_LINE - 1
  BY <1>1, <1>2
<1>4. CASE scanline + 1 = VBLANK_LINE /\ BlankLine(hit)
  <2>1. ppu' = [ppu EXCEPT !.ready = BecomesReady, !.sprite0 = FALSE, !.vblank = TRUE]
    BY <1>4 DEF BlankLine
  <2>2. ppu' \in PpuState
    BY <1>1, <1>3, <2>1 DEF PpuState
  <2>3. ppu'.sprite0 = FALSE
    BY <1>1, <2>1 DEF PpuState
  <2> QED
    BY <1>1, <1>b, <1>4, <2>2, <2>3 DEF BlankLine
<1>5. CASE Ends(scanline + 1) /\ LastLine(hit)
  <2>1. ppu' = [ppu EXCEPT !.ready = BecomesReady, !.sprite0 = after, !.vblank = FALSE]
    BY <1>5, <1>a DEF LastLine
  <2>2. ppu' \in PpuState
    BY <1>1, <1>3, <2>1 DEF PpuState
  <2>3. ppu'.sprite0 = after /\ ppu'.vblank = FALSE
    BY <1>1, <2>1 DEF PpuState
  <2> QED
    BY <1>1, <1>a, <1>b, <1>5, <2>2, <2>3 DEF LastLine, Ends, UpdateScreen
<1>6. CASE /\ scanline + 1 # VBLANK_LINE /\ ~Ends(scanline + 1)
           /\ NormalLine(scanline + 1, hit)
  <2>1. ppu' = [ppu EXCEPT !.ready = BecomesReady, !.sprite0 = after, !.vblank = before]
    BY <1>1, <1>6, <1>a DEF NormalLine, PpuState
  <2>2. ppu' \in PpuState
    BY <1>1, <1>3, <2>1 DEF PpuState
  <2>3. ppu'.sprite0 = after /\ ppu'.vblank = before
    BY <1>1, <2>1 DEF PpuState
  <2> QED
    BY <1>1, <1>a, <1>b, <1>6, <2>2, <2>3 DEF NormalLine, Ends
<1> QED
  BY <1>4, <1>5, <1>6 DEF PpuCycle

-----------------------------------------------------------------------------
LEMMA StartRunIInv == IInv /\ StartRun => IInv'
<1> SUFFICES ASSUME IInv, StartRun PROVE IInv'
  OBVIOUS
<1>1. RUN_LINES \in Nat /\ 0 < RUN_LINES
  BY FrameAssumption
<1>2. TypeOK'
  BY <1>1 DEF IInv, StartRun, TypeOK, ppuVars, cpuVars
<1>3. RunInv'
  BY <1>1 DEF IInv, StartRun, TypeOK, RunInv, LinesDone, ppuVars, cpuVars
<1>4. VblankInBlanking' /\ HitInv'
  BY DEF IInv, StartRun, VblankInBlanking, HitInv, Sprite0Recent, ppuVars
<1> QED
  BY <1>2, <1>3, <1>4 DEF IInv

LEMMA InsertIInv == IInv /\ Insert => IInv'
<1> SUFFICES ASSUME IInv, Insert PROVE IInv'
  OBVIOUS
<1>1. ppu \in PpuState
  BY DEF IInv, TypeOK
<1>2. ppu' \in PpuState
  <2>1. ppu.mirroring \in {0, 1}
    BY <1>1 DEF PpuState
  <2> QED
    BY <1>1, <2>1, ResetType DEF Insert
<1>3. ppu'.sprite0 = FALSE
  BY <1>1 DEF Insert, Reset, PpuState
<1>4. TypeOK'
  BY <1>2 DEF IInv, Insert, TypeOK, runVars
<1>5. RunInv'
  BY DEF IInv, Insert, RunInv, LinesDone, runVars
<1>6. VblankInBlanking' /\ HitInv'
  BY <1>3 DEF Insert, VblankInBlanking, HitInv, Sprite0Recent
<1> QED
  BY <1>4, <1>5, <1>6 DEF IInv

LEMMA PpuCycleIInv ==
  ASSUME IInv, NEW hit \in BOOLEAN, PpuCycle(hit)
  PROVE  IInv'
<1>1. TypeOK /\ RunInv /\ VblankInBlanking /\ HitInv
  BY DEF IInv
<1> DEFINE
  normal == /\ scanline' = scanline + 1 /\ scanline + 1 # VBLANK_LINE
            /\ updates' = updates /\ booting' = booting
            /\ ppu'.vblank = ppu.vblank
            /\ ppu'.sprite0 = (ppu.sprite0 \/ hit)
            /\ ppu_sprite_hit_occured' = (ppu_sprite_hit_occured \/ hit)
  blank == /\ scanline' = scanline + 1 /\ scanline + 1 = VBLANK_LINE
           /\ updates' = updates
           /\ ppu'.sprite0 = FALSE
  last == /\ scanline + 1 = LAST_LINE /\ scanline' = -1
          /\ updates' = updates + 1
          /\ ppu'.vblank = FALSE
          /\ ppu'.sprite0 = (ppu.sprite0 \/ hit)
<1>2. normal \/ blank \/ last
  BY <1>1, LineStep
<1>3. /\ ppu' \in PpuState /\ scanline' \in -1 .. LAST_LINE - 1
      /\ ppu_sprite_hit_occured' \in BOOLEAN /\ booting' \in BOOLEAN
  BY <1>1, LineStep
<1>4. /\ turn = "ppu" /\ turn' = "cpu" /\ cycles' = SLICE
      /\ UNCHANGED <<cpu_cycles, game, executed, scanlines, dark>>
      /\ hit_line' = IF hit THEN scanline + 1 ELSE hit_line
  BY DEF PpuCycle
<1>5. /\ scanline \in -1 .. LAST_LINE - 1 /\ updates \in Nat /\ scanlines \in 0..RUN_LINES
      /\ hit_line \in 0..LAST_LINE
  BY <1>1 DEF TypeOK
<1>6. /\ VBLANK_LINE \in Nat /\ LAST_LINE \in Nat /\ RUN_LINES \in Nat
      /\ 0 < VBLANK_LINE /\ VBLANK_LINE < LAST_LINE /\ RUN_LINES <= LAST_LINE + 1
      /\ 0 < RUN_LINES /\ LAST_LINE < 2 * RUN_LINES
      /\ SLICE \in Nat \ {0} /\ MaxCost \in Nat
  BY FrameAssumption
<1>7. TypeOK'
  <2>1. updates' \in Nat
    BY <1>2, <1>5
  <2>2. hit_line' \in 0..LAST_LINE
    BY <1>4, <1>5, <1>6
  <2>3. cycles' \in 1 - MaxCost .. SLICE
    BY <1>4, <1>6
  <2> QED
    BY <1>1, <1>3, <1>4, <2>1, <2>2, <2>3 DEF TypeOK
<1>8. RunInv'
  <2>1. LinesDone' = LinesDone + 1
    BY <1>4, <1>5, <1>6 DEF LinesDone
  <2>2. LinesDone = RUN_LINES - scanlines /\ scanlines >= 1
    BY <1>1, <1>4, <1>5, <1>6 DEF LinesDone, RunInv
  <2>3. /\ updates \in {0, 1} /\ dark \in {0, 1}
        /\ updates = 1 => scanline + 2 <= LinesDone
        /\ updates = 0 => scanline >= LinesDone - 1
        /\ updates = 0 /\ dark = 1 => scanline >= RUN_LINES + LinesDone - 1
    BY <1>1, <1>4 DEF RunInv
  <2> DEFINE L == LinesDone
  <2>4. L \in Int /\ L >= 0 /\ L <= RUN_LINES - 1
    BY <1>5, <1>6, <2>2
  <2> HIDE DEF L
  <2>5. CASE normal \/ blank
    <3>1. /\ updates' = 1 => scanline' + 2 <= L + 1
          /\ updates' = 0 => scanline' >= L + 1 - 1
          /\ updates' = 0 /\ dark = 1 => scanline' >= RUN_LINES + L + 1 - 1
      BY <1>5, <1>6, <2>3, <2>4, <2>5 DEF L
    <3> QED
      BY <1>4, <1>6, <2>1, <2>2, <2>3, <2>5, <3>1 DEF RunInv, L
  <2>6. CASE last
    <3>1. updates = 0
      BY <1>5, <1>6, <2>3, <2>4, <2>6 DEF L
    <3>2. updates' = 1 /\ scanline' + 2 <= L + 1
      BY <2>4, <2>6, <3>1
    <3> QED
      BY <1>4, <1>6, <2>1, <2>2, <2>3, <3>2 DEF RunInv, L
  <2> QED
    BY <1>2, <2>5, <2>6
<1>9. VblankInBlanking'
  <2>1. CASE normal
    BY <1>1, <1>5, <1>6, <2>1 DEF VblankInBlanking
  <2>2. CASE blank
    BY <1>6, <2>2 DEF VblankInBlanking
  <2>3. CASE last
    BY <2>3 DEF VblankInBlanking
  <2> QED
    BY <1>2, <2>1, <2>2, <2>3
<1>10. HitInv'
  <2>1. ppu.sprite0 /\ scanline >= VBLANK_LINE => hit_line >= VBLANK_LINE + 1
    BY <1>1 DEF HitInv
  <2>2. ppu.sprite0 => ppu_sprite_hit_occured \/ hit_line >= VBLANK_LINE + 1
    BY <1>1 DEF HitInv, Sprite0Recent
  <2>3. hit_line >= VBLANK_LINE + 1 /\ scanline >= VBLANK_LINE => hit_line' >= VBLANK_LINE + 1
    BY <1>4, <1>5, <1>6
  <2>4. CASE normal
    <3>1. scanline' >= VBLANK_LINE => scanline >= VBLANK_LINE
      BY <1>5, <1>6, <2>4
    <3>2. hit /\ scanline >= VBLANK_LINE => hit_line' >= VBLANK_LINE + 1
      BY <1>4, <1>5, <1>6
    <3>3. ~hit => hit_line' = hit_line
      BY <1>4
    <3> QED
      BY <2>1, <2>2, <2>3, <2>4, <3>1, <3>2, <3>3 DEF HitInv, Sprite0Recent
  <2>5. CASE blank
    BY <2>5 DEF HitInv, Sprite0Recent
  <2>6. CASE last
    <3>1. scanline >= VBLANK_LINE
      BY <1>5, <1>6, <2>6
    <3>2. ppu'.sprite0 => hit_line' >= VBLANK_LINE + 1
      BY <1>4, <1>5, <1>6, <2>1, <2>6, <3>1
    <3> QED
      BY <3>2 DEF HitInv, Sprite0Recent
  <2> QED
    BY <1>2, <2>4, <2>5, <2>6
<1> QED
  BY <1>7, <1>8, <1>9, <1>10 DEF IInv

LEMMA InstructionIInv ==
  ASSUME IInv, NEW c \in Costs, Instruction(c)
  PROVE  IInv'
<1>1. TypeOK /\ RunInv /\ VblankInBlanking /\ HitInv
  BY DEF IInv
<1>2. /\ Spend(c) /\ ppu' \in PpuState
      /\ ppu'.vblank => ppu.vblank
      /\ ppu'.sprite0 => ppu.sprite0
      /\ game' \in {"free", "look", "branch"}
  BY <1>1, InstructionStep
<1>3. /\ turn = "cpu" /\ cycles' = cycles - c
      /\ UNCHANGED <<scanline, ppu_sprite_hit_occured, booting, hit_line>>
      /\ \/ cycles - c > 0 /\ UNCHANGED <<turn, scanlines, updates, dark>>
         \/ ~(cycles - c > 0) /\ EndSlice
  BY <1>2 DEF Spend, runVars
<1>4. /\ c \in Nat /\ 1 <= c /\ c <= MaxCost /\ MaxCost \in Nat /\ SLICE \in Nat
      /\ RUN_LINES \in Nat /\ LAST_LINE \in Nat /\ LAST_LINE < 2 * RUN_LINES
      /\ WARMUP \in Nat /\ CLOCK_RANGE \in Nat /\ WARMUP < CLOCK_RANGE
  BY FrameAssumption
<1>5. /\ cycles \in 1 - MaxCost .. SLICE /\ cycles >= 1 /\ scanlines \in 1..RUN_LINES
      /\ updates \in {0, 1} /\ dark \in {0, 1} /\ scanline \in -1 .. LAST_LINE - 1
      /\ executed \in 0 .. WARMUP + 1 /\ cpu_cycles \in 0 .. CLOCK_RANGE - 1
      /\ updates = 1 => scanline + 2 <= LinesDone
      /\ updates = 0 => scanline >= LinesDone - 1
      /\ updates = 0 /\ dark = 1 => scanline >= RUN_LINES + LinesDone - 1
  BY <1>1, <1>3, <1>4 DEF TypeOK, RunInv
<1>6. EndSlice =>
        \/ /\ scanlines > 1 /\ scanlines' = scanlines - 1 /\ turn' = "ppu"
           /\ dark' = dark /\ updates' = updates
        \/ /\ scanlines = 1 /\ scanlines' = 0 /\ turn' = "idle" /\ updates' = updates
           /\ dark' = IF updates = 0 THEN dark + 1 ELSE 0
  BY <1>5 DEF EndSlice
<1>7. LinesDone = RUN_LINES - scanlines + 1
  BY <1>3, <1>4, <1>5 DEF LinesDone
<1>8. RunInv'
  <2>1. CASE cycles - c > 0
    <3>1. LinesDone' = LinesDone /\ cycles' >= 1
      BY <1>3, <1>4, <1>5, <2>1 DEF LinesDone
    <3> QED
      BY <1>3, <1>5, <2>1, <3>1 DEF RunInv
  <2>2. CASE ~(cycles - c > 0) /\ scanlines > 1
    <3>1. /\ turn' = "ppu" /\ dark' = dark /\ updates' = updates
          /\ scanlines' = scanlines - 1
      BY <1>3, <1>5, <1>6, <2>2
    <3>2. LinesDone' = LinesDone
      BY <1>4, <1>5, <1>7, <3>1 DEF LinesDone
    <3>3. scanlines' >= 1 /\ scanline' = scanline
      BY <1>3, <1>5, <2>2, <3>1
    <3> QED
      BY <1>5, <3>1, <3>2, <3>3 DEF RunInv
  <2>3. CASE ~(cycles - c > 0) /\ scanlines = 1
    <3>1. /\ turn' = "idle" /\ updates' = updates /\ scanlines' = 0
          /\ dark' = IF updates = 0 THEN dark + 1 ELSE 0
      BY <1>3, <1>5, <1>6, <2>3
    <3>2. LinesDone = RUN_LINES
      BY <1>4, <1>7, <2>3
    <3>3. updates = 0 => dark = 0 /\ scanline >= RUN_LINES - 1
      BY <1>4, <1>5, <3>2
    <3>4. dark' \in {0, 1} /\ (dark' = 1 => scanline' >= RUN_LINES - 1)
      BY <1>3, <1>5, <3>1, <3>3
    <3> QED
      BY <1>5, <3>1, <3>4 DEF RunInv
  <2> QED
    BY <1>5, <2>1, <2>2, <2>3
<1>9. TypeOK'
  <2>1. cycles' \in 1 - MaxCost .. SLICE
    BY <1>3, <1>4, <1>5
  <2>2. cpu_cycles' \in 0 .. CLOCK_RANGE - 1
    BY <1>2, <1>4, <1>5 DEF Spend, CountedDown
  <2>3. executed' \in 0 .. WARMUP + 1
    BY <1>2, <1>4, <1>5 DEF Spend
  <2>4. /\ turn' \in {"idle", "ppu", "cpu"} /\ scanlines' \in 0..RUN_LINES
        /\ updates' \in Nat /\ dark' \in Nat
    BY <1>3, <1>4, <1>5, <1>6
  <2> QED
    BY <1>1, <1>2, <1>3, <2>1, <2>2, <2>3, <2>4 DEF TypeOK
<1>10. VblankInBlanking' /\ HitInv'
  BY <1>1, <1>2, <1>3 DEF VblankInBlanking, HitInv, Sprite0Recent
<1> QED
  BY <1>8, <1>9, <1>10 DEF IInv

LEMMA NextIInv == IInv /\ [Next]_vars => IInv'
<1> SUFFICES ASSUME IInv, [Next]_vars PROVE IInv'
  OBVIOUS
<1>1. CASE StartRun
  BY <1>1, StartRunIInv
<1>2. ASSUME NEW hit \in BOOLEAN, PpuCycle(hit) PROVE IInv'
  BY <1>2, PpuCycleIInv
<1>3. ASSUME NEW c \in Costs, Instruction(c) PROVE IInv'
  BY <1>3, InstructionIInv
<1>4. CASE Insert
  BY <1>4, InsertIInv
<1>5. CASE UNCHANGED vars
  BY <1>5 DEF vars, ppuVars, cpuVars, runVars, IInv, TypeOK, RunInv, LinesDone,
              VblankInBlanking, HitInv, Sprite0Recent
<1> QED
  BY <1>1, <1>2, <1>3, <1>4, <1>5 DEF Next, Machine

-----------------------------------------------------------------------------
\* Everything below follows from the invariant.
THEOREM Invariance == Spec => []IInv
BY InitIInv, NextIInv, PTL DEF Spec

\* Every variable keeps to its type; scanline, for one, stays in -1..261.
THEOREM TypeCorrect == Spec => []TypeOK
<1>1. IInv => TypeOK
  BY DEF IInv
<1> QED
  BY <1>1, Invariance, PTL

\* No call of fce_run ends two pictures (the first would be lost) ...
THEOREM OneUpdate == Spec => []OneUpdatePerRun
<1>1. IInv => OneUpdatePerRun
  BY DEF IInv, RunInv, OneUpdatePerRun
<1> QED
  BY <1>1, Invariance, PTL

\* ... and of two calls in a row one ends a picture.
THEOREM PicturesKeepComing == Spec => []NeverTwoDarkRuns
<1>1. IInv => NeverTwoDarkRuns
  BY DEF IInv, RunInv, NeverTwoDarkRuns
<1> QED
  BY <1>1, Invariance, PTL

\* The flag of the vertical blank is down outside the blank.
THEOREM BlankIsBlank == Spec => []VblankInBlanking
<1>1. IInv => VblankInBlanking
  BY DEF IInv
<1> QED
  BY <1>1, Invariance, PTL

\* The flag of the sprite-0 hit is about this picture or the blank before it.
THEOREM HitIsRecent == Spec => []Sprite0Recent
<1>1. IInv => Sprite0Recent
  BY DEF IInv, HitInv
<1> QED
  BY <1>1, Invariance, PTL
=============================================================================

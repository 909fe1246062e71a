------------------------------- MODULE Frame -------------------------------
(***************************************************************************)
(* Time in the emulator: fce_run (fce.c) gives the picture unit one        *)
(* scanline and then the processor a slice of cycles, RUN_LINES times.     *)
(* ppu_cycle (ppu.c) counts scanlines on its own, and cpu_run (cpu.c)      *)
(* counts cycles on its own, so a call of fce_run, a frame of the picture  *)
(* and a frame of the game are three different things.                     *)
(*                                                                         *)
(* The game is any program: an instruction looks at PPUSTATUS, sets        *)
(* PPUCTRL or PPUMASK, or does something that does not matter here; or the *)
(* game is in the loop that all games have, waiting for the vertical blank.*)
(*                                                                         *)
(* BlankLineKeepsHit, BlankLineUpdates, LastLineKeepsBlank,                *)
(* LastLineUpdatesIfShown and LookAfterClearing are faulty                 *)
(* variants of the definitions they precede, with which the properties     *)
(* below are put to the test; nothing else uses them.                      *)
(***************************************************************************)
EXTENDS PpuRegs

CONSTANTS
  RUN_LINES,                      \* 262, scanlines in fce_run
  LAST_LINE,                      \* 262, where ppu_cycle starts again
  VBLANK_LINE,                    \* 241
  SLICE,                          \* 1364 / 12 = 113
  Costs, MaxCost,                 \* cycles that an instruction may take, at most 9
  WARMUP,                         \* 29658
  CLOCK_RANGE,                    \* cpu_cycles is unsigned, modulo this
  Controls, Masks                 \* what the game stores to PPUCTRL and PPUMASK

ASSUME FrameAssumption ==
  /\ LAST_LINE \in Nat /\ VBLANK_LINE \in Nat /\ RUN_LINES \in Nat
  /\ 0 < VBLANK_LINE /\ VBLANK_LINE < LAST_LINE
  /\ 0 < RUN_LINES /\ RUN_LINES <= LAST_LINE + 1 /\ LAST_LINE < 2 * RUN_LINES
  /\ SLICE \in Nat \ {0}
  /\ MaxCost \in Nat \ {0} /\ Costs \subseteq 1..MaxCost
  /\ WARMUP \in Nat /\ CLOCK_RANGE \in Nat /\ WARMUP < CLOCK_RANGE
  /\ Controls \subseteq Byte /\ Masks \subseteq Byte

VARIABLES
  ppu,
  scanline,                       \* ppu.scanline
  ppu_sprite_hit_occured,
  cpu_cycles,
  turn,                           \* whose turn it is; "idle": fce_run is not running
  scanlines,                      \* that fce_run still has to do
  cycles,                         \* that cpu_run still has to do
  game,                           \* "free", or in the waiting loop: "look", "branch"
  updates,                        \* history: screen updates in this fce_run
  dark,                           \* history: fce_runs since one that updated the screen
  booting,                        \* history: no line reached since ppu_init that clears the blank
  hit_line,                       \* history: the scanline of the last sprite-0 hit
  executed                        \* history: cycles since power up, up to WARMUP + 1

ppuVars == <<ppu, scanline, ppu_sprite_hit_occured>>
cpuVars == <<cpu_cycles, cycles, game, executed>>
runVars == <<turn, scanlines, updates, dark>>
vars == <<ppuVars, cpuVars, runVars, booting, hit_line>>

GeneratesNmi == Bit(ppu.PPUCTRL, 128)
ShowsBackground == Bit(ppu.PPUMASK, 8)
ShowsSprites == Bit(ppu.PPUMASK, 16)

\* The first ROM has been loaded: fce_init has run.
Init ==
  /\ ppu = Reset(Zeroed, 0)
  /\ scanline = 0
  /\ ppu_sprite_hit_occured = FALSE
  /\ cpu_cycles = 0
  /\ turn = "idle"
  /\ scanlines = 0 /\ cycles = 0
  /\ game = "free"
  /\ updates = 1 /\ dark = 0
  /\ booting = TRUE
  /\ hit_line = 0
  /\ executed = 0

-----------------------------------------------------------------------------
\* The shell calls fce_run.
StartRun ==
  /\ turn = "idle"
  /\ turn' = "ppu"
  /\ scanlines' = RUN_LINES
  /\ updates' = 0
  /\ UNCHANGED <<ppuVars, cpuVars, dark, booting, hit_line>>

\* Between two frames the user may load another ROM: fce_init, with its cpu_init
\* and ppu_init.  Scanlines, cycles, ready and the hit go on as they were.
Insert ==
  /\ turn = "idle"
  /\ ppu' = Reset(ppu, ppu.mirroring)
  /\ game' = "free"
  /\ booting' = TRUE
  /\ UNCHANGED <<scanline, ppu_sprite_hit_occured, cpu_cycles, cycles, executed,
                 runVars, hit_line>>

\* Sprite 0 has a pixel on the background in this line: at most one hit until
\* the last line.
CanHit == ShowsBackground /\ ShowsSprites /\ ~ppu_sprite_hit_occured

BecomesReady == ppu.ready \/ cpu_cycles > WARMUP

\* What a line leaves in PPUSTATUS, after a hit or not.
NormalLine(line, hit) ==
  /\ ppu' = [ppu EXCEPT !.ready = BecomesReady, !.sprite0 = @ \/ hit]
  /\ scanline' = line
  /\ ppu_sprite_hit_occured' = (ppu_sprite_hit_occured \/ hit)
  /\ UNCHANGED <<updates, booting>>

BlankLineKeepsHit(hit) ==
  /\ ppu' = [ppu EXCEPT !.ready = BecomesReady, !.sprite0 = @ \/ hit, !.vblank = TRUE]
  /\ scanline' = VBLANK_LINE
  /\ ppu_sprite_hit_occured' = (ppu_sprite_hit_occured \/ hit)
  /\ booting' = FALSE
  /\ UNCHANGED updates

BlankLineUpdates(hit) ==
  /\ ppu' = [ppu EXCEPT !.ready = BecomesReady, !.sprite0 = FALSE, !.vblank = TRUE]
  /\ scanline' = VBLANK_LINE
  /\ ppu_sprite_hit_occured' = (ppu_sprite_hit_occured \/ hit)
  /\ booting' = FALSE
  /\ updates' = updates + 1

\* cpu_interrupt follows.  The handler it enters is part of the game.
BlankLine(hit) ==
  /\ ppu' = [ppu EXCEPT !.ready = BecomesReady, !.sprite0 = FALSE, !.vblank = TRUE]
  /\ scanline' = VBLANK_LINE
  /\ ppu_sprite_hit_occured' = (ppu_sprite_hit_occured \/ hit)
  /\ booting' = FALSE
  /\ UNCHANGED updates

\* fce_update_screen: the pixels of the lines since the last update.
UpdateScreen == updates' = updates + 1

LastLineKeepsBlank(hit) ==
  /\ ppu' = [ppu EXCEPT !.ready = BecomesReady, !.sprite0 = @ \/ hit]
  /\ scanline' = -1
  /\ ppu_sprite_hit_occured' = FALSE
  /\ UpdateScreen
  /\ booting' = FALSE

LastLineUpdatesIfShown(hit) ==
  /\ ppu' = [ppu EXCEPT !.ready = BecomesReady, !.sprite0 = @ \/ hit, !.vblank = FALSE]
  /\ scanline' = -1
  /\ ppu_sprite_hit_occured' = FALSE
  /\ updates' = IF ShowsBackground THEN updates + 1 ELSE updates
  /\ booting' = FALSE

LastLine(hit) ==
  /\ ppu' = [ppu EXCEPT !.ready = BecomesReady, !.sprite0 = @ \/ hit, !.vblank = FALSE]
  /\ scanline' = -1
  /\ ppu_sprite_hit_occured' = FALSE
  /\ UpdateScreen
  /\ booting' = FALSE

Ends(line) == line = LAST_LINE

\* ppu_run(1): the line is drawn before it is looked at, blank or not.
PpuCycle(hit) ==
  /\ turn = "ppu"
  /\ hit => CanHit
  /\ \/ scanline + 1 = VBLANK_LINE /\ BlankLine(hit)
     \/ Ends(scanline + 1) /\ LastLine(hit)
     \/ /\ scanline + 1 # VBLANK_LINE /\ ~Ends(scanline + 1)
        /\ NormalLine(scanline + 1, hit)
  /\ hit_line' = IF hit THEN scanline + 1 ELSE hit_line
  /\ turn' = "cpu"
  /\ cycles' = SLICE
  /\ UNCHANGED <<cpu_cycles, game, executed, scanlines, dark>>

-----------------------------------------------------------------------------
(* cpu_run.                                                                *)

CountedDown(n) == (n + CLOCK_RANGE) % CLOCK_RANGE

\* The last instruction of a slice ends it however many cycles it takes, and
\* the last slice ends fce_run.
EndSlice ==
  /\ scanlines' = scanlines - 1
  /\ turn' = IF scanlines = 1 THEN "idle" ELSE "ppu"
  /\ dark' = CASE scanlines > 1 -> dark
               [] scanlines = 1 /\ updates = 0 -> dark + 1
               [] OTHER -> 0
  /\ UNCHANGED updates

Spend(c) ==
  /\ turn = "cpu"
  /\ cycles' = cycles - c
  /\ cpu_cycles' = CountedDown(cpu_cycles - c)
  /\ executed' = IF executed + c > WARMUP THEN WARMUP + 1 ELSE executed + c
  /\ IF cycles - c > 0 THEN UNCHANGED runVars ELSE EndSlice
  /\ UNCHANGED <<scanline, ppu_sprite_hit_occured, booting, hit_line>>

\* An instruction that has nothing to do with the picture unit.
Other(c) == game = "free" /\ Spend(c) /\ UNCHANGED <<ppu, game>>

LoadStatus(c) ==
  /\ game = "free"
  /\ Spend(c)
  /\ ppu' = IoRead(ppu, 2)
  /\ UNCHANGED game

StoreRegister(r, d, c) ==
  /\ game = "free"
  /\ Spend(c)
  /\ ppu' = IoWrite(IoRead(ppu, r), r, d)
  /\ UNCHANGED game

\* Games wait for the blank with interrupts off: with an interrupt handler
\* that looks at PPUSTATUS too, either of the two may see the flag.
StartWaiting(c) ==
  /\ game = "free" /\ ~GeneratesNmi
  /\ Spend(c)
  /\ game' = "look"
  /\ UNCHANGED ppu

LookAfterClearing(c) ==
  /\ game = "look"
  /\ Spend(c)
  /\ ppu' = IoRead(ppu, 2)
  /\ game' = IF IoRead(ppu, 2).vblank THEN "free" ELSE "branch"

Look(c) ==
  /\ game = "look"
  /\ Spend(c)
  /\ ppu' = IoRead(ppu, 2)
  /\ game' = IF ppu.vblank THEN "free" ELSE "branch"

Branch(c) ==
  /\ game = "branch"
  /\ Spend(c)
  /\ game' = "look"
  /\ UNCHANGED ppu

Instruction(c) ==
  \/ Other(c)
  \/ LoadStatus(c)
  \/ \E d \in Controls : StoreRegister(0, d, c)
  \/ \E d \in Masks : StoreRegister(1, d, c)
  \/ StartWaiting(c) \/ Look(c) \/ Branch(c)

Machine ==
  \/ StartRun
  \/ \E hit \in BOOLEAN : PpuCycle(hit)
  \/ \E c \in Costs : Instruction(c)

Next == Machine \/ Insert

\* While the user plays, the shell calls fce_run again and again (Shell's
\* FramesGoOn), and fce_run does not wait for anything.
Spec == Init /\ [][Next]_vars /\ WF_vars(Machine)

-----------------------------------------------------------------------------
(* Properties.                                                             *)

TypeOK ==
  /\ ppu \in PpuState
  /\ scanline \in -1 .. LAST_LINE - 1
  /\ ppu_sprite_hit_occured \in BOOLEAN
  /\ cpu_cycles \in 0 .. CLOCK_RANGE - 1
  /\ turn \in {"idle", "ppu", "cpu"}
  /\ scanlines \in 0..RUN_LINES
  /\ cycles \in 1 - MaxCost .. SLICE
  /\ game \in {"free", "look", "branch"}
  /\ updates \in Nat /\ dark \in Nat
  /\ booting \in BOOLEAN
  /\ hit_line \in 0..LAST_LINE
  /\ executed \in 0 .. WARMUP + 1

\* The picture's period is one line longer than fce_run, so the two drift
\* apart; still no call of fce_run shows two pictures, of which the first would
\* be lost in the swap that follows the call ...
OneUpdatePerRun == updates <= 1

\* ... and the call after one that shows none does show one.
NeverTwoDarkRuns == dark <= 1

\* After the first line that decides it, the flag of the vertical blank is up
\* only on the lines of the blank, whenever the game looks or does not look.
VblankInBlanking == ppu.vblank => booting \/ scanline >= VBLANK_LINE

\* The flag of a sprite-0 hit is about this picture, or about a line in the
\* blank before it: lines that are not shown are drawn and compared, too, and
\* no one lowers the flag after them.
Sprite0Recent ==
  ppu.sprite0 => ppu_sprite_hit_occured \/ hit_line >= VBLANK_LINE + 1

\* A game that waits for the vertical blank with interrupts off sees it,
\* although every look at the flag lowers it and the blank does not wait.
WaitingEnds == game # "free" ~> game = "free"

\* cpu.h:14: cpu_clock() counts the cycles that passed since power up.  Then
\* the unit gets ready only after the warm-up that ppu_cycle waits for.
ReadyAfterWarmup == ppu.ready => executed > WARMUP
=============================================================================

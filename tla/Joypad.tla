------------------------------- MODULE Joypad -------------------------------
(***************************************************************************)
(* The controller port, emulator/psg.c with key.c and hal/nes_key_hal.c,   *)
(* on top of the polled keyboard.                                          *)
(*                                                                         *)
(* A game strobes the port by storing 1 and then 0 at $4016 and then loads *)
(* from $4016 once per button.  The code counts the loads in p.  Three     *)
(* things get in between: a store is preceded by a load of the same        *)
(* address (every addressing mode loads its operand), which counts and     *)
(* consumes a press like any other load; a store to any other address from *)
(* $4000 to $5FFF (a sound register, say from the interrupt handler)       *)
(* overwrites prev_write; and the keyboard is polled between two frames,   *)
(* wherever in its routine the game then is.                               *)
(*                                                                         *)
(* Definitions named for a fault are not part of the model: each stands    *)
(* before the definition it spoils.                                        *)
(***************************************************************************)
EXTENDS Keyboard

CONSTANTS
  ReadCount,                      \* how many buttons the games' routines read
  SoundBits,                      \* bit 0 of the bytes stored to sound registers
  MaxP,                           \* bound: loads without a strobe
  MaxCarts                        \* bound: games started one after the other

\* hal_nes_get_key: the key of each button, in the order of the loads.
Button == <<37, 36, 22, 23, 17, 31, 30, 32>>
Buttons == DOMAIN Button

ASSUME JoypadAssumption ==
  /\ ReadCount \in Buttons
  /\ SoundBits \subseteq {0, 1}
  /\ MaxP \in Nat /\ MaxP > 10
  /\ MaxCarts \in Nat

VARIABLES
  p,                              \* loads since the last strobe
  prev_write,
  phase,                          \* where the game's routine is
  reads,                          \* buttons it has loaded in this round
  inserted,                       \* which game is in the machine
  got,                            \* history: the last load: which button, what came
  strobe                          \* history: how this game's last strobe went

portVars == <<p, prev_write>>
gameVars == <<phase, reads, inserted, got, strobe>>
padVars == <<keyboardVars, portVars, gameVars>>

\* What psg_io_read may return besides a button: 1 for the ninth load (the
\* default of hal_nes_get_key), 0 for all later ones.
PadTypeOK ==
  /\ KeyboardTypeOK
  /\ p \in 0 .. MaxP
  /\ prev_write \in {0, 1}
  /\ phase \in {"idle", "high", "reading"}
  /\ reads \in 0 .. ReadCount
  /\ inserted \in 0 .. MaxCarts
  /\ got \in [button : 0 .. ReadCount, down : BOOLEAN]
  /\ strobe \in {"none", "lost", "good"}

PadInit ==
  /\ KeyboardInit
  /\ p = 10 /\ prev_write = 0
  /\ phase = "idle" /\ reads = 0 /\ inserted = 0
  /\ got = [button |-> 0, down |-> FALSE]
  /\ strobe = "none"

-----------------------------------------------------------------------------
(* The port.                                                               *)

\* The keys whose presses a load consumes: none after the eighth.
Asked(n) == IF n \in Buttons THEN {Button[n]} \cap Keys ELSE {}

LoadedHeldOnly == IF p + 1 \in Buttons
                  THEN \E k \in Asked(p + 1) : key_state[k]
                  ELSE p + 1 = 9

\* psg_io_read($4016): p++ < 9, then the button numbered by the new p.
Loaded == IF p + 1 \in Buttons
          THEN \E k \in Asked(p + 1) : KeyDown(k)
          ELSE p + 1 = 9

\* Loads that the game makes, and the one that precedes each of its stores.
PadLoad ==
  /\ p < MaxP
  /\ ConsumePresses(Asked(p + 1))

StrobesOnRise(data) == data = 1 /\ prev_write = 0

\* psg_io_write($4016, data).
Strobes(data) == data = 0 /\ prev_write = 1

PadStore(data) ==
  /\ PadLoad
  /\ p' = IF Strobes(data) THEN 0 ELSE p + 1
  /\ prev_write' = data

-----------------------------------------------------------------------------
(* The game.                                                               *)

StrobeHigh ==
  /\ phase = "idle"
  /\ PadStore(1)
  /\ phase' = "high"
  /\ UNCHANGED <<reads, inserted, got, strobe>>

\* The strobe works unless a sound register took bit 0 away in between.
StrobeLow ==
  /\ phase = "high"
  /\ PadStore(0)
  /\ phase' = "reading" /\ reads' = 0
  /\ strobe' = IF prev_write = 1 THEN "good"
                ELSE IF strobe = "none" THEN "none" ELSE "lost"
  /\ UNCHANGED <<inserted, got>>

ReadsAll == reads + 1 = ReadCount

ReadButton ==
  /\ phase = "reading"
  /\ PadLoad
  /\ p' = p + 1
  /\ got' = [button |-> reads + 1, down |-> Loaded]
  /\ reads' = reads + 1
  /\ phase' = IF ReadsAll THEN "idle" ELSE "reading"
  /\ UNCHANGED <<prev_write, inserted, strobe>>

\* A store to a sound register: the load before it returns 0, and counts for
\* nothing, but prev_write is overwritten.
SoundStore(bit) ==
  /\ bit \in SoundBits
  /\ prev_write' = bit
  /\ UNCHANGED <<keyboardVars, p, gameVars>>

Game == StrobeHigh \/ StrobeLow \/ ReadButton \/ \E bit \in {0, 1} : SoundStore(bit)

\* The user reloads and starts another game, which fce_init does not tell the
\* port: p, prev_write and the latched presses stay.
InsertCart ==
  /\ inserted < MaxCarts
  /\ inserted' = inserted + 1
  /\ phase' = "idle" /\ reads' = 0 /\ strobe' = "none"
  /\ UNCHANGED <<keyboardVars, portVars, got>>

PollKeyboard == PollFlags /\ UNCHANGED <<portVars, gameVars>>

PadKeyEvent(c) == ScancodeArrives(c) /\ UNCHANGED <<portVars, gameVars>>

Routine == StrobeHigh \/ StrobeLow \/ ReadButton

PadNext == Game \/ InsertCart \/ PollKeyboard \/ \E c \in Scancode : PadKeyEvent(c)

\* While a game runs, the loop polls the keyboard and runs frames for ever;
\* the games are those that keep reading the port.
PadSpec ==
  PadInit /\ [][PadNext]_padVars /\ WF_padVars(PollKeyboard) /\ WF_padVars(Routine)

-----------------------------------------------------------------------------
(* Properties.                                                             *)

\* After an undisturbed strobe the n-th load of the game returns the n-th
\* button (psg.c:12-13 and the order of hal_nes_get_key), with the key as the
\* driver has it at that moment.
ButtonsInOrder ==
  [][ReadButton /\ strobe = "good" =>
       got'.down = \E k \in {Button[reads + 1]} \cap Keys : KeyDown(k)]_padVars

\* Once a strobe of a game has worked, a press that a poll has latched of a
\* button that the games read is given up only by the load that reports it:
\* not by the loads that come before the stores of a strobe, not by the loads
\* that follow a strobe that was lost, and not by the release of the key.
PressesReachTheGame ==
  [][\A n \in 1 .. ReadCount :
       /\ Button[n] \in Keys /\ strobe # "none"
       /\ key_pressed[Button[n]] /\ ~key_pressed'[Button[n]]
       => got' = [button |-> n, down |-> TRUE]]_padVars

\* A latched press is reported at last, unless another game is started.
LatchedPressIsSeen ==
  \A n \in 1 .. ReadCount : Button[n] \in Keys =>
    (key_pressed[Button[n]] /\ strobe = "good"
       ~> got = [button |-> n, down |-> TRUE] \/ strobe # "good")

\* A key that is let go for good is up for the game from some time on: the
\* poll lowers key_state, and the game's own load takes the latched press,
\* unless every strobe is lost.
ReleaseIsSeen ==
  \A n \in 1 .. ReadCount : Button[n] \in Keys =>
    (<>[](port = [key |-> Button[n], release |-> TRUE]) /\ []<>(strobe = "good")
       => <>[]~KeyDown(Button[n]))
=============================================================================

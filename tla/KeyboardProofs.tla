--------------------------- MODULE KeyboardProofs ---------------------------
(***************************************************************************)
(* Proofs about the two parts that use the keyboard driver, for any set of *)
(* keys.                                                                   *)
(*                                                                         *)
(* Shell, for any number of ROMs, whatever is behind their names, and any  *)
(* width of the tick counter.  The session, which all of them depend on,   *)
(* does not change.  None of Shell's properties is inductive.  They follow *)
(* from                                                                    *)
(*   IndexInv  with a ROM listed, the index is in the list;                *)
(*   ClockInv  the unsigned difference of the two counters is the number   *)
(*             of ticks that really passed;                                *)
(*   KeyInv    a key that the driver holds for pressed, or is about to,    *)
(*             was pressed since its last event;                           *)
(* together with the two properties on what was picked and what is played. *)
(*                                                                         *)
(* Joypad, for any length of the games' routine and any stores to sound    *)
(* registers.  The argument (Aligned): between two rounds p has moved past *)
(* every button that a routine reads, so the loads hidden in the stores of *)
(* a strobe ask for none of them; a strobe that works sets p to 0 and p    *)
(* then counts the same loads as the game does; a strobe that is lost      *)
(* leaves p beyond.                                                        *)
(***************************************************************************)
EXTENDS Shell, Joypad, TLAPS

(***************************************************************************)
(* Shell.                                                                  *)
(***************************************************************************)
IndexInv == total_roms > 0 => current_rom_index \in Roms

ClockInv == Elapsed = waited

KeyInv ==
  /\ \A k \in Keys : key_state[k] => typed[k]
  /\ ~port.release => typed[port.key]

IInv ==
  /\ TypeOK
  /\ IndexInv /\ ClockInv /\ KeyInv
  /\ RunsDefined /\ CartIsPicked /\ ShownIsSelected

-----------------------------------------------------------------------------
(* The parts of TypeOK that the three groups of actions can disturb.       *)

UiTypeOK ==
  /\ g_ui_state \in {"SPLASH", "MENU", "LOAD_ROM", "PLAY"}
  /\ current_rom_index \in Roms \cup {0, -1}
  /\ shown \in Roms \cup {0, Garbage, Blank, LoadError}
  /\ cart \in Roms \cup {NoRom, Leftover}
  /\ crashed \in BOOLEAN
  /\ picked \in Roms \cup {0, -1}

ClockTypeOK ==
  /\ ticks \in 0 .. TickRange - 1
  /\ last_frame \in 0 .. TickRange - 1
  /\ waited \in 0 .. MaxElapsed

UiInv == session \in Sessions /\ UiTypeOK /\ IndexInv /\ RunsDefined /\ CartIsPicked /\ ShownIsSelected

\* What a session says of the ROMs.
LEMMA SessionFacts ==
  ASSUME session \in Sessions
  PROVE  total_roms \in Nat /\ FileKind \in [Roms -> {"rom", "notrom", "missing"}]
BY ShellAssumption DEF total_roms, FileKind, Roms

LEMMA SessionKept ==
  ASSUME session' = session
  PROVE  total_roms' = total_roms /\ FileKind' = FileKind /\ Roms' = Roms
BY DEF total_roms, FileKind, Roms

\* The next and the previous ROM are ROMs, if there are any; without any, the
\* index stays 0 or -1.
LEMMA IndexStep ==
  ASSUME NEW i \in Roms \cup {0, -1}, total_roms > 0 => i \in Roms, total_roms \in Nat
  PROVE  /\ total_roms > 0 => NextIndex(i) \in Roms
         /\ PrevIndex(i) \in Roms \cup {0, -1}
         /\ total_roms > 0 => PrevIndex(i) \in Roms
BY DEF NextIndex, PrevIndex, Roms

\* The key handler keeps the user interface consistent, whatever the key.
LEMMA HandlerKeepsUiInv ==
  ASSUME UiInv, NEW key \in Int, UiKeyHandler(key), ~crashed, session' = session
  PROVE  UiInv'
<1> USE SessionFacts, SessionKept DEF UiInv, UiTypeOK, IndexInv, RunsDefined, CartIsPicked,
        ShownIsSelected, Garbage, Blank, LoadError, NoRom, Leftover, DrawMenu
<1>1. CASE MenuListens /\ RenderMenu(key)
  <2>1. CASE Crash /\ total_roms = 0
    BY <1>1, <2>1 DEF MenuListens, Crash, Roms
  <2>2. ASSUME NEW i \in Roms \cup {0, -1}, total_roms > 0 => i \in Roms, MoveTo(i)
        PROVE  UiInv'
    BY <1>1, <2>2 DEF MenuListens, MoveTo
  <2>3. CASE PickRom
    BY <1>1, <2>3 DEF MenuListens, PickRom
  <2> QED
    BY <1>1, <2>1, <2>2, <2>3, IndexStep DEF RenderMenu, Roms
<1>2. CASE g_ui_state' = "SPLASH" /\ UNCHANGED <<current_rom_index, shown, cart, crashed, picked>>
  BY <1>2
<1>3. CASE UNCHANGED uiVars
  BY <1>3 DEF uiVars
<1> QED
  BY <1>1, <1>2, <1>3 DEF UiKeyHandler

\* So does one call of ui_manage_states.
LEMMA ManageKeepsUiInv ==
  ASSUME UiInv, ManageStates, session' = session
  PROVE  UiInv'
<1> USE SessionFacts, SessionKept DEF UiInv, UiTypeOK, IndexInv, RunsDefined, CartIsPicked,
        ShownIsSelected, Garbage, Blank, LoadError, NoRom, Leftover, DrawMenu, FrameStep
<1>1. CASE Splash
  BY <1>1 DEF Splash, RenderSplashScreen
<1>2. CASE IdleMenu
  BY <1>2 DEF IdleMenu, uiVars
<1>3. ASSUME NEW kind \in {"rom", "notrom", "missing"}, LoadRom(kind)
      PROVE  UiInv'
  <2> USE <1>3
  <2>1. ~crashed /\ g_ui_state = "LOAD_ROM" /\ kind \in FileKinds
    BY DEF LoadRom
  <2>2. CASE kind = "rom" /\ RomLoaded(current_rom_index)
    BY <2>1, <2>2 DEF RomLoaded, FileKinds
  <2>3. CASE RomRefused
    BY <2>1, <2>3 DEF RomRefused
  <2>4. CASE kind = "missing" /\ Crash
    BY <2>1, <2>4 DEF Crash, FileKinds, Roms
  <2>5. CASE kind = "missing" /\ RomLoaded(Leftover)
    BY <2>1, <2>5 DEF RomLoaded, FileKinds
  <2> QED
    BY <2>2, <2>3, <2>4, <2>5 DEF LoadRom
<1>4. ASSUME NEW S \in SUBSET JoypadKeys, PlayFrame(S)
      PROVE  UiInv'
  BY <1>4 DEF PlayFrame, uiVars
<1> QED
  BY <1>1, <1>2, <1>3, <1>4 DEF ManageStates

-----------------------------------------------------------------------------
LEMMA InitIInv == Init => IInv
<1> SUFFICES ASSUME Init PROVE IInv
  OBVIOUS
<1> USE ShellAssumption, KeysAssumption, SessionFacts DEF Init, KeyboardInit
<1>1. TypeOK
  <2>1. KeyboardTypeOK
    BY DEF KeyboardTypeOK
  <2>2. UiTypeOK
    BY DEF UiTypeOK, NoRom, Blank
  <2>3. ClockTypeOK
    BY DEF ClockTypeOK
  <2> QED
    BY <2>1, <2>2, <2>3 DEF TypeOK, UiTypeOK, ClockTypeOK
<1>2. IndexInv
  BY DEF IndexInv, Roms
<1>3. ClockInv
  BY DEF ClockInv, Elapsed
<1>4. KeyInv
  BY DEF KeyInv, Scancode
<1>5. RunsDefined /\ CartIsPicked /\ ShownIsSelected
  BY DEF RunsDefined, CartIsPicked, ShownIsSelected
<1> QED
  BY <1>1, <1>2, <1>3, <1>4, <1>5 DEF IInv

\* The flags keep their type, and the history of presses keeps up with them,
\* when a byte arrives ...
LEMMA KeyEventKeepsKeys ==
  ASSUME IInv, NEW c \in Scancode, KeyEvent(c)
  PROVE  KeyboardTypeOK' /\ typed' \in [Keys -> BOOLEAN] /\ KeyInv'
<1>1. c.key \in Keys /\ c.release \in BOOLEAN
  BY DEF Scancode
<1> QED
  BY <1>1 DEF IInv, TypeOK, KeyboardTypeOK, KeyInv, KeyEvent, ScancodeArrives

\* ... and when the port is polled.
LEMMA PollKeepsKeys ==
  ASSUME IInv, Poll
  PROVE  KeyboardTypeOK' /\ typed' \in [Keys -> BOOLEAN] /\ KeyInv'
<1> USE DEF IInv, TypeOK, KeyboardTypeOK
<1>1. port.key \in Keys /\ port.release \in BOOLEAN
  BY DEF Scancode
<1>2. /\ port' = port
      /\ key_state' = [key_state EXCEPT ![port.key] = ~port.release]
      /\ key_pressed' \in [Keys -> BOOLEAN]
  BY <1>1 DEF Poll, PollFlags, PolledState, PolledPressed
<1>3. CASE HandlerDue
  <2>1. typed' = [typed EXCEPT ![port.key] = FALSE] /\ port.release
    BY <1>3 DEF Poll, HandlerDue
  <2> QED
    BY <1>1, <1>2, <2>1 DEF KeyInv
<1>4. CASE ~HandlerDue
  <2>1. typed' = typed
    BY <1>4 DEF Poll
  <2> QED
    BY <1>1, <1>2, <2>1 DEF KeyInv
<1> QED
  BY <1>3, <1>4

-----------------------------------------------------------------------------
LEMMA NextIInv == IInv /\ [Next]_vars => IInv'
<1> SUFFICES ASSUME IInv, [Next]_vars PROVE IInv'
  OBVIOUS
<1> USE DEF IInv
<1>0. UiInv /\ ClockTypeOK
  BY DEF UiInv, UiTypeOK, ClockTypeOK, TypeOK
<1>k. session' = session
  BY DEF Next, vars, MainLoop, ManageStates, Splash, IdleMenu, LoadRom, PlayFrame,
     FrameStep, Poll, CheckClock, Tick, KeyEvent
<1>s. total_roms' = total_roms /\ FileKind' = FileKind /\ Roms' = Roms
  BY <1>k, SessionKept
<1>1. CASE UNCHANGED vars
  BY <1>1, <1>s DEF vars, keyboardVars, uiVars, clockVars, TypeOK, KeyboardTypeOK, IndexInv,
     ClockInv, Elapsed, KeyInv, RunsDefined, CartIsPicked, ShownIsSelected
<1>a. ASSUME UNCHANGED <<clockVars>> PROVE ClockTypeOK' /\ ClockInv'
  BY <1>0, <1>a DEF clockVars, ClockTypeOK, ClockInv, Elapsed
<1>b. ASSUME UNCHANGED uiVars PROVE UiInv'
  BY <1>0, <1>b, <1>k, <1>s DEF uiVars, UiInv, UiTypeOK, IndexInv, RunsDefined, CartIsPicked,
     ShownIsSelected
<1>c. ASSUME KeyboardTypeOK', UiInv', ClockTypeOK', ClockInv', KeyInv',
             loop' \in {"poll", "clock", "frame"}, typed' \in [Keys -> BOOLEAN]
      PROVE  IInv'
  BY <1>c DEF UiInv, UiTypeOK, ClockTypeOK, TypeOK
<1>d. ASSUME UNCHANGED <<port, key_state, typed>>, key_pressed' \in [Keys -> BOOLEAN]
      PROVE  KeyboardTypeOK' /\ typed' \in [Keys -> BOOLEAN] /\ KeyInv'
  BY <1>d DEF TypeOK, KeyboardTypeOK, KeyInv
<1>2. ASSUME NEW c \in Scancode, KeyEvent(c) PROVE IInv'
  <2>1. UNCHANGED <<uiVars, clockVars, loop>>
    BY <1>2 DEF KeyEvent
  <2> QED
    BY <1>2, <2>1, <1>a, <1>b, <1>c, KeyEventKeepsKeys DEF TypeOK
<1>3. CASE Tick
  <2>1. ClockTypeOK' /\ ClockInv'
    BY <1>0, <1>3, ShellAssumption DEF Tick, ClockTypeOK, ClockInv, Elapsed
  <2>2. UNCHANGED <<keyboardVars, uiVars, loop, typed>>
    BY <1>3 DEF Tick
  <2> QED
    BY <2>1, <2>2, <1>b, <1>c, <1>d DEF keyboardVars, TypeOK, KeyboardTypeOK
<1>4. CASE Poll
  <2>1. UiInv'
    <3>1. CASE HandlerDue
      <4>1. port.key \in Int
        <5>1. port.key \in Keys
          BY DEF TypeOK, KeyboardTypeOK, Scancode
        <5>2. \A k \in 0 .. 127 : k \in Int
          OBVIOUS
        <5> QED
          BY <5>1, <5>2, KeysAssumption
      <4> QED
        BY <1>0, <1>4, <3>1, <4>1, <1>k, HandlerKeepsUiInv DEF Poll
    <3>2. CASE ~HandlerDue
      BY <1>4, <3>2, <1>b DEF Poll
    <3> QED
      BY <3>1, <3>2
  <2>2. UNCHANGED clockVars /\ loop' = "clock"
    BY <1>4 DEF Poll
  <2> QED
    BY <1>4, <2>1, <2>2, <1>a, <1>c, PollKeepsKeys
<1>5. CASE CheckClock
  <2>1. ClockTypeOK' /\ ClockInv'
    BY <1>0, <1>5, ShellAssumption DEF CheckClock, ClockTypeOK, ClockInv, Elapsed
  <2>2. UNCHANGED <<keyboardVars, uiVars, typed>> /\ loop' \in {"poll", "frame"}
    BY <1>5 DEF CheckClock
  <2> QED
    BY <2>1, <2>2, <1>b, <1>c, <1>d DEF keyboardVars, TypeOK, KeyboardTypeOK
<1>6. CASE ManageStates
  <2>1. UNCHANGED <<port, key_state, clockVars, typed>> /\ loop' = "poll"
    BY <1>6 DEF ManageStates, Splash, IdleMenu, LoadRom, PlayFrame, FrameStep,
       ConsumePresses, keyboardVars
  <2>2. key_pressed' \in [Keys -> BOOLEAN]
    BY <1>6 DEF ManageStates, Splash, IdleMenu, LoadRom, PlayFrame, ConsumePresses,
       keyboardVars, TypeOK, KeyboardTypeOK
  <2> QED
    BY <1>0, <1>6, <2>1, <2>2, <1>a, <1>c, <1>d, <1>k, ManageKeepsUiInv
<1> QED
  BY <1>1, <1>2, <1>3, <1>4, <1>5, <1>6 DEF Next, MainLoop

\* The strengthened invariant holds of every behaviour.
THEOREM Invariance == Spec => []IInv
<1> QED
  BY InitIInv, NextIInv, PTL DEF Spec

\* Every variable of the shell keeps to its type.
THEOREM TypeCorrect == Spec => []TypeOK
<1>1. IInv => TypeOK
  BY DEF IInv
<1> QED
  BY <1>1, Invariance, PTL

\* Undefined behaviour needs an empty list of ROMs, or a name that is listed
\* and cannot be opened.
THEOREM RunsAreDefined == Spec => []RunsDefined
<1>1. IInv => RunsDefined
  BY DEF IInv
<1> QED
  BY <1>1, Invariance, PTL

\* The ROM being played is the one that was picked when START was released.
THEOREM CartIsAlwaysPicked == Spec => []CartIsPicked
<1>1. IInv => CartIsPicked
  BY DEF IInv
<1> QED
  BY <1>1, Invariance, PTL

\* The name shown in the menu is the one that START would load.
THEOREM ShownIsAlwaysSelected == Spec => []ShownIsSelected
<1>1. IInv => ShownIsSelected
  BY DEF IInv
<1> QED
  BY <1>1, Invariance, PTL

\* A press of a key is answered by at most one key event.
THEOREM OneEventPerPressHolds == Spec => OneEventPerPress
<1>1. IInv => \A k \in Keys :
        loop = "poll" /\ loop' = "clock" /\ HandlerDue /\ port.key = k => typed[k]
  BY DEF IInv, KeyInv, HandlerDue
<1> QED
  BY <1>1, Invariance, PTL DEF OneEventPerPress

\* Frames run exactly when more than GATE ticks have passed, at any width of
\* the counters.
THEOREM FrameGateHolds == Spec => FrameGate
<1>1. IInv /\ [Next]_vars =>
        [loop = "clock" /\ loop' # "clock" => (loop' = "frame" <=> waited > GATE)]_vars
  <2> SUFFICES ASSUME IInv, Next, loop = "clock", loop' # "clock"
               PROVE  loop' = "frame" <=> waited > GATE
    OBVIOUS
  <2>1. CheckClock
    BY DEF Next, MainLoop, Poll, ManageStates, Splash, IdleMenu, LoadRom, PlayFrame,
       FrameStep, Tick, KeyEvent
  <2> QED
    BY <2>1 DEF IInv, ClockInv, CheckClock, FrameDue
<1> QED
  BY <1>1, Invariance, PTL DEF Spec, FrameGate

(***************************************************************************)
(* Joypad.                                                                 *)
(***************************************************************************)
Aligned ==
  /\ phase = "reading" => reads < ReadCount
  /\ phase = "reading" /\ strobe = "good" => p = reads
  /\ phase # "reading" /\ strobe # "none" => p >= ReadCount
  /\ phase = "reading" /\ strobe = "lost" => p >= ReadCount

PadInv == PadTypeOK /\ Aligned

-----------------------------------------------------------------------------
\* The eight buttons are numbered from 1 (hal_nes_get_key's cases).
LEMMA EightButtons == Buttons = 1 .. 8
  BY DEF Buttons, Button

\* No two buttons have the same key.
LEMMA ButtonsDiffer ==
  ASSUME NEW m \in 1 .. 8, NEW n \in 1 .. 8, Button[m] = Button[n]
  PROVE  m = n
  BY DEF Button

\* A load changes only key_pressed, and lowers at most one entry of it, that
\* of the button with the new number.
LEMMA LoadConsumesOne ==
  ASSUME PadTypeOK, PadLoad
  PROVE  /\ KeyboardTypeOK'
         /\ p \in 0 .. MaxP - 1
         /\ \A n \in 1 .. 8 :
              Button[n] \in Keys /\ key_pressed[Button[n]] /\ ~key_pressed'[Button[n]]
                => p + 1 = n
<1>1. KeyboardTypeOK' /\ p \in 0 .. MaxP - 1
  BY JoypadAssumption DEF PadTypeOK, PadLoad, KeyboardTypeOK, ConsumePresses
<1>2. ASSUME NEW n \in 1 .. 8, Button[n] \in Keys,
             key_pressed[Button[n]], ~key_pressed'[Button[n]]
      PROVE  p + 1 = n
  <2>1. Button[n] \in Asked(p + 1)
    BY <1>2 DEF PadLoad, ConsumePresses, PadTypeOK, KeyboardTypeOK
  <2>2. p + 1 \in 1 .. 8 /\ Button[n] = Button[p + 1]
    BY <2>1, EightButtons DEF Asked
  <2> QED
    BY <2>2, ButtonsDiffer
<1> QED
  BY <1>1, <1>2

\* The poll keeps the driver's types.
LEMMA PollTypes ==
  ASSUME KeyboardTypeOK, PollFlags
  PROVE  KeyboardTypeOK'
  BY DEF KeyboardTypeOK, PollFlags, PolledState, PolledPressed, Scancode

-----------------------------------------------------------------------------
\* The invariant holds at the start: p is 10 (psg.c:6), beyond all buttons.
LEMMA PadInitially == PadInit => PadInv
<1> SUFFICES ASSUME PadInit PROVE PadInv
  OBVIOUS
<1>1. KeyboardTypeOK
  BY DEF PadInit, KeyboardInit, KeyboardTypeOK, Scancode
<1> QED
  BY <1>1, JoypadAssumption, EightButtons DEF PadInit, PadInv, PadTypeOK, Aligned

\* Every step keeps it.
LEMMA PadInductive == PadInv /\ [PadNext]_padVars => PadInv'
<1> SUFFICES ASSUME PadInv, [PadNext]_padVars PROVE PadInv'
  OBVIOUS
<1> USE JoypadAssumption, EightButtons
<1>1. CASE StrobeHigh
  <2>1. KeyboardTypeOK' /\ p \in 0 .. MaxP - 1
    BY <1>1, LoadConsumesOne DEF StrobeHigh, PadStore, PadInv
  <2>2. p' = p + 1 /\ prev_write' = 1
    BY <1>1 DEF StrobeHigh, PadStore, Strobes
  <2> QED
    BY <1>1, <2>1, <2>2 DEF StrobeHigh, PadInv, PadTypeOK, Aligned
<1>2. CASE StrobeLow
  <2>1. KeyboardTypeOK' /\ p \in 0 .. MaxP - 1
    BY <1>2, LoadConsumesOne DEF StrobeLow, PadStore, PadInv
  <2>2. /\ p' = IF prev_write = 1 THEN 0 ELSE p + 1
        /\ prev_write' = 0
    BY <1>2 DEF StrobeLow, PadStore, Strobes
  <2> QED
    BY <1>2, <2>1, <2>2 DEF StrobeLow, PadInv, PadTypeOK, Aligned
<1>3. CASE ReadButton
  <2>1. KeyboardTypeOK' /\ p \in 0 .. MaxP - 1
    BY <1>3, LoadConsumesOne DEF ReadButton, PadInv
  <2>2. Loaded \in BOOLEAN
    BY DEF Loaded
  <2>3. got' \in [button : 0 .. ReadCount, down : BOOLEAN]
    BY <1>3, <2>2 DEF ReadButton, PadInv, PadTypeOK, Aligned
  <2> QED
    BY <1>3, <2>1, <2>3 DEF ReadButton, ReadsAll, PadInv, PadTypeOK, Aligned
<1>4. CASE \E bit \in {0, 1} : SoundStore(bit)
  BY <1>4 DEF SoundStore, gameVars, keyboardVars, PadInv, PadTypeOK, KeyboardTypeOK, Aligned
<1>5. CASE InsertCart
  BY <1>5 DEF InsertCart, portVars, keyboardVars, PadInv, PadTypeOK, KeyboardTypeOK, Aligned
<1>6. CASE PollKeyboard
  BY <1>6, PollTypes DEF PollKeyboard, portVars, gameVars, PadInv, PadTypeOK, Aligned
<1>7. CASE \E c \in Scancode : PadKeyEvent(c)
  BY <1>7 DEF PadKeyEvent, ScancodeArrives, portVars, gameVars, PadInv, PadTypeOK,
              KeyboardTypeOK, Aligned
<1>8. CASE UNCHANGED padVars
  BY <1>8 DEF padVars, keyboardVars, portVars, gameVars, PadInv, PadTypeOK, KeyboardTypeOK,
              Aligned
<1> QED
  BY <1>1, <1>2, <1>3, <1>4, <1>5, <1>6, <1>7, <1>8 DEF PadNext, Game

\* p and the game's own count stay aligned in every behaviour.
THEOREM PadInvariance == PadSpec => []PadInv
  BY PadInitially, PadInductive, PTL DEF PadSpec

\* psg.c's variables, and the game's, keep to their types.
THEOREM PadTypeCorrect == PadSpec => []PadTypeOK
  BY PadInvariance, PTL DEF PadInv

-----------------------------------------------------------------------------
\* After a strobe that worked the n-th load returns the n-th button.
THEOREM ButtonsComeInOrder == PadSpec => ButtonsInOrder
<1>1. PadInv /\ [PadNext]_padVars =>
        [ReadButton /\ strobe = "good" =>
           got'.down = \E k \in {Button[reads + 1]} \cap Keys : KeyDown(k)]_padVars
  <2> SUFFICES ASSUME PadInv, ReadButton, strobe = "good"
               PROVE  got'.down = \E k \in {Button[reads + 1]} \cap Keys : KeyDown(k)
    OBVIOUS
  <2>1. p + 1 = reads + 1 /\ reads + 1 \in Buttons
    BY JoypadAssumption, EightButtons DEF PadInv, PadTypeOK, Aligned, ReadButton
  <2>2. got'.down = Loaded
    BY DEF ReadButton
  <2>3. Loaded = \E k \in {Button[reads + 1]} \cap Keys : KeyDown(k)
    BY <2>1 DEF Loaded, Asked
  <2> QED
    BY <2>2, <2>3
<1> QED
  BY <1>1, PadInvariance, PTL DEF PadSpec, ButtonsInOrder

\* A latched press of a button that the games read is given up only by the
\* load that reports it.
LEMMA StepKeepsPresses ==
  ASSUME PadInv, [PadNext]_padVars, NEW n \in 1 .. ReadCount,
         Button[n] \in Keys, strobe # "none",
         key_pressed[Button[n]], ~key_pressed'[Button[n]]
  PROVE  got' = [button |-> n, down |-> TRUE]
<1> USE JoypadAssumption, EightButtons
<1>0. n \in 1 .. 8 /\ ReadCount \in 1 .. 8
  OBVIOUS
<1>1. CASE PadLoad
  <2>1. p + 1 = n /\ p \in 0 .. MaxP - 1
    BY <1>0, <1>1, LoadConsumesOne DEF PadInv
  <2>2. phase = "reading" /\ strobe = "good" /\ p = reads
    BY <1>0, <2>1 DEF PadInv, PadTypeOK, Aligned
  <2>3. ReadButton
    BY <1>1, <2>2 DEF PadNext, Game, StrobeHigh, StrobeLow, SoundStore, InsertCart,
                      PollKeyboard, PadKeyEvent, ScancodeArrives, PollFlags, PolledPressed,
                      padVars, keyboardVars, PadInv, PadTypeOK, KeyboardTypeOK, Scancode
  <2>4. Loaded
    BY <1>0, <2>1 DEF Loaded, Asked, KeyDown
  <2> QED
    BY <2>1, <2>2, <2>3, <2>4 DEF ReadButton
<1>2. CASE ~PadLoad
  <2>1. PollFlags \/ UNCHANGED key_pressed
    BY <1>2 DEF PadNext, Game, StrobeHigh, StrobeLow, PadStore, ReadButton, SoundStore,
                InsertCart, PollKeyboard, PadKeyEvent, ScancodeArrives, padVars, keyboardVars
  <2>2. ASSUME PollFlags PROVE FALSE
    BY <2>2 DEF PollFlags, PolledPressed, PadInv, PadTypeOK, KeyboardTypeOK, Scancode
  <2> QED
    BY <2>1, <2>2
<1> QED
  BY <1>1, <1>2

THEOREM PressesAreNotLost == PadSpec => PressesReachTheGame
<1>1. PadInv /\ [PadNext]_padVars =>
        [\A n \in 1 .. ReadCount :
           /\ Button[n] \in Keys /\ strobe # "none"
           /\ key_pressed[Button[n]] /\ ~key_pressed'[Button[n]]
           => got' = [button |-> n, down |-> TRUE]]_padVars
  BY StepKeepsPresses
<1> QED
  BY <1>1, PadInvariance, PTL DEF PadSpec, PressesReachTheGame
=============================================================================

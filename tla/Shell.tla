------------------------------- MODULE Shell -------------------------------
(***************************************************************************)
(* The shell around the emulator: efi_main's endless loop (main.c), the    *)
(* user interface's state machine (ui/ui_gfx.c), the timer (driver/timer.c)*)
(* and, from Keyboard, the polled keyboard.                                *)
(*                                                                         *)
(* Three actors: the loop, which polls the keyboard, looks at the clock    *)
(* and, when a frame is due, runs one step of the user interface; the      *)
(* timer notification, which counts kernel.ticks up whenever the firmware  *)
(* likes; and the user, whose keys change the byte in the keyboard port.   *)
(* Inside PLAY a frame is one fce_run(); here all it does is to consume    *)
(* latched key presses.                                                    *)
(*                                                                         *)
(* Definitions named for a fault (NextIndexUnwrapped, MenuListensWhile-    *)
(* Loading, ...) are not part of the model: each stands before the         *)
(* definition it spoils, and shows that a property would notice.           *)
(***************************************************************************)
EXTENDS Keyboard

CONSTANTS
  Sessions,                       \* what may be on the volume, and who may sit there
  TickRange,                      \* unsigned long counts modulo this
  MaxElapsed,                     \* bound: no loop round takes more ticks
  JoypadKeys                      \* the keys that a game reads

GATE == 120 \div 60               \* TICK_PER_SECOND/NES_FPS

\* roms: what list_file_browser() found; files: what is behind each name it
\* found; keys: bound, the keys that this user presses.
ASSUME ShellAssumption ==
  /\ \A s \in Sessions :
       /\ s.roms \in Nat
       /\ s.files \in [0 .. s.roms - 1 -> {"rom", "notrom", "missing"}]
       /\ s.keys \subseteq Keys
  /\ TickRange \in Nat /\ MaxElapsed \in Nat
  /\ GATE < MaxElapsed /\ MaxElapsed < TickRange
  /\ JoypadKeys \subseteq Keys

VARIABLES
  session,                        \* never changes
  g_ui_state,
  current_rom_index,
  shown,                          \* the menu line on the screen
  cart,                           \* the ROM in the emulator's memory
  ticks,                          \* kernel.ticks
  last_frame,
  loop,                           \* where efi_main's loop is
  crashed,                        \* undefined behaviour that stops the machine
  waited,                         \* history: ticks since last_frame was set
  picked,                         \* history: the ROM named when START was released
  typed                           \* history: pressed since its last key event

uiVars == <<g_ui_state, current_rom_index, shown, cart, crashed, picked>>
clockVars == <<ticks, last_frame, waited>>
vars == <<session, keyboardVars, uiVars, clockVars, loop, typed>>

total_roms == session.roms
FileKind == session.files
Roms == 0 .. total_roms - 1

\* What the line at the bottom of the screen may show besides a ROM's name.
\* Garbage is rom_collection[-1].
Garbage == -1
Blank == -2
LoadError == -3
NoRom == -1
Leftover == -2                    \* whatever an unset buffer held was loaded

KEY_UP == 17
KEY_DOWN == 31
KEY_LEFT == 30
KEY_RIGHT == 32
KEY_START == 23
KEY_REBOOT == 19

TypeOK ==
  /\ session \in Sessions
  /\ KeyboardTypeOK
  /\ g_ui_state \in {"SPLASH", "MENU", "LOAD_ROM", "PLAY"}
  /\ current_rom_index \in Roms \cup {0, -1}
  /\ shown \in Roms \cup {0, Garbage, Blank, LoadError}
  /\ cart \in Roms \cup {NoRom, Leftover}
  /\ ticks \in 0 .. TickRange - 1
  /\ last_frame \in 0 .. TickRange - 1
  /\ loop \in {"poll", "clock", "frame"}
  /\ crashed \in BOOLEAN
  /\ waited \in 0 .. MaxElapsed
  /\ picked \in Roms \cup {0, -1}
  /\ typed \in [Keys -> BOOLEAN]

\* efi_main up to its loop: the directory has been listed and the keyboard
\* initialised; the timer has been running since before that.
Init ==
  /\ session \in Sessions
  /\ KeyboardInit /\ port.key \in session.keys
  /\ g_ui_state = "SPLASH"
  /\ current_rom_index = 0
  /\ shown = Blank
  /\ cart = NoRom
  /\ ticks \in 0 .. MaxElapsed
  /\ last_frame = 0
  /\ loop = "poll"
  /\ crashed = FALSE
  /\ waited = ticks
  /\ picked = NoRom
  /\ typed = [k \in Keys |-> port.key = k /\ ~port.release]

-----------------------------------------------------------------------------
(* The environment: the user and the timer.                                *)

KeyEvent(c) ==
  /\ c.key \in session.keys
  /\ ScancodeArrives(c)
  /\ typed' = [typed EXCEPT ![c.key] = @ \/ ~c.release]
  /\ UNCHANGED <<session, uiVars, clockVars, loop>>

\* TimerHandler.
Tick ==
  /\ waited < MaxElapsed
  /\ ticks' = IF ticks = TickRange - 1 THEN 0 ELSE ticks + 1
  /\ waited' = waited + 1
  /\ UNCHANGED <<session, keyboardVars, uiVars, last_frame, loop, typed>>

-----------------------------------------------------------------------------
(* The key handler, called from inside keyboard_poll.                      *)

NextIndexUnwrapped(i) == i + 1

NextIndex(i) == (i + 1) % total_roms
PrevIndex(i) == IF i - 1 < 0 THEN total_roms - 1 ELSE i - 1

DrawMenu(i) == shown' = i

Crash ==
  /\ crashed' = TRUE
  /\ UNCHANGED <<g_ui_state, current_rom_index, shown, cart, picked>>

MoveToDrawFirst(i) ==
  /\ current_rom_index' = i
  /\ DrawMenu(current_rom_index)
  /\ UNCHANGED <<g_ui_state, cart, crashed, picked>>

\* render_menu: every key, known or not, redraws the selected name.
MoveTo(i) ==
  /\ current_rom_index' = i
  /\ DrawMenu(i)
  /\ UNCHANGED <<g_ui_state, cart, crashed, picked>>

PickRom ==
  /\ g_ui_state' = "LOAD_ROM"
  /\ picked' = current_rom_index
  /\ DrawMenu(current_rom_index)
  /\ UNCHANGED <<current_rom_index, cart, crashed>>

RenderMenu(key) ==
  \/ /\ key \in {KEY_UP, KEY_RIGHT}
     /\ IF total_roms = 0 THEN Crash ELSE MoveTo(NextIndex(current_rom_index))
  \/ key \in {KEY_DOWN, KEY_LEFT} /\ MoveTo(PrevIndex(current_rom_index))
  \/ key = KEY_START /\ PickRom
  \/ /\ key \notin {KEY_UP, KEY_RIGHT, KEY_DOWN, KEY_LEFT, KEY_START}
     /\ MoveTo(current_rom_index)

MenuListensWhileLoading == g_ui_state \in {"MENU", "LOAD_ROM"}

MenuListens == g_ui_state = "MENU"
PlayListens(key) == g_ui_state = "PLAY" /\ key = KEY_REBOOT

UiKeyHandler(key) ==
  \/ MenuListens /\ RenderMenu(key)
  \/ /\ ~MenuListens /\ PlayListens(key)
     /\ g_ui_state' = "SPLASH"
     /\ UNCHANGED <<current_rom_index, shown, cart, crashed, picked>>
  \/ ~MenuListens /\ ~PlayListens(key) /\ UNCHANGED uiVars

-----------------------------------------------------------------------------
(* The main loop.                                                          *)

\* keyboard_poll: the port is read once; the handler runs before the flags
\* change.
Poll ==
  /\ loop = "poll" /\ ~crashed
  /\ IF HandlerDue
     THEN UiKeyHandler(port.key) /\ typed' = [typed EXCEPT ![port.key] = FALSE]
     ELSE UNCHANGED <<uiVars, typed>>
  /\ PollFlags
  /\ loop' = "clock"
  /\ UNCHANGED <<session, clockVars>>

ElapsedUnwrapped == IF ticks >= last_frame THEN ticks - last_frame ELSE 0

\* now - last_frame, in unsigned arithmetic.
Elapsed == IF ticks >= last_frame THEN ticks - last_frame
                                  ELSE ticks + TickRange - last_frame

FrameDue == Elapsed > GATE

CheckClock ==
  /\ loop = "clock" /\ ~crashed
  /\ IF FrameDue
     THEN loop' = "frame" /\ last_frame' = ticks /\ waited' = 0
     ELSE loop' = "poll" /\ UNCHANGED <<last_frame, waited>>
  /\ UNCHANGED <<session, keyboardVars, uiVars, ticks, typed>>

\* One call of ui_manage_states, for each state it may find.
FrameStep == loop = "frame" /\ ~crashed /\ loop' = "poll" /\ UNCHANGED session

\* render_splash_screen: the bitmap covers the line of the menu.
RenderSplashScreen == shown' = Blank

Splash ==
  /\ FrameStep
  /\ g_ui_state = "SPLASH"
  /\ g_ui_state' = "MENU"
  /\ RenderSplashScreen
  /\ UNCHANGED <<keyboardVars, current_rom_index, cart, crashed, picked,
                 clockVars, typed>>

IdleMenu ==
  /\ FrameStep
  /\ g_ui_state = "MENU"
  /\ UNCHANGED <<keyboardVars, uiVars, clockVars, typed>>

\* What Open and Read find under rom_collection[current_rom_index].  Without
\* a ROM the name is empty: it names nothing, or the directory itself.
FileKinds ==
  IF current_rom_index \in Roms THEN {FileKind[current_rom_index]}
                                ELSE {"notrom", "missing"}

RomLoaded(rom) ==
  /\ cart' = rom
  /\ shown' = Blank
  /\ g_ui_state' = "PLAY"
  /\ UNCHANGED <<current_rom_index, crashed, picked>>

RomRefusedRetries ==
  /\ DrawMenu(LoadError)
  /\ UNCHANGED <<g_ui_state, current_rom_index, cart, crashed, picked>>

RomRefused ==
  /\ DrawMenu(LoadError)
  /\ g_ui_state' = "MENU"
  /\ UNCHANGED <<current_rom_index, cart, crashed, picked>>

\* load_current_nes_file.  No status is looked at: when Open fails, Read goes
\* through a handle that was never set, and what is parsed is what the stack
\* and the pool happened to hold.
LoadRom(kind) ==
  /\ FrameStep
  /\ g_ui_state = "LOAD_ROM"
  /\ kind \in FileKinds
  /\ \/ kind = "rom" /\ RomLoaded(current_rom_index)
     \/ kind = "notrom" /\ RomRefused
     \/ kind = "missing" /\ (Crash \/ RomRefused \/ RomLoaded(Leftover))
  /\ UNCHANGED <<keyboardVars, clockVars, typed>>

\* fce_run: the game may read any of its keys.
PlayFrame(S) ==
  /\ FrameStep
  /\ g_ui_state = "PLAY"
  /\ ConsumePresses(S)
  /\ UNCHANGED <<uiVars, clockVars, typed>>

ManageStates ==
  \/ Splash
  \/ IdleMenu
  \/ \E kind \in {"rom", "notrom", "missing"} : LoadRom(kind)
  \/ \E S \in SUBSET JoypadKeys : PlayFrame(S)

MainLoop == Poll \/ CheckClock \/ ManageStates

Next == MainLoop \/ Tick \/ \E c \in Scancode : KeyEvent(c)

\* The loop never blocks, and the firmware keeps signalling the timer.
\* Nothing is assumed of the user.
Spec == Init /\ [][Next]_vars /\ WF_vars(MainLoop) /\ WF_vars(Tick)

-----------------------------------------------------------------------------
(* Properties.                                                             *)

\* With at least one ROM listed, and every name listed still there when it is
\* picked, nothing undefined happens: the index never leaves the list, and no
\* handle is used that was not opened.  (ui_gfx.c never checks either.)
RunsDefined ==
  crashed => \/ total_roms = 0
             \/ /\ g_ui_state = "LOAD_ROM"
                /\ current_rom_index \in Roms
                /\ FileKind[current_rom_index] = "missing"

\* The ROM that is loaded, and then played, is the one that was selected when
\* START was released, whatever keys arrive before the load's frame is due.
CartIsPicked ==
  /\ g_ui_state = "LOAD_ROM" => current_rom_index = picked
  /\ g_ui_state = "PLAY" =>
       IF picked \in Roms /\ FileKind[picked] = "rom"
       THEN cart = picked
       ELSE cart = Leftover /\ (picked \in Roms => FileKind[picked] = "missing")

\* While the user can choose, the name on the screen, if there is one, is the
\* name that START would load.
ShownIsSelected ==
  g_ui_state \in {"MENU", "LOAD_ROM"} =>
    shown \in {current_rom_index, Blank, LoadError}

\* One press of a key causes at most one key event, however often the same
\* release byte is polled and whatever other keys come in between.
OneEventPerPress ==
  [][\A k \in Keys :
       loop = "poll" /\ loop' = "clock" /\ HandlerDue /\ port.key = k => typed[k]]_vars

\* A round of the loop runs a frame exactly when more than GATE ticks have
\* really passed since the last one, also when kernel.ticks wraps around.
FrameGate ==
  [][loop = "clock" /\ loop' # "clock" => (loop' = "frame" <=> waited > GATE)]_vars

\* The two states that only the loop can leave are left: the splash screen
\* gives way to the menu, and a load ends in a game or back in the menu.
TransientStatesEnd ==
  g_ui_state \in {"SPLASH", "LOAD_ROM"} ~> g_ui_state \in {"MENU", "PLAY"} \/ crashed

\* Unless the machine is stopped, frames never cease.
FramesGoOn == <>crashed \/ []<>(loop = "frame" /\ ~crashed)

\* nes_hal.c:19: a frame is run FPS times a second, that is as soon as
\* TICK_PER_SECOND/FPS ticks have passed.
SixtyFrames ==
  [][loop = "clock" /\ waited >= GATE => loop' # "poll"]_vars
=============================================================================

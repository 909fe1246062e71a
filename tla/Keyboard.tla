------------------------------ MODULE Keyboard ------------------------------
(***************************************************************************)
(* The PS/2 keyboard driver, driver/keyboard.c.                            *)
(*                                                                         *)
(* There is no interrupt handler: the main loop reads port 0x60 whenever   *)
(* it gets round to it.  The port keeps the last scancode byte until the   *)
(* next one arrives, so a byte can be read many times, and a byte that is  *)
(* replaced before the next poll is never seen.  The driver keeps two      *)
(* flags per key: key_state, the key is down as far as the polls could     *)
(* tell, and key_pressed, a press that no game read has consumed yet.      *)
(*                                                                         *)
(* The operations below are conjoined into the actions of the modules that *)
(* call the driver: Shell (the main loop) and Joypad (the game).           *)
(***************************************************************************)
EXTENDS Integers

CONSTANT Keys                     \* the keys (make codes) the user touches

ASSUME KeysAssumption == Keys \subseteq 0..127

VARIABLES
  port,                           \* the byte that inportb(0x60) returns
  key_state,
  key_pressed

keyboardVars == <<port, key_state, key_pressed>>

\* A scancode byte: bit 7 tells a release ("break") from a press ("make").
Scancode == [key : Keys, release : BOOLEAN]

KeyboardTypeOK ==
  /\ port \in Scancode
  /\ key_state \in [Keys -> BOOLEAN]
  /\ key_pressed \in [Keys -> BOOLEAN]

\* What the port holds when the program starts is whatever was typed last.
KeyboardInit ==
  /\ port \in Scancode
  /\ key_state = [k \in Keys |-> FALSE]
  /\ key_pressed = [k \in Keys |-> FALSE]

-----------------------------------------------------------------------------
\* The keyboard controller: a new byte replaces the one in the port, polled
\* or not.  Every byte may follow every other, since the controller's own
\* buffer overflows and the firmware's driver takes bytes of its own.
ScancodeArrives(c) ==
  /\ port' = c
  /\ UNCHANGED <<key_state, key_pressed>>

\* A poll calls the event handler exactly when it sees the break code of a
\* key that it believes to be down.
HandlerDue == port.release /\ key_state[port.key]

\* The flags that a poll leaves behind.  (Two faulty variants: PolledStateKept
\* forgets to clear key_state, PolledPressedForgets clears the latched press.)
PolledStateKept == [key_state EXCEPT ![port.key] = @ \/ ~port.release]
PolledPressedForgets == [key_pressed EXCEPT ![port.key] = ~port.release]

PolledState == [key_state EXCEPT ![port.key] = ~port.release]
PolledPressed ==
  IF port.release THEN key_pressed ELSE [key_pressed EXCEPT ![port.key] = TRUE]

PollFlags ==
  /\ key_state' = PolledState
  /\ key_pressed' = PolledPressed
  /\ UNCHANGED port

\* get_key(k): what a game read of key k returns ...
KeyDown(k) == key_state[k] \/ key_pressed[k]

\* ... and its effect, for each key of a set that is read.
ConsumePresses(S) ==
  /\ key_pressed' = [k \in Keys |-> key_pressed[k] /\ k \notin S]
  /\ UNCHANGED <<port, key_state>>
=============================================================================

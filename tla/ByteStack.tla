----------------------------- MODULE ByteStack -----------------------------
(***************************************************************************)
(* What a program may rely on when it uses the processor's stack: bytes    *)
(* come back in the reverse order in which they went, and a word is two    *)
(* bytes of it, the high one below the low one.  The program must not push *)
(* more than there is room for below where it set the stack pointer, nor   *)
(* pop more than it pushed; once it has, nothing is promised until it sets *)
(* the stack pointer again.                                                *)
(***************************************************************************)
EXTENDS Integers, Sequences

CONSTANTS
  Bases,                          \* where a program sets the stack pointer
  Data,                           \* the bytes it pushes
  Words                           \* the words it pushes

VARIABLES
  base,                           \* where it last did
  stack,                          \* the bytes, the last one on top
  popped,                         \* what was popped last
  broken                          \* the program has pushed or popped too much

vars == <<base, stack, popped, broken>>

Init ==
  /\ base \in Bases /\ stack = <<>> /\ popped = 0 /\ broken = FALSE

Room(n) == Len(stack) + n <= base + 1

Push(bytes) ==
  /\ ~broken /\ Room(Len(bytes))
  /\ stack' = stack \o bytes
  /\ UNCHANGED <<base, popped, broken>>

PopByte ==
  /\ ~broken /\ Len(stack) >= 1
  /\ popped' = stack[Len(stack)]
  /\ stack' = SubSeq(stack, 1, Len(stack) - 1)
  /\ UNCHANGED <<base, broken>>

PopWord ==
  /\ ~broken /\ Len(stack) >= 2
  /\ popped' = stack[Len(stack)] + 256 * stack[Len(stack) - 1]
  /\ stack' = SubSeq(stack, 1, Len(stack) - 2)
  /\ UNCHANGED <<base, broken>>

SetPointer ==
  /\ base' \in Bases /\ stack' = <<>> /\ broken' = FALSE
  /\ UNCHANGED popped

\* Too much was pushed or popped, before or now.
Break == broken' /\ (broken \/ \E n \in 1..2 : ~Room(n) \/ Len(stack) < n)

Next ==
  \/ \E d \in Data : Push(<<d>>)
  \/ \E w \in Words : Push(<<w \div 256, w % 256>>)
  \/ PopByte \/ PopWord \/ SetPointer \/ Break

Spec == Init /\ [][Next]_vars
=============================================================================

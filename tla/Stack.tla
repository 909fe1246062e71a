------------------------------- MODULE Stack -------------------------------
(***************************************************************************)
(* Any program's use of the stack: the stack routines of cpu.c as the      *)
(* instructions and cpu_interrupt call them.  A byte is pushed by pha, php *)
(* and, after a word, by brk and the interrupt; a word by jsr, brk and the *)
(* interrupt.  The program also keeps data in the last cell of the zero    *)
(* page, next to the stack's page.                                         *)
(***************************************************************************)
EXTENDS Memory, Sequences

CONSTANTS
  Bases,                          \* what the program loads into SP (ldx, txs)
  Data,                           \* the bytes it pushes
  Words                           \* the return addresses it pushes

ASSUME StackAssumption ==
  Bases \subseteq Byte /\ Data \subseteq Byte /\ Words \subseteq Word

VARIABLES
  cpu,                            \* SP and memory
  base,                           \* history: where SP was last set
  depth,                          \* history: bytes pushed since and not popped
  popped,                         \* history: what was popped last
  broken                          \* history: pushed or popped too much since

vars == <<cpu, base, depth, popped, broken>>

Init ==
  /\ base \in Bases
  /\ \E d \in Data : cpu = [SP |-> base, mem |-> [a \in {PAGE_ONE - 1} |-> d]]
  /\ depth = 0 /\ popped = 0 /\ broken = FALSE

-----------------------------------------------------------------------------
Pushed(n) ==
  /\ depth' = depth + n
  /\ broken' = (depth + n > base + 1)
  /\ UNCHANGED <<base, popped>>

Popped(n, p) ==
  /\ popped' = p.value
  /\ cpu' = [cpu EXCEPT !.SP = p.SP]
  /\ depth' = depth - n
  /\ broken' = (depth < n)
  /\ UNCHANGED base

\* After a broken promise only a new stack pointer counts.
PushB(d) == ~broken /\ cpu' = PushByte(cpu, d) /\ Pushed(1)
PushW(w) == ~broken /\ cpu' = PushWord(cpu, w) /\ Pushed(2)
PopB == ~broken /\ Popped(1, PopByte(cpu))
PopW == ~broken /\ Popped(2, PopWord(cpu))

\* txs.
SetSP(x) ==
  /\ cpu' = [cpu EXCEPT !.SP = x]
  /\ base' = x /\ depth' = 0 /\ broken' = FALSE
  /\ UNCHANGED popped

Keep(d) ==
  /\ cpu' = [cpu EXCEPT !.mem = WriteB(@, PAGE_ONE - 1, d)]
  /\ UNCHANGED <<base, depth, popped, broken>>

Next ==
  \/ \E d \in Data : PushB(d) \/ Keep(d)
  \/ \E w \in Words : PushW(w)
  \/ PopB \/ PopW
  \/ \E x \in Bases : SetSP(x)

Spec == Init /\ [][Next]_vars

-----------------------------------------------------------------------------
(* Properties.                                                             *)

\* Types, and where SP is.
TypeOK ==
  /\ cpu.SP \in Byte
  /\ DOMAIN cpu.mem \subseteq 0..511
  /\ \A a \in DOMAIN cpu.mem : cpu.mem[a] \in Byte
  /\ base \in Bases /\ depth \in -2 .. 258 /\ popped \in Word
  /\ broken \in BOOLEAN
  /\ ~broken => depth \in 0 .. base + 1 /\ cpu.SP = (base - depth) % 256

\* The bytes on the stack, the first pushed first.
Contents == [i \in 1..depth |-> ReadB(cpu.mem, PAGE_ONE + base + 1 - i)]

B == INSTANCE ByteStack WITH stack <- IF broken THEN <<>> ELSE Contents

\* The stack routines implement ByteStack: last in, first out, for bytes and
\* words in any mixture, down to the last byte of the page (cpu.c:30-33).
StackSpec == B!Spec

\* As long as there was room, the stack stays in its page: the cell below it
\* is changed by nothing but the program's own stores.  (A word pushed with SP
\* at 0 is what would change it: cpu.c:31 takes 0xFF + SP.)
ZeroPageSafe ==
  [][ReadB(cpu'.mem, PAGE_ONE - 1) # ReadB(cpu.mem, PAGE_ONE - 1)
       => broken' \/ UNCHANGED cpu.SP]_vars
=============================================================================

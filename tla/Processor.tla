----------------------------- MODULE Processor -----------------------------
(***************************************************************************)
(* The processor at work: cpu_run executes one instruction after the       *)
(* other, and between any two of them the picture unit may call            *)
(* cpu_interrupt.  What it executes is in memory; the modules that extend  *)
(* this one put programs there whose outcome is known.                     *)
(***************************************************************************)
EXTENDS Cpu, Sequences

CONSTANTS
  Images,                         \* what memory may hold when it is switched
                                  \* on, each with a bound on its interrupts
  Deadline                        \* cycles after which every program has halted

ASSUME ProcessorAssumption ==
  /\ Deadline \in Nat
  /\ \A i \in Images :
       i.nmis \in Nat /\ DOMAIN i.mem \subseteq Word /\ i.mem \in [DOMAIN i.mem -> Byte]

VARIABLES
  cpu,
  spent,                          \* cycles booked so far (cpu_cycles, upwards)
  nmis,                           \* interrupts that may still come
  interrupted                     \* history: the registers at each interrupt
                                  \* that has not returned yet
vars == <<cpu, spent, nmis, interrupted>>

Registers(c) == [A |-> c.A, X |-> c.X, Y |-> c.Y, SP |-> c.SP, P |-> c.P, PC |-> c.PC]

\* Registers keep to the widths of their types in C, addresses to the 64 KiB
\* that there are, but for that of an operand before it is truncated.
TypeOK ==
  /\ cpu.A \in Byte /\ cpu.X \in Byte /\ cpu.Y \in Byte
  /\ cpu.SP \in Byte /\ cpu.P \in Byte /\ cpu.PC \in Word
  /\ cpu.op_value \in Byte
  /\ cpu.op_address \in Addresses
  /\ cpu.op_cycles \in 0..1
  /\ DOMAIN cpu.mem \subseteq Word /\ cpu.mem \in [DOMAIN cpu.mem -> Byte]
  /\ spent \in Nat /\ nmis \in Nat
  /\ interrupted \in Seq([A : Byte, X : Byte, Y : Byte, SP : Byte, P : Byte, PC : Word])

Init ==
  /\ \E i \in Images : cpu = PoweredOn(i.mem) /\ nmis = i.nmis
  /\ spent = 0
  /\ interrupted = <<>>

\* The rti that ends the interrupt that came last: it finds its three bytes.
Returns ==
  /\ interrupted # <<>>
  /\ OpcodeAt(cpu) = 64
  /\ cpu.SP = (Head(interrupted).SP + 253) % 256

\* A program that does nothing any more: it jumps to itself.
Halted ==
  /\ interrupted = <<>>
  /\ OpcodeAt(cpu) = 76
  /\ ReadW(cpu.mem, cpu.PC + 1) = cpu.PC

\* One round of cpu_run.  (The cycles of a halted program are not counted.)
Instruction ==
  /\ cpu' = Executed(cpu)
  /\ spent' = IF Halted THEN spent ELSE spent + Booked(cpu, cpu')
  /\ interrupted' = IF Returns THEN Tail(interrupted) ELSE interrupted
  /\ UNCHANGED nmis

Nmi ==
  /\ nmis > 0
  /\ cpu' = Interrupted(cpu)
  /\ interrupted' = <<Registers(cpu)>> \o interrupted
  /\ nmis' = nmis - 1
  /\ UNCHANGED spent

Next == Instruction \/ Nmi

Spec == Init /\ [][Next]_vars

-----------------------------------------------------------------------------
(* Properties of every program.                                            *)

\* The arithmetic flags, those that a game can branch on.
ArithmeticFlags(P) == [i \in {carry, zero, overflow, negative} |-> BitAt(P, i)]

\* An interrupt whose handler saves A, X and Y leaves no trace: the program
\* goes on where it was, with the same stack and arithmetic flags.  (Not with
\* the same interrupt flag: cpu_interrupt raises it before it pushes P.)
InterruptsLeaveNoTrace ==
  [][Returns /\ Instruction =>
       LET before == Head(interrupted) IN
       /\ [Registers(cpu') EXCEPT !.P = 0] = [before EXCEPT !.P = 0]
       /\ ArithmeticFlags(cpu'.P) = ArithmeticFlags(before.P)]_vars

\* Every program gets to its end, whatever interrupts it: it never leaves its
\* code, and no loop of it runs longer than it should.
EndsInTime == spent <= Deadline
=============================================================================

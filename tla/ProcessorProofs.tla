-------------------------- MODULE ProcessorProofs --------------------------
(***************************************************************************)
(* Proofs about Processor, for any contents of memory, hence any program,  *)
(* and any interrupts: its types; that interrupts and subroutines return   *)
(* to where they were called; that additions, subtractions and shifts of   *)
(* bytes, chained by the carry, are those of words; and that a combined    *)
(* operation is the two that it combines.                                  *)
(*                                                                         *)
(* CpuState is inductive, with one lemma for each operation, addressing    *)
(* mode and group of rows of the table of opcodes.  The provers do not     *)
(* cope with large numerals next to records, so the arithmetic is done in  *)
(* lemmas about plain integers, and records are changed by the Updated     *)
(* lemmas.                                                                 *)
(***************************************************************************)
EXTENDS Processor, SequenceTheorems, TLAPS

-----------------------------------------------------------------------------
(* Widths.                                                                 *)

LEMMA Powers ==
  /\ 2^0 = 1 /\ 2^1 = 2 /\ 2^2 = 4 /\ 2^3 = 8 /\ 2^4 = 16
  /\ 2^5 = 32 /\ 2^6 = 64 /\ 2^7 = 128 /\ 2^8 = 256
OBVIOUS

LEMMA ByteIs == \A n : n \in Byte <=> n \in Int /\ 0 <= n /\ n <= 255
BY DEF Byte

LEMMA InWord == \A n \in Word : n \in Int /\ 0 <= n /\ n <= 65535
BY SMTT(30) DEF Word

LEMMA WordOfBytes == \A low, high \in Byte : low + 256 * high \in Word
BY SMTT(30) DEF Byte, Word

\* The provers take more easily to bounds than to so long a range.
LEMMA WordIs == \A n : n \in Word <=> n \in Int /\ 0 <= n /\ n <= 65535
<1>1. ASSUME NEW n \in Int, 0 <= n, n <= 65535
      PROVE  n \in Word
  <2>1. n % 256 \in Byte /\ n \div 256 \in Byte
    BY <1>1, ByteIs
  <2>2. (n % 256) + 256 * (n \div 256) \in Word
    BY <2>1, WordOfBytes
  <2>3. n = (n % 256) + 256 * (n \div 256)
    OBVIOUS
  <2> QED
    BY <2>2, <2>3, Zenon
<1> QED
  BY <1>1, InWord

LEMMA Wide == Byte \subseteq Int /\ Word \subseteq Int /\ Byte \subseteq Word
BY ByteIs, WordIs

LEMMA BytesOfWord ==
  ASSUME NEW d \in Word
  PROVE  d % 256 \in Byte /\ d \div 256 \in Byte /\ d = (d % 256) + 256 * (d \div 256)
BY ByteIs, WordIs

LEMMA Truncated ==
  ASSUME NEW a \in Int
  PROVE  a % 65536 \in Word /\ a % 256 \in Byte
BY ByteIs, WordIs

-----------------------------------------------------------------------------
(* Memory.                                                                 *)

LEMMA MemoryIs ==
  ASSUME NEW m
  PROVE  m \in Memories <=> DOMAIN m \subseteq Word /\ m \in [DOMAIN m -> Byte]
<1>1. ASSUME m \in Memories PROVE DOMAIN m \subseteq Word /\ m \in [DOMAIN m -> Byte]
  <2>1. PICK S \in SUBSET Word : m \in [S -> Byte]
    BY <1>1 DEF Memories
  <2> QED
    BY <2>1
<1>2. ASSUME DOMAIN m \subseteq Word, m \in [DOMAIN m -> Byte] PROVE m \in Memories
  BY <1>2 DEF Memories
<1> QED
  BY <1>1, <1>2

LEMMA ReadBType ==
  ASSUME NEW m \in Memories, NEW a
  PROVE  ReadB(m, a) \in Byte
<1>1. 0 \in Byte
  BY ByteIs
<1> QED
  BY <1>1, MemoryIs DEF ReadB

LEMMA CellType == \A a \in Word : Cell(a) \in Word
BY WordIs DEF Cell

LEMMA WriteBType ==
  ASSUME NEW m \in Memories, NEW a \in Word, NEW d \in Byte
  PROVE  WriteB(m, a, d) \in Memories
<1> DEFINE w == [x \in DOMAIN m \cup {Cell(a)} |-> IF x = Cell(a) THEN d ELSE m[x]]
<1>1. Cell(a) \in Word
  BY CellType
<1>2. DOMAIN m \subseteq Word /\ m \in [DOMAIN m -> Byte]
  BY MemoryIs
<1>3. w \in [DOMAIN m \cup {Cell(a)} -> Byte]
  BY <1>2
<1>4. w \in Memories
  <2> HIDE DEF w
  <2> QED
    BY <1>1, <1>2, <1>3 DEF Memories
<1> QED
  BY <1>4 DEF WriteB

LEMMA ReadWType ==
  ASSUME NEW m \in Memories, NEW a
  PROVE  ReadW(m, a) \in Word
BY ReadBType, WordOfBytes DEF ReadW

LEMMA WriteWType ==
  ASSUME NEW m \in Memories, NEW a \in Word, NEW d \in Word
  PROVE  WriteW(m, a, d) \in Memories
<1>1. WriteB(m, a, d % 256) \in Memories
  BY BytesOfWord, WriteBType
<1>2. (a + 1) % 65536 \in Word /\ d \div 256 \in Byte
  BY Wide, Truncated, BytesOfWord
<1> QED
  BY <1>1, <1>2, WriteBType DEF WriteW

-----------------------------------------------------------------------------
(* Bits.                                                                   *)

\* The bits of v, with their weights written out.
LEMMA BitsAre ==
  ASSUME NEW v \in Int
  PROVE  /\ BitAt(v, 0) = v % 2 /\ BitAt(v, 1) = (v \div 2) % 2
         /\ BitAt(v, 2) = (v \div 4) % 2 /\ BitAt(v, 3) = (v \div 8) % 2
         /\ BitAt(v, 4) = (v \div 16) % 2 /\ BitAt(v, 5) = (v \div 32) % 2
         /\ BitAt(v, 6) = (v \div 64) % 2 /\ BitAt(v, 7) = (v \div 128) % 2
         /\ BitAt(v, 8) = (v \div 256) % 2
<1>1. v \div 1 = v
  OBVIOUS
<1> QED
  BY <1>1, Powers DEF BitAt

LEMMA BitType ==
  ASSUME NEW v \in Int, NEW i \in 0..8
  PROVE  BitAt(v, i) \in 0..1
<1>1. \A n \in Int : n % 2 \in 0..1
  OBVIOUS
<1>2. 2^i \in Nat \ {0}
  <2>1. \/ i = 0 \/ i = 1 \/ i = 2 \/ i = 3 \/ i = 4 \/ i = 5 \/ i = 6 \/ i = 7 \/ i = 8
    OBVIOUS
  <2>2. /\ 2^0 \in Nat \ {0} /\ 2^1 \in Nat \ {0} /\ 2^2 \in Nat \ {0} /\ 2^3 \in Nat \ {0}
        /\ 2^4 \in Nat \ {0} /\ 2^5 \in Nat \ {0} /\ 2^6 \in Nat \ {0} /\ 2^7 \in Nat \ {0}
        /\ 2^8 \in Nat \ {0}
    OBVIOUS
  <2> QED
    BY <2>1, <2>2, Zenon
<1>3. \A n \in Nat \ {0} : v \div n \in Int
  OBVIOUS
<1> QED
  BY <1>1, <1>2, <1>3 DEF BitAt

LEMMA FromBitsType ==
  ASSUME NEW f \in [0..7 -> 0..1]
  PROVE  FromBits(f) \in Byte
<1>1. \A k \in 0..7 : f[k] \in Int /\ 0 <= f[k] /\ f[k] <= 1
  OBVIOUS
<1> DEFINE n == f[0] + 2 * f[1] + 4 * f[2] + 8 * f[3]
           m == f[4] + 2 * f[5] + 4 * f[6] + 8 * f[7]
<1>2. n \in Int /\ 0 <= n /\ n <= 15
  <2>1. /\ f[0] \in Int /\ f[1] \in Int /\ f[2] \in Int /\ f[3] \in Int
        /\ 0 <= f[0] /\ 0 <= f[1] /\ 0 <= f[2] /\ 0 <= f[3]
        /\ f[0] <= 1 /\ f[1] <= 1 /\ f[2] <= 1 /\ f[3] <= 1
    BY <1>1
  <2> QED
    BY <2>1
<1>3. m \in Int /\ 0 <= m /\ m <= 15
  <2>1. /\ f[4] \in Int /\ f[5] \in Int /\ f[6] \in Int /\ f[7] \in Int
        /\ 0 <= f[4] /\ 0 <= f[5] /\ 0 <= f[6] /\ 0 <= f[7]
        /\ f[4] <= 1 /\ f[5] <= 1 /\ f[6] <= 1 /\ f[7] <= 1
    BY <1>1
  <2> QED
    BY <2>1
<1>4. FromBits(f) = n + 16 * m
  <2>1. /\ f[0] \in Int /\ f[1] \in Int /\ f[2] \in Int /\ f[3] \in Int
        /\ f[4] \in Int /\ f[5] \in Int /\ f[6] \in Int /\ f[7] \in Int
    BY <1>1
  <2> QED
    BY <2>1 DEF FromBits
<1> HIDE DEF n, m
<1> QED
  BY <1>2, <1>3, <1>4, ByteIs

\* A byte is the sum of its bits.
LEMMA ByteIsItsBits ==
  ASSUME NEW v \in Byte
  PROVE  v = FromBits([i \in 0..7 |-> BitAt(v, i)])
<1> DEFINE f == [i \in 0..7 |-> BitAt(v, i)]
<1>0. v \in Int /\ v >= 0 /\ v <= 255
  BY ByteIs
<1>1. /\ f[0] = v % 2 /\ f[1] = (v \div 2) % 2 /\ f[2] = (v \div 4) % 2 /\ f[3] = (v \div 8) % 2
      /\ f[4] = (v \div 16) % 2 /\ f[5] = (v \div 32) % 2 /\ f[6] = (v \div 64) % 2
      /\ f[7] = (v \div 128) % 2
  BY <1>0, BitsAre
<1> HIDE DEF f
<1>2. v = (v % 2) + 2 * ((v \div 2) % 2) + 4 * ((v \div 4) % 2) + 8 * ((v \div 8) % 2)
          + 16 * ((v \div 16) % 2) + 32 * ((v \div 32) % 2) + 64 * ((v \div 64) % 2)
          + 128 * ((v \div 128) % 2)
  BY <1>0
<1> QED
  BY <1>1, <1>2 DEF FromBits, f

\* What And, Or and Xor make of each pair of bits.
LEMMA BitwiseType ==
  ASSUME NEW a \in Int, NEW b \in Int
  PROVE  And(a, b) \in Byte /\ Or(a, b) \in Byte /\ Xor(a, b) \in Byte
<1>1. \A i \in 0..7 : BitAt(a, i) \in 0..1 /\ BitAt(b, i) \in 0..1
  BY BitType
<1>2. \A u, v \in 0..1 : u * v \in 0..1 /\ (u + v) % 2 \in 0..1
  OBVIOUS
<1>3. [i \in 0..7 |-> BitAt(a, i) * BitAt(b, i)] \in [0..7 -> 0..1]
  BY <1>1, <1>2
<1>4. [i \in 0..7 |-> IF BitAt(a, i) + BitAt(b, i) > 0 THEN 1 ELSE 0] \in [0..7 -> 0..1]
  OBVIOUS
<1>5. [i \in 0..7 |-> (BitAt(a, i) + BitAt(b, i)) % 2] \in [0..7 -> 0..1]
  BY <1>1, <1>2
<1> QED
  BY <1>3, <1>4, <1>5, FromBitsType DEF And, Or, Xor

\* FromBits and BitAt are each other's inverse.
LEMMA BitOfBits ==
  ASSUME NEW f \in [0..7 -> 0..1], NEW i \in 0..7
  PROVE  BitAt(FromBits(f), i) = f[i]
<1>1. \A k \in 0..7 : f[k] \in Int /\ 0 <= f[k] /\ f[k] <= 1
  OBVIOUS
<1>2. PICK u7 \in Int : u7 = f[7]
  BY <1>1
<1>3. PICK u6 \in Int : u6 = f[6] + 2 * u7
  BY <1>1
<1>4. PICK u5 \in Int : u5 = f[5] + 2 * u6
  BY <1>1
<1>5. PICK u4 \in Int : u4 = f[4] + 2 * u5
  BY <1>1
<1>6. PICK u3 \in Int : u3 = f[3] + 2 * u4
  BY <1>1
<1>7. PICK u2 \in Int : u2 = f[2] + 2 * u3
  BY <1>1
<1>8. PICK u1 \in Int : u1 = f[1] + 2 * u2
  BY <1>1
<1>9. PICK u0 \in Int : u0 = f[0] + 2 * u1
  BY <1>1
<1>10. FromBits(f) = u0
  BY <1>1, <1>2, <1>3, <1>4, <1>5, <1>6, <1>7, <1>8, <1>9 DEF FromBits
<1>11. \A b, u, v \in Int : 0 <= b /\ b <= 1 /\ v = b + 2 * u => v \div 2 = u /\ v % 2 = b
  OBVIOUS
<1>12. /\ u0 \div 2 = u1 /\ u1 \div 2 = u2 /\ u2 \div 2 = u3 /\ u3 \div 2 = u4
       /\ u4 \div 2 = u5 /\ u5 \div 2 = u6 /\ u6 \div 2 = u7
  <2>1. u0 \div 2 = u1
    BY <1>1, <1>9, <1>11
  <2>7. u1 \div 2 = u2
    BY <1>1, <1>8, <1>11
  <2>2. u2 \div 2 = u3
    BY <1>1, <1>7, <1>11
  <2>5. u3 \div 2 = u4
    BY <1>1, <1>6, <1>11
  <2>3. u4 \div 2 = u5
    BY <1>1, <1>5, <1>11
  <2>6. u5 \div 2 = u6
    BY <1>1, <1>4, <1>11
  <2>4. u6 \div 2 = u7
    BY <1>1, <1>3, <1>11
  <2> QED
    BY <2>1, <2>2, <2>3, <2>4, <2>5, <2>6, <2>7
<1>13. /\ u0 % 2 = f[0] /\ u1 % 2 = f[1] /\ u2 % 2 = f[2] /\ u3 % 2 = f[3]
       /\ u4 % 2 = f[4] /\ u5 % 2 = f[5] /\ u6 % 2 = f[6] /\ u7 % 2 = f[7]
  <2>1. u0 % 2 = f[0]
    BY <1>1, <1>9, <1>11
  <2>2. u1 % 2 = f[1]
    BY <1>1, <1>8, <1>11
  <2>3. u2 % 2 = f[2]
    BY <1>1, <1>7, <1>11
  <2>4. u3 % 2 = f[3]
    BY <1>1, <1>6, <1>11
  <2>5. u4 % 2 = f[4]
    BY <1>1, <1>5, <1>11
  <2>6. u5 % 2 = f[5]
    BY <1>1, <1>4, <1>11
  <2>7. u6 % 2 = f[6]
    BY <1>1, <1>3, <1>11
  <2>8. u7 % 2 = f[7]
    BY <1>1, <1>2
  <2> QED
    BY <2>1, <2>2, <2>3, <2>4, <2>5, <2>6, <2>7, <2>8
<1>14. /\ u0 \div 4 = u2 /\ u0 \div 8 = u3 /\ u0 \div 16 = u4
       /\ u0 \div 32 = u5 /\ u0 \div 64 = u6 /\ u0 \div 128 = u7
  <2>1. u0 \div 4 = (u0 \div 2) \div 2 /\ u0 \div 8 = (u0 \div 4) \div 2
    OBVIOUS
  <2>2. u0 \div 16 = (u0 \div 8) \div 2 /\ u0 \div 32 = (u0 \div 16) \div 2
    OBVIOUS
  <2>3. u0 \div 64 = (u0 \div 32) \div 2 /\ u0 \div 128 = (u0 \div 64) \div 2
    OBVIOUS
  <2> QED
    BY <1>12, <2>1, <2>2, <2>3
<1>15. /\ BitAt(u0, 0) = f[0] /\ BitAt(u0, 1) = f[1] /\ BitAt(u0, 2) = f[2] /\ BitAt(u0, 3) = f[3]
       /\ BitAt(u0, 4) = f[4] /\ BitAt(u0, 5) = f[5] /\ BitAt(u0, 6) = f[6] /\ BitAt(u0, 7) = f[7]
  <2>1. BitAt(u0, 0) = u0 % 2 /\ BitAt(u0, 1) = (u0 \div 2) % 2
    BY BitsAre
  <2>3. BitAt(u0, 2) = (u0 \div 4) % 2 /\ BitAt(u0, 3) = (u0 \div 8) % 2
    BY BitsAre
  <2>4. BitAt(u0, 4) = (u0 \div 16) % 2 /\ BitAt(u0, 5) = (u0 \div 32) % 2
    BY BitsAre
  <2>5. BitAt(u0, 6) = (u0 \div 64) % 2 /\ BitAt(u0, 7) = (u0 \div 128) % 2
    BY BitsAre
  <2>2. /\ BitAt(u0, 0) = u0 % 2 /\ BitAt(u0, 1) = u1 % 2 /\ BitAt(u0, 2) = u2 % 2
        /\ BitAt(u0, 3) = u3 % 2 /\ BitAt(u0, 4) = u4 % 2 /\ BitAt(u0, 5) = u5 % 2
        /\ BitAt(u0, 6) = u6 % 2 /\ BitAt(u0, 7) = u7 % 2
    BY <2>1, <2>3, <2>4, <2>5, <1>12, <1>14
  <2> QED
    BY <2>2, <1>13, Zenon
<1>16. \/ i = 0 \/ i = 1 \/ i = 2 \/ i = 3 \/ i = 4 \/ i = 5 \/ i = 6 \/ i = 7
  OBVIOUS
<1> QED
  BY <1>10, <1>15, <1>16

LEMMA ModifyType ==
  ASSUME NEW P \in Int, NEW f
  PROVE  Modify(P, f) \in Byte
<1> DEFINE bits == [i \in 0..7 |-> IF <<i, TRUE>> \in f THEN 1
                                   ELSE IF <<i, FALSE>> \in f THEN 0 ELSE BitAt(P, i)]
<1>1. bits \in [0..7 -> 0..1]
  BY BitType
<1> HIDE DEF bits
<1>2. FromBits(bits) \in Byte
  BY <1>1, FromBitsType
<1> QED
  BY <1>2 DEF Modify, bits

-----------------------------------------------------------------------------
(* The record that is the processor's state.                               *)

LEMMA AddressesAre == \A n : n \in Addresses <=> n \in Int /\ -128 <= n /\ n <= 65790
<1>1. 2^16 = 65536 /\ 2^8 = 256
  OBVIOUS
<1> QED
  BY <1>1 DEF Addresses

LEMMA Fields ==
  ASSUME NEW c \in CpuState
  PROVE  /\ c.A \in Byte /\ c.X \in Byte /\ c.Y \in Byte /\ c.SP \in Byte /\ c.P \in Byte
         /\ c.PC \in Word /\ c.op_value \in Byte /\ c.op_address \in Addresses
         /\ c.op_cycles \in 0..1 /\ c.mem \in Memories
BY DEF CpuState

LEMMA Numbers ==
  ASSUME NEW c \in CpuState
  PROVE  /\ c.A \in Int /\ c.X \in Int /\ c.Y \in Int /\ c.SP \in Int /\ c.P \in Int
         /\ c.PC \in Int /\ c.op_value \in Int /\ c.op_address \in Int
BY Fields, ByteIs, WordIs, AddressesAre

LEMMA UpdatedA == \A c \in CpuState, v \in Byte : [c EXCEPT !.A = v] \in CpuState
BY DEF CpuState

LEMMA UpdatedX == \A c \in CpuState, v \in Byte : [c EXCEPT !.X = v] \in CpuState
BY DEF CpuState

LEMMA UpdatedY == \A c \in CpuState, v \in Byte : [c EXCEPT !.Y = v] \in CpuState
BY DEF CpuState

LEMMA UpdatedSP == \A c \in CpuState, v \in Byte : [c EXCEPT !.SP = v] \in CpuState
BY DEF CpuState

LEMMA UpdatedP == \A c \in CpuState, v \in Byte : [c EXCEPT !.P = v] \in CpuState
BY DEF CpuState

LEMMA UpdatedPC == \A c \in CpuState, v \in Word : [c EXCEPT !.PC = v] \in CpuState
BY DEF CpuState

LEMMA UpdatedValue == \A c \in CpuState, v \in Byte : [c EXCEPT !.op_value = v] \in CpuState
BY DEF CpuState

LEMMA UpdatedCycles == \A c \in CpuState, n \in 0..1 : [c EXCEPT !.op_cycles = n] \in CpuState
BY DEF CpuState

LEMMA UpdatedMemory == \A c \in CpuState, m \in Memories : [c EXCEPT !.mem = m] \in CpuState
BY DEF CpuState

LEMMA UpdatedStack ==
  \A c \in CpuState, m \in Memories, v \in Byte : [c EXCEPT !.mem = m, !.SP = v] \in CpuState
BY DEF CpuState

LEMMA FlagType ==
  ASSUME NEW c \in CpuState, NEW i \in 0..7
  PROVE  Flag(c, i) \in 0..1
<1>1. c.P \in Int
  BY Numbers
<1> QED
  BY <1>1, BitType DEF Flag

LEMMA FlaggedType ==
  ASSUME NEW c \in CpuState, NEW f
  PROVE  Flagged(c, f) \in CpuState
<1>1. Modify(c.P, f) \in Byte
  BY Numbers, ModifyType
<1> QED
  BY <1>1, UpdatedP DEF Flagged

LEMMA LoadType ==
  ASSUME NEW c \in CpuState, NEW v \in Byte, NEW r \in {"A", "X", "Y", "op_value"}
  PROVE  Load(c, r, v) \in CpuState
<1> DEFINE d == Flagged(c, ZN(v))
<1>1. d \in CpuState
  BY FlaggedType
<1> HIDE DEF d
<1>2. /\ [d EXCEPT !.A = v] \in CpuState /\ [d EXCEPT !.X = v] \in CpuState
      /\ [d EXCEPT !.Y = v] \in CpuState /\ [d EXCEPT !.op_value = v] \in CpuState
  BY <1>1, UpdatedA, UpdatedX, UpdatedY, UpdatedValue
<1>3. Load(c, r, v) = [d EXCEPT ![r] = v]
  BY DEF Load, d
<1> QED
  BY <1>2, <1>3

LEMMA StoreType ==
  ASSUME NEW c \in CpuState, NEW v \in Byte
  PROVE  Store(c, v) \in CpuState
<1>1. c.op_address % 65536 \in Word
  BY Numbers, WordIs
<1>2. WriteB(c.mem, c.op_address % 65536, v) \in Memories
  BY <1>1, Fields, WriteBType
<1> QED
  BY <1>2, UpdatedMemory DEF Store

LEMMA PushByteType ==
  ASSUME NEW c \in CpuState, NEW d \in Byte
  PROVE  PushByte(c, d) \in CpuState
<1>1. PAGE_ONE + c.SP \in Word /\ (c.SP + 255) % 256 \in Byte
  BY Fields, ByteIs, WordIs DEF PAGE_ONE
<1>2. WriteB(c.mem, PAGE_ONE + c.SP, d) \in Memories
  BY <1>1, Fields, WriteBType
<1> DEFINE m == WriteB(c.mem, PAGE_ONE + c.SP, d)
           v == (c.SP + 255) % 256
<1>3. PushByte(c, d) = [c EXCEPT !.mem = m, !.SP = v]
  BY DEF PushByte
<1>4. m \in Memories /\ v \in Byte
  BY <1>1, <1>2
<1> HIDE DEF m, v
<1> QED
  BY <1>3, <1>4, UpdatedStack

LEMMA PushWordType ==
  ASSUME NEW c \in CpuState, NEW d \in Word
  PROVE  PushWord(c, d) \in CpuState
<1>1. PAGE_ONE - 1 + c.SP \in Word /\ (c.SP + 254) % 256 \in Byte
  BY Fields, ByteIs, WordIs DEF PAGE_ONE
<1>2. WriteW(c.mem, PAGE_ONE - 1 + c.SP, d) \in Memories
  BY <1>1, Fields, WriteWType
<1> DEFINE m == WriteW(c.mem, PAGE_ONE - 1 + c.SP, d)
           v == (c.SP + 254) % 256
<1>3. PushWord(c, d) = [c EXCEPT !.mem = m, !.SP = v]
  BY DEF PushWord
<1>4. m \in Memories /\ v \in Byte
  BY <1>1, <1>2
<1> HIDE DEF m, v
<1> QED
  BY <1>3, <1>4, UpdatedStack

LEMMA PopType ==
  ASSUME NEW c, c.SP \in Byte, c.mem \in Memories
  PROVE  /\ PopByte(c).value \in Byte /\ PopByte(c).SP \in Byte
         /\ PopWord(c).value \in Word /\ PopWord(c).SP \in Byte
<1>1. (c.SP + 1) % 256 \in Byte /\ (c.SP + 2) % 256 \in Byte
  BY ByteIs
<1> QED
  BY <1>1, ReadBType, ReadWType DEF PopByte, PopWord

-----------------------------------------------------------------------------
(* Operations.                                                             *)

LEMMA ShiftedType ==
  ASSUME NEW v \in Byte, NEW in \in 0..1, NEW kind \in {"asl", "lsr", "rol", "ror"}
  PROVE  Shifted(kind, v, in).value \in Byte
<1>1. v \in Int /\ 0 <= v /\ v <= 255
  BY ByteIs
<1>2. (2 * v) % 256 \in Byte /\ v \div 2 \in Byte
  BY <1>1, ByteIs
<1>3. ((2 * v) % 256) + in \in Byte
  <2>1. ((2 * v) % 256) + 1 <= 255
    BY <1>1
  <2> QED
    BY <1>1, <2>1, ByteIs
<1>4. (v \div 2) + 128 * in \in Byte
  BY <1>1, ByteIs
<1> QED
  BY <1>2, <1>3, <1>4 DEF Shifted

LEMMA ShiftType ==
  ASSUME NEW c \in CpuState, NEW kind \in {"asl", "lsr", "rol", "ror"}
  PROVE  Shift(kind, c) \in CpuState /\ ShiftA(kind, c) \in CpuState
<1>0. Flag(c, carry) \in 0..1
  BY FlagType DEF carry
<1> DEFINE s == Shifted(kind, c.op_value, Flag(c, carry))
           t == Shifted(kind, c.A, Flag(c, carry))
<1>1. s.value \in Byte /\ t.value \in Byte
  BY <1>0, Fields, ShiftedType
<1> HIDE DEF s, t
<1>2. Load(Flagged(c, {<<carry, s.out>>}), "op_value", s.value) \in CpuState
  BY <1>1, FlaggedType, LoadType
<1>3. Load(Flagged(c, {<<carry, t.out>>}), "A", t.value) \in CpuState
  BY <1>1, FlaggedType, LoadType
<1> QED
  BY <1>1, <1>2, <1>3, StoreType DEF Shift, ShiftA, s, t

LEMMA ArithmeticType ==
  ASSUME NEW c \in CpuState
  PROVE  Adc(c) \in CpuState /\ Sbc(c) \in CpuState
<1>0. Flag(c, carry) \in Int
  BY FlagType DEF carry
<1>1. c.A \in Int /\ c.op_value \in Int
  BY Numbers
<1>2. /\ (c.A + c.op_value + Flag(c, carry)) % 256 \in Byte
      /\ (c.A - c.op_value - (1 - Flag(c, carry))) % 256 \in Byte
  BY <1>0, <1>1, ByteIs
<1> QED
  BY <1>2, FlaggedType, LoadType DEF Adc, Sbc

LEMMA SteppedType ==
  ASSUME NEW c \in CpuState, NEW by \in {1, -1}
  PROVE  Step(c, by) \in CpuState /\ SteppedOperand(c, by) \in CpuState
<1>1. c.op_value \in Int
  BY Numbers
<1>2. (c.op_value + by) % 256 \in Byte
  BY <1>1, ByteIs
<1> QED
  BY <1>2, FlaggedType, StoreType, UpdatedValue DEF Step, SteppedOperand

LEMMA JumpType ==
  ASSUME NEW c \in CpuState
  PROVE  Jump(c) \in CpuState
<1>1. c.op_address % 65536 \in Word
  BY Numbers, WordIs
<1> QED
  BY <1>1, UpdatedPC DEF Jump

LEMMA CallType ==
  ASSUME NEW c \in CpuState
  PROVE  Jsr(c) \in CpuState /\ Rts(c) \in CpuState /\ Brk(c) \in CpuState
<1>1. (c.PC + 65535) % 65536 \in Word
  BY Numbers, WordIs
<1>2. Jsr(c) \in CpuState
  BY <1>1, PushWordType, JumpType DEF Jsr
<1>3. Rts(c) \in CpuState
  <2> DEFINE w == PopWord(c)
  <2>1. w.value \in Word /\ w.SP \in Byte
    BY Fields, PopType
  <2> HIDE DEF w
  <2> DEFINE pc == (w.value + 1) % 65536
  <2>2. pc \in Word
    BY <2>1, WordIs
  <2>3. Rts(c) = [c EXCEPT !.PC = pc, !.SP = w.SP]
    BY DEF Rts, w
  <2> HIDE DEF pc
  <2>4. [c EXCEPT !.PC = pc, !.SP = w.SP] \in CpuState
    BY <2>1, <2>2 DEF CpuState
  <2> QED
    BY <2>3, <2>4, Zenon
<1>4. Brk(c) \in CpuState
  <2> DEFINE pushed == PushByte(PushWord(c, (c.PC + 65535) % 65536), c.P)
  <2>1. pushed \in CpuState
    BY <1>1, Fields, PushWordType, PushByteType
  <2> HIDE DEF pushed
  <2>2. ReadW(pushed.mem, NMI_VECTOR) \in Word
    BY <2>1, Fields, ReadWType
  <2>3. Flagged(pushed, {<<unused, TRUE>>, <<break, TRUE>>}) \in CpuState
    BY <2>1, FlaggedType
  <2>4. Brk(c) = [Flagged(pushed, {<<unused, TRUE>>, <<break, TRUE>>})
                    EXCEPT !.PC = ReadW(pushed.mem, NMI_VECTOR)]
    BY DEF Brk, pushed
  <2> QED
    BY <2>2, <2>3, <2>4, UpdatedPC
<1> QED
  BY <1>2, <1>3, <1>4

LEMMA PulledType ==
  ASSUME NEW c \in CpuState
  PROVE  Rti(c) \in CpuState /\ Pla(c) \in CpuState /\ Plp(c) \in CpuState
<1> DEFINE b == PopByte(c)
           d == [c EXCEPT !.SP = b.SP]
           w == PopWord(d)
<1>1. b.value \in Byte /\ b.SP \in Byte
  BY Fields, PopType
<1> HIDE DEF b
<1>2. d \in CpuState
  BY <1>1, UpdatedSP
<1> HIDE DEF d
<1>3. w.value \in Word /\ w.SP \in Byte
  BY <1>2, Fields, PopType
<1> HIDE DEF w
<1>4. Or(b.value, 32) \in Byte /\ Or(And(b.value, 239), 32) \in Byte
  <2>1. b.value \in Int /\ 239 \in Int /\ 32 \in Int
    BY <1>1, ByteIs
  <2>2. And(b.value, 239) \in Int
    BY <2>1, BitwiseType, ByteIs
  <2> QED
    BY <2>1, <2>2, BitwiseType
<1>5. Rti(c) \in CpuState
  <2>1. Rti(c) = [c EXCEPT !.P = Or(b.value, 32), !.PC = w.value, !.SP = w.SP]
    BY DEF Rti, b, d, w
  <2> QED
    BY <1>3, <1>4, <2>1 DEF CpuState
<1>6. Pla(c) \in CpuState
  BY <1>1, <1>2, LoadType DEF Pla, b, d
<1>7. Plp(c) \in CpuState
  <2> DEFINE p == Or(And(b.value, 239), 32)
  <2>1. Plp(c) = [c EXCEPT !.SP = b.SP, !.P = p]
    BY DEF Plp, b
  <2>2. p \in Byte
    BY <1>4
  <2> HIDE DEF p
  <2>3. Plp(c) = [d EXCEPT !.P = p]
    BY <2>1 DEF d
  <2> QED
    BY <1>2, <2>2, <2>3, UpdatedP
<1> QED
  BY <1>5, <1>6, <1>7

LEMMA LogicType ==
  ASSUME NEW c \in CpuState
  PROVE  /\ And(c.A, c.op_value) \in Byte /\ Or(c.A, c.op_value) \in Byte
         /\ Xor(c.A, c.op_value) \in Byte /\ Or(c.P, 48) \in Byte
         /\ And(c.A, c.X) \in Byte /\ Axa(c) \in CpuState
<1>1. c.A \in Int /\ c.op_value \in Int /\ c.X \in Int /\ c.P \in Int /\ c.op_address \in Int
  BY Numbers
<1>2. /\ And(c.A, c.op_value) \in Byte /\ Or(c.A, c.op_value) \in Byte
      /\ Xor(c.A, c.op_value) \in Byte /\ And(c.A, c.X) \in Byte
  BY <1>1, BitwiseType
<1>3. Or(c.P, 48) \in Byte
  BY <1>1, BitwiseType
<1>4. Axa(c) \in CpuState
  <2>1. And(c.A, c.X) \in Int /\ (c.op_address \div 256) % 256 \in Int
    BY <1>1, <1>2, ByteIs
  <2>2. And(And(c.A, c.X), (c.op_address \div 256) % 256) \in Byte
    BY <2>1, BitwiseType
  <2> QED
    BY <2>2, StoreType DEF Axa
<1> QED
  BY <1>2, <1>3, <1>4

\* The operations that are two in one.
LEMMA CombinedType ==
  ASSUME NEW c \in CpuState
  PROVE  /\ LET s == Shift("asl", c) IN Load(s, "A", Or(s.A, s.op_value)) \in CpuState
         /\ LET s == Shift("rol", c) IN Load(s, "A", And(s.A, s.op_value)) \in CpuState
         /\ LET s == Shift("lsr", c) IN Load(s, "A", Xor(s.A, s.op_value)) \in CpuState
         /\ Adc(Shift("ror", c)) \in CpuState
         /\ LET s == SteppedOperand(c, -1) IN Compare(s, s.A) \in CpuState
         /\ Sbc(SteppedOperand(c, 1)) \in CpuState
         /\ Load(Load(c, "X", c.op_value), "A", c.op_value) \in CpuState
<1>1. /\ Shift("asl", c) \in CpuState /\ Shift("rol", c) \in CpuState
      /\ Shift("lsr", c) \in CpuState /\ Shift("ror", c) \in CpuState
  BY ShiftType
<1>2. SteppedOperand(c, -1) \in CpuState /\ SteppedOperand(c, 1) \in CpuState
  BY SteppedType
<1>3. Load(c, "X", c.op_value) \in CpuState /\ c.op_value \in Byte
  BY Fields, LoadType
<1>4. Load(Load(c, "X", c.op_value), "A", c.op_value) \in CpuState
  BY <1>3, LoadType
<1>5. \A s \in CpuState : /\ Load(s, "A", Or(s.A, s.op_value)) \in CpuState
                          /\ Load(s, "A", And(s.A, s.op_value)) \in CpuState
                          /\ Load(s, "A", Xor(s.A, s.op_value)) \in CpuState
                          /\ Compare(s, s.A) \in CpuState
  BY LogicType, LoadType, FlaggedType DEF Compare
<1> QED
  BY <1>1, <1>2, <1>4, <1>5, ArithmeticType

\* Each operation a name of which stands in the table.
Ops ==
  {"nop", "adc", "sbc", "and", "ora", "eor", "bit", "asl", "lsr", "rol", "ror",
   "asla", "lsra", "rola", "rora", "lda", "ldx", "ldy", "sta", "stx", "sty",
   "tax", "txa", "tay", "tya", "tsx", "txs", "bcs", "bcc", "beq", "bne", "bmi",
   "bpl", "bvs", "bvc", "jmp", "jsr", "rts", "brk", "rti", "clc", "sec", "cld",
   "sed", "cli", "sei", "clv", "cmp", "cpx", "cpy", "inc", "dec", "inx", "iny",
   "dex", "dey", "php", "pha", "pla", "plp", "aso", "rla", "lse", "rra", "dcm",
   "ins", "lax", "axs", "axa"}

LEMMA OperationType ==
  ASSUME NEW c \in CpuState, NEW op \in Ops
  PROVE  Operation(op, c) \in CpuState
<1>1. /\ c.A \in Byte /\ c.X \in Byte /\ c.Y \in Byte /\ c.SP \in Byte /\ c.op_value \in Byte
  BY Fields
<1>2. /\ (c.X + 1) % 256 \in Byte /\ (c.Y + 1) % 256 \in Byte
      /\ (c.X + 255) % 256 \in Byte /\ (c.Y + 255) % 256 \in Byte
  BY Numbers, ByteIs
<1>3. /\ Adc(c) \in CpuState /\ Sbc(c) \in CpuState /\ BitTest(c) \in CpuState
      /\ Shift("asl", c) \in CpuState /\ Shift("lsr", c) \in CpuState
      /\ Shift("rol", c) \in CpuState /\ Shift("ror", c) \in CpuState
      /\ ShiftA("asl", c) \in CpuState /\ ShiftA("lsr", c) \in CpuState
      /\ ShiftA("rol", c) \in CpuState /\ ShiftA("ror", c) \in CpuState
  BY ArithmeticType, ShiftType, FlaggedType DEF BitTest
<1>4. /\ Load(c, "A", And(c.A, c.op_value)) \in CpuState
      /\ Load(c, "A", Or(c.A, c.op_value)) \in CpuState
      /\ Load(c, "A", Xor(c.A, c.op_value)) \in CpuState
      /\ Store(c, And(c.A, c.X)) \in CpuState /\ Axa(c) \in CpuState
      /\ PushByte(c, Or(c.P, 48)) \in CpuState
  BY LogicType, LoadType, StoreType, PushByteType
<1>5. /\ Load(c, "A", c.op_value) \in CpuState /\ Load(c, "X", c.op_value) \in CpuState
      /\ Load(c, "Y", c.op_value) \in CpuState
      /\ Load(c, "X", c.A) \in CpuState /\ Load(c, "A", c.X) \in CpuState
      /\ Load(c, "Y", c.A) \in CpuState /\ Load(c, "A", c.Y) \in CpuState
      /\ Load(c, "X", c.SP) \in CpuState
  BY <1>1, LoadType
<1>6. /\ Load(c, "X", (c.X + 1) % 256) \in CpuState /\ Load(c, "Y", (c.Y + 1) % 256) \in CpuState
      /\ Load(c, "X", (c.X + 255) % 256) \in CpuState /\ Load(c, "Y", (c.Y + 255) % 256) \in CpuState
  BY <1>2, LoadType
<1>7. /\ Store(c, c.A) \in CpuState /\ Store(c, c.X) \in CpuState /\ Store(c, c.Y) \in CpuState
      /\ [c EXCEPT !.SP = c.X] \in CpuState /\ PushByte(c, c.A) \in CpuState
  BY <1>1, StoreType, UpdatedSP, PushByteType
<1>8. /\ Jump(c) \in CpuState /\ \A taken : Branch(c, taken) \in CpuState
  BY JumpType DEF Branch
<1>9. /\ Jsr(c) \in CpuState /\ Rts(c) \in CpuState /\ Brk(c) \in CpuState
      /\ Rti(c) \in CpuState /\ Pla(c) \in CpuState /\ Plp(c) \in CpuState
  BY CallType, PulledType
<1>10. /\ \A f : Flagged(c, f) \in CpuState
       /\ \A v : Compare(c, v) \in CpuState
       /\ Step(c, 1) \in CpuState /\ Step(c, -1) \in CpuState
  BY FlaggedType, SteppedType DEF Compare
<1>11. CASE op \in {"nop", "adc", "sbc", "and", "ora", "eor", "bit", "asl", "lsr", "rol", "ror",
                    "asla", "lsra", "rola", "rora", "lda", "ldx", "ldy", "sta", "stx", "sty"}
  BY <1>3, <1>4, <1>5, <1>7, <1>11 DEF Operation
<1>12. CASE op \in {"tax", "txa", "tay", "tya", "tsx", "txs", "bcs", "bcc", "beq", "bne", "bmi",
                    "bpl", "bvs", "bvc", "jmp", "jsr", "rts", "brk", "rti"}
  BY <1>5, <1>7, <1>8, <1>9, <1>12 DEF Operation
<1>13. CASE op \in {"clc", "sec", "cld", "sed", "cli", "sei", "clv", "cmp", "cpx", "cpy", "inc",
                    "dec", "inx", "iny", "dex", "dey", "php", "pha", "pla", "plp"}
  BY <1>4, <1>6, <1>7, <1>9, <1>10, <1>13 DEF Operation
<1>14. CASE op \in {"aso", "rla", "lse", "rra", "dcm", "ins", "lax", "axs", "axa"}
  BY <1>4, <1>14, CombinedType DEF Operation
<1> QED
  BY <1>11, <1>12, <1>13, <1>14 DEF Ops

-----------------------------------------------------------------------------
(* Addressing modes.                                                       *)

LEMMA AtType ==
  ASSUME NEW c \in CpuState, NEW address \in Addresses, NEW length \in 0..2
  PROVE  At(c, address, length) \in CpuState
<1> DEFINE value == ReadB(c.mem, address % 65536)
           pc == (c.PC + length) % 65536
<1>1. value \in Byte
  BY Fields, ReadBType
<1>2. pc \in Word
  BY Numbers, WordIs
<1>3. At(c, address, length) = [c EXCEPT !.op_address = address, !.op_value = value, !.PC = pc]
  BY DEF At, Operand
<1> HIDE DEF value, pc
<1>4. [c EXCEPT !.op_address = address, !.op_value = value, !.PC = pc] \in CpuState
  BY <1>1, <1>2 DEF CpuState
<1> QED
  BY <1>3, <1>4, Zenon

LEMMA PageCostType ==
  ASSUME NEW c \in CpuState
  PROVE  PageCost(c) \in CpuState
<1> DEFINE n == IF c.op_address \div 256 # c.PC \div 256 THEN 1 ELSE c.op_cycles
<1>1. n \in 0..1
  BY Fields
<1>2. PageCost(c) = [c EXCEPT !.op_cycles = n]
  BY DEF PageCost
<1> HIDE DEF n
<1> QED
  BY <1>1, <1>2, UpdatedCycles

LEMMA PointerType ==
  ASSUME NEW c \in CpuState, NEW a
  PROVE  Pointer(c, a) \in Word
BY Fields, ReadBType, WordOfBytes DEF Pointer

LEMMA IndirectType ==
  ASSUME NEW c \in CpuState
  PROVE  Indirect(c) \in CpuState
<1> DEFINE a == ArgW(c)
           high == IF a % 256 = 255 THEN a - 255 ELSE (a + 1) % 65536
           address == ReadB(c.mem, a) + 256 * ReadB(c.mem, high)
           pc == (c.PC + 2) % 65536
<1>1. Indirect(c) = [c EXCEPT !.op_address = address, !.PC = pc]
  BY DEF Indirect
<1>2. address \in Word
  BY Fields, ReadBType, WordOfBytes
<1>3. address \in Addresses
  BY <1>2, WordIs, AddressesAre
<1>4. pc \in Word
  BY Numbers, WordIs
<1> HIDE DEF address, pc
<1>5. [c EXCEPT !.op_address = address, !.PC = pc] \in CpuState
  BY <1>3, <1>4 DEF CpuState
<1> QED
  BY <1>1, <1>5, Zenon

LEMMA RelativeType ==
  ASSUME NEW c \in CpuState
  PROVE  Relative(c) \in CpuState
<1> DEFINE next == (c.PC + 1) % 65536
           offset == IF ArgB(c) > 127 THEN ArgB(c) - 256 ELSE ArgB(c)
           address == next + offset
           moved == [c EXCEPT !.op_address = address, !.PC = next]
<1>1. Relative(c) = PageCost(moved)
  BY DEF Relative
<1>2. next \in Word
  BY Numbers, WordIs
<1>3. ArgB(c) \in Byte
  BY Fields, ReadBType DEF ArgB
<1>4. address \in Addresses
  <2>1. offset \in Int /\ -128 <= offset /\ offset <= 127
    BY <1>3, ByteIs
  <2> HIDE DEF next, offset
  <2> QED
    BY <1>2, <2>1, WordIs, AddressesAre
<1> HIDE DEF address, next
<1>5. moved \in CpuState
  BY <1>2, <1>4 DEF CpuState
<1> HIDE DEF moved
<1> QED
  BY <1>1, <1>5, PageCostType

Modes ==
  {"implied", "immediate", "zero_page", "zero_page_x", "zero_page_y", "absolute",
   "absolute_x", "absolute_y", "indirect", "indirect_x", "indirect_y", "relative"}

LEMMA AddressedType ==
  ASSUME NEW c \in CpuState, NEW mode \in Modes
  PROVE  Addressed(mode, c) \in CpuState
<1>1. c.X \in Int /\ c.Y \in Int /\ 0 <= c.X /\ c.X <= 255 /\ 0 <= c.Y /\ c.Y <= 255
  BY Fields, ByteIs
<1>2. ArgB(c) \in Byte /\ ArgW(c) \in Word
  BY Fields, ReadBType, ReadWType DEF ArgB, ArgW
<1>3. ArgB(c) \in Int /\ ArgW(c) \in Int /\ 0 <= ArgW(c) /\ ArgW(c) <= 65535
  BY <1>2, ByteIs, WordIs
<1>4. \A n \in Int : n % 256 \in Addresses
  BY AddressesAre
<1>5. CASE mode = "implied"
  BY <1>5 DEF Addressed
<1>6. CASE mode = "immediate"
  <2> DEFINE value == ArgB(c)
             pc == (c.PC + 1) % 65536
  <2>1. Addressed(mode, c) = [c EXCEPT !.op_value = value, !.PC = pc]
    BY <1>6 DEF Addressed
  <2>2. pc \in Word
    BY Numbers, WordIs
  <2> HIDE DEF value, pc
  <2>3. [c EXCEPT !.op_value = value, !.PC = pc] \in CpuState
    BY <1>2, <2>2 DEF CpuState, value
  <2> QED
    BY <2>1, <2>3, Zenon
<1>7. CASE mode \in {"zero_page", "zero_page_x", "zero_page_y"}
  <2>1. \A index \in Int : ZeroPage(c, index) \in CpuState
    BY <1>3, <1>4, AtType DEF ZeroPage
  <2>2. /\ ZeroPage(c, 0) \in CpuState /\ ZeroPage(c, c.X) \in CpuState
        /\ ZeroPage(c, c.Y) \in CpuState
    BY <1>1, <2>1
  <2> QED
    BY <1>7, <2>2 DEF Addressed
<1>8. CASE mode \in {"absolute", "absolute_x", "absolute_y"}
  <2> DEFINE byX == ArgW(c) + c.X
             byY == (ArgW(c) + c.Y) % 65536
  <2>1. ArgW(c) \in Addresses /\ byX \in Addresses /\ byY \in Addresses
    BY <1>1, <1>3, AddressesAre
  <2>2. Addressed(mode, c) \in {At(c, ArgW(c), 2), PageCost(At(c, byX, 2)), PageCost(At(c, byY, 2))}
    BY <1>8 DEF Addressed
  <2> HIDE DEF byX, byY
  <2>3. At(c, ArgW(c), 2) \in CpuState /\ At(c, byX, 2) \in CpuState /\ At(c, byY, 2) \in CpuState
    BY <2>1, AtType
  <2> QED
    BY <2>2, <2>3, PageCostType
<1>9. CASE mode = "indirect"
  BY <1>9, IndirectType DEF Addressed
<1>10. CASE mode \in {"indirect_x", "indirect_y"}
  <2>1. \A a : Pointer(c, a) \in Int /\ 0 <= Pointer(c, a) /\ Pointer(c, a) <= 65535
    BY PointerType, WordIs
  <2> DEFINE first == Pointer(c, ArgB(c) + c.X)
             second == (Pointer(c, ArgB(c)) + c.Y) % 65536
  <2>2. first \in Addresses /\ second \in Addresses
    BY <1>1, <2>1, AddressesAre
  <2>3. Addressed(mode, c) \in {At(c, first, 1), PageCost(At(c, second, 1))}
    BY <1>10 DEF Addressed, IndirectY
  <2> HIDE DEF first, second
  <2>4. At(c, first, 1) \in CpuState /\ At(c, second, 1) \in CpuState
    BY <2>2, AtType
  <2> QED
    BY <2>3, <2>4, PageCostType
<1>11. CASE mode = "relative"
  BY <1>11, RelativeType DEF Addressed
<1> QED
  BY <1>5, <1>6, <1>7, <1>8, <1>9, <1>10, <1>11 DEF Modes

-----------------------------------------------------------------------------
(* The table of the instructions.                                          *)

Known(row) == row[2] \in Ops /\ row[3] \in Modes /\ row[4] \in Nat

LEMMA ColumnsKnown ==
  ASSUME NEW ops, \A o \in ops : o[1] \in Ops,
         NEW cells, \A cell \in cells : cell[2] \in Modes /\ cell[3] \in Nat
  PROVE  \A row \in Columns(ops, cells) : Known(row)
BY DEF Columns, Known

LEMMA ImpliedKnown ==
  ASSUME NEW cycles \in Nat, NEW ops, \A o \in ops : o[2] \in Ops
  PROVE  \A row \in Implied(cycles, ops) : Known(row)
BY DEF Implied, Known, Modes

LEMMA ModesKnown ==
  /\ \A cell \in ReadModes : cell[2] \in Modes /\ cell[3] \in Nat
  /\ \A cell \in AndModes : cell[2] \in Modes /\ cell[3] \in Nat
  /\ \A cell \in StaModes : cell[2] \in Modes /\ cell[3] \in Nat
  /\ \A cell \in ModifyModes : cell[2] \in Modes /\ cell[3] \in Nat
  /\ \A cell \in CombinedModes : cell[2] \in Modes /\ cell[3] \in Nat
<1>1. \A cell \in ReadModes : cell[2] \in Modes /\ cell[3] \in Nat
  BY DEF ReadModes, Modes
<1>2. \A cell \in AndModes : cell[2] \in Modes /\ cell[3] \in Nat
  <2>1. <<13, "absolute", 2>>[2] \in Modes /\ <<13, "absolute", 2>>[3] \in Nat
    BY DEF Modes
  <2> QED
    BY <1>1, <2>1 DEF AndModes
<1>3. \A cell \in StaModes : cell[2] \in Modes /\ cell[3] \in Nat
  BY DEF StaModes, Modes
<1>4. \A cell \in ModifyModes : cell[2] \in Modes /\ cell[3] \in Nat
  BY DEF ModifyModes, Modes
<1>5. \A cell \in CombinedModes : cell[2] \in Modes /\ cell[3] \in Nat
  BY DEF CombinedModes, Modes
<1> QED
  BY <1>1, <1>2, <1>3, <1>4, <1>5

LEMMA BaseKnown == \A row \in BaseSet : Known(row)
<1> DEFINE Read == {<<"ora", 0>>, <<"eor", 64>>, <<"adc", 96>>, <<"lda", 160>>,
                    <<"cmp", 192>>, <<"sbc", 224>>}
           Change == {<<"asl", 0>>, <<"rol", 32>>, <<"lsr", 64>>, <<"ror", 96>>,
                      <<"dec", 192>>, <<"inc", 224>>}
           Branches == {<<16, "bpl">>, <<48, "bmi">>, <<80, "bvc">>, <<112, "bvs">>,
                        <<144, "bcc">>, <<176, "bcs">>, <<208, "bne">>, <<240, "beq">>}
           Quick == {<<10, "asla">>, <<42, "rola">>, <<74, "lsra">>, <<106, "rora">>,
                     <<24, "clc">>, <<56, "sec">>, <<88, "cli">>, <<120, "sei">>,
                     <<184, "clv">>, <<216, "cld">>, <<248, "sed">>, <<136, "dey">>,
                     <<138, "txa">>, <<152, "tya">>, <<154, "txs">>, <<168, "tay">>,
                     <<170, "tax">>, <<186, "tsx">>, <<200, "iny">>, <<202, "dex">>,
                     <<232, "inx">>, <<234, "nop">>}
           Singles == {<<32, "jsr", "absolute", 6>>, <<76, "jmp", "absolute", 3>>,
        <<108, "jmp", "indirect", 5>>,
        <<36, "bit", "zero_page", 3>>, <<44, "bit", "absolute", 4>>,
        <<132, "sty", "zero_page", 3>>, <<140, "sty", "absolute", 4>>,
        <<148, "sty", "zero_page_x", 4>>,
        <<134, "stx", "zero_page", 3>>, <<142, "stx", "absolute", 4>>,
        <<150, "stx", "zero_page_y", 4>>,
        <<160, "ldy", "immediate", 2>>, <<164, "ldy", "zero_page", 3>>,
        <<172, "ldy", "absolute", 4>>, <<180, "ldy", "zero_page_x", 4>>,
        <<188, "ldy", "absolute_x", 4>>,
        <<162, "ldx", "immediate", 2>>, <<166, "ldx", "zero_page", 3>>,
        <<174, "ldx", "absolute", 4>>, <<182, "ldx", "zero_page_y", 4>>,
        <<190, "ldx", "absolute_y", 4>>,
        <<192, "cpy", "immediate", 2>>, <<196, "cpy", "zero_page", 3>>,
        <<204, "cpy", "absolute", 4>>,
        <<224, "cpx", "immediate", 2>>, <<228, "cpx", "zero_page", 3>>,
        <<236, "cpx", "absolute", 4>>}
<1>1. \A o \in Read \cup Change : o[1] \in Ops
  BY DEF Ops
<1>2. \A o \in Branches : o[2] \in Ops
  BY DEF Ops
<1>3. \A o \in Quick : o[2] \in Ops
  BY DEF Ops
<1>4. \A row \in Singles : Known(row)
  BY DEF Ops, Modes, Known
<1>5. \A row \in Columns(Read, ReadModes) : Known(row)
  <2> HIDE DEF Read, Change
  <2> QED
    BY <1>1, ModesKnown, ColumnsKnown
<1>6. \A row \in Columns(Change, ModifyModes) : Known(row)
  <2> HIDE DEF Read, Change
  <2> QED
    BY <1>1, ModesKnown, ColumnsKnown
<1>7. \A row \in {<<o[1], o[2], "relative", 2>> : o \in Branches} : Known(row)
  <2> HIDE DEF Branches
  <2> QED
    BY <1>2 DEF Known, Modes
<1>8. /\ \A row \in Columns({<<"and", 32>>}, AndModes) : Known(row)
      /\ \A row \in Columns({<<"sta", 128>>}, StaModes) : Known(row)
  <2>1. "and" \in Ops /\ "sta" \in Ops
    BY DEF Ops
  <2> QED
    BY <2>1, ModesKnown, ColumnsKnown
<1>9. \A row \in Implied(2, Quick) : Known(row)
  <2> HIDE DEF Quick
  <2> QED
    BY <1>3, ImpliedKnown
<1>10. \A o \in {<<8, "php">>, <<72, "pha">>, <<40, "plp">>, <<104, "pla">>, <<64, "rti">>,
                 <<96, "rts">>, <<0, "brk">>} : o[2] \in Ops
  BY DEF Ops
<1>11. \A row \in Implied(3, {<<8, "php">>, <<72, "pha">>}) : Known(row)
  BY <1>10, ImpliedKnown
<1>12. \A row \in Implied(4, {<<40, "plp">>, <<104, "pla">>}) : Known(row)
  BY <1>10, ImpliedKnown
<1>13. \A row \in Implied(6, {<<64, "rti">>, <<96, "rts">>}) : Known(row)
  BY <1>10, ImpliedKnown
<1>14. \A row \in Implied(7, {<<0, "brk">>}) : Known(row)
  BY <1>10, ImpliedKnown
<1>15. BaseSet =
         Columns(Read, ReadModes)
         \cup Columns({<<"and", 32>>}, AndModes) \cup Columns({<<"sta", 128>>}, StaModes)
         \cup Columns(Change, ModifyModes)
         \cup {<<o[1], o[2], "relative", 2>> : o \in Branches}
         \cup Implied(2, Quick) \cup Implied(3, {<<8, "php">>, <<72, "pha">>})
         \cup Implied(4, {<<40, "plp">>, <<104, "pla">>})
         \cup Implied(6, {<<64, "rti">>, <<96, "rts">>})
         \cup Implied(7, {<<0, "brk">>}) \cup Singles
  BY Zenon DEF BaseSet
<1> HIDE DEF Read, Change, Branches, Quick, Singles
<1> QED
  BY <1>4, <1>5, <1>6, <1>7, <1>8, <1>9, <1>11, <1>12, <1>13, <1>14, <1>15

LEMMA ExtendedKnown == \A row \in ExtendedSet : Known(row)
<1> DEFINE Combined == {<<"aso", 0>>, <<"rla", 32>>, <<"lse", 64>>, <<"rra", 96>>,
                        <<"dcm", 192>>, <<"ins", 224>>}
           Singles == {<<131, "axs", "indirect_x", 6>>, <<135, "axs", "zero_page", 3>>,
        <<143, "axs", "absolute", 4>>, <<151, "axs", "zero_page_y", 4>>,
        <<147, "axa", "indirect_y", 6>>, <<159, "axa", "absolute_y", 5>>,
        <<163, "lax", "indirect_x", 6>>, <<167, "lax", "zero_page", 3>>,
        <<175, "lax", "absolute", 4>>, <<179, "lax", "indirect_y", 5>>,
        <<183, "lax", "zero_page_y", 4>>, <<191, "lax", "absolute_y", 4>>,
        <<235, "sbc", "immediate", 2>>}
<1>1. \A o \in Combined : o[1] \in Ops
  BY DEF Ops
<1>2. \A row \in Singles : Known(row)
  BY DEF Ops, Modes, Known
<1>3. ExtendedSet = Columns(Combined, CombinedModes) \cup Singles
  BY Zenon DEF ExtendedSet
<1> HIDE DEF Combined, Singles
<1> QED
  BY <1>1, <1>2, <1>3, ModesKnown, ColumnsKnown

LEMMA NotImplementedKnown == \A row \in NotImplementedSet : Known(row)
<1>1. /\ "nop" \in Ops /\ "zero_page" \in Modes /\ "zero_page_x" \in Modes
      /\ "absolute_x" \in Modes /\ "implied" \in Modes /\ "absolute" \in Modes
      /\ "immediate" \in Modes /\ 1 \in Nat
  BY DEF Ops, Modes
<1>2. \A o, mode : mode \in Modes => Known(<<o, "nop", mode, 1>>)
  BY <1>1 DEF Known
<1> QED
  BY <1>1, <1>2 DEF NotImplementedSet

\* Whatever the table has for an opcode, the operators above know.
LEMMA TableType ==
  ASSUME NEW code \in DOMAIN Opcode
  PROVE  /\ Opcode[code].op \in Ops /\ Opcode[code].mode \in Modes
         /\ Opcode[code].cycles \in Nat
<1> DEFINE row == CHOOSE r \in OpcodeRows : r[1] = code
<1>1. \E r \in OpcodeRows : r[1] = code
  BY DEF Opcode
<1>2. row \in OpcodeRows
  BY <1>1
<1>3. Opcode[code] = [op |-> row[2], mode |-> row[3], cycles |-> row[4]]
  BY DEF Opcode
<1> HIDE DEF row
<1>4. Known(row)
  BY <1>2, BaseKnown, ExtendedKnown, NotImplementedKnown DEF OpcodeRows
<1> QED
  BY <1>3, <1>4 DEF Known

-----------------------------------------------------------------------------
(* Instructions, interrupts and power.                                     *)

LEMMA ExecutedType ==
  ASSUME NEW c \in CpuState
  PROVE  Executed(c) \in CpuState
<1> DEFINE next == (c.PC + 1) % 65536
           fetched == [c EXCEPT !.PC = next, !.op_cycles = 0]
           code == OpcodeAt(c)
<1>1. next \in Word
  BY Numbers, WordIs
<1>2. Executed(c) = IF code \in DOMAIN Opcode
                    THEN Operation(Opcode[code].op, Addressed(Opcode[code].mode, fetched))
                    ELSE fetched
  BY DEF Executed
<1> HIDE DEF next
<1>3. fetched \in CpuState
  <2>1. [c EXCEPT !.PC = next] \in CpuState /\ 0 \in 0..1
    BY <1>1, UpdatedPC
  <2> QED
    BY <2>1, UpdatedCycles, Zenon
<1> HIDE DEF fetched, code
<1>4. CASE code \in DOMAIN Opcode
  <2>1. Opcode[code].op \in Ops /\ Opcode[code].mode \in Modes
    BY <1>4, TableType
  <2>2. Addressed(Opcode[code].mode, fetched) \in CpuState
    BY <1>3, <2>1, AddressedType
  <2> QED
    BY <1>2, <1>4, <2>1, <2>2, OperationType
<1> QED
  BY <1>2, <1>3, <1>4

LEMMA BookedType ==
  ASSUME NEW c, NEW d \in CpuState
  PROVE  Booked(c, d) \in Nat
<1>1. d.op_cycles \in Nat
  BY Fields
<1> QED
  BY <1>1, TableType DEF Booked

LEMMA InterruptedType ==
  ASSUME NEW c \in CpuState
  PROVE  Interrupted(c) \in CpuState
<1> DEFINE flagged == Flagged(c, {<<interrupt, TRUE>>, <<unused, FALSE>>})
           pushed == PushByte(PushWord(flagged, c.PC), flagged.P)
<1>1. flagged \in CpuState
  BY FlaggedType
<1>2. Interrupted(c) = [pushed EXCEPT !.PC = ReadW(pushed.mem, NMI_VECTOR)]
  BY DEF Interrupted
<1> HIDE DEF flagged
<1>3. pushed \in CpuState
  BY <1>1, Fields, PushWordType, PushByteType
<1> HIDE DEF pushed
<1>4. ReadW(pushed.mem, NMI_VECTOR) \in Word
  BY <1>3, Fields, ReadWType
<1> QED
  BY <1>2, <1>3, <1>4, UpdatedPC

LEMMA PoweredOnType ==
  ASSUME NEW m \in Memories
  PROVE  PoweredOn(m) \in CpuState
<1>1. 0 \in Byte /\ 256 - 3 \in Byte /\ 36 \in Byte /\ 0 \in Addresses
  BY ByteIs, AddressesAre
<1>2. ReadW(m, RESET_VECTOR) \in Word
  BY ReadWType
<1> QED
  BY <1>1, <1>2 DEF PoweredOn, CpuState

-----------------------------------------------------------------------------
(* Type correctness.                                                       *)

IInv ==
  /\ cpu \in CpuState
  /\ spent \in Nat /\ nmis \in Nat
  /\ interrupted \in Seq([A : Byte, X : Byte, Y : Byte, SP : Byte, P : Byte, PC : Word])

LEMMA Strengthened == IInv => TypeOK
<1> SUFFICES ASSUME IInv PROVE TypeOK
  OBVIOUS
<1>1. cpu \in CpuState
  BY DEF IInv
<1>2. /\ cpu.A \in Byte /\ cpu.X \in Byte /\ cpu.Y \in Byte /\ cpu.SP \in Byte /\ cpu.P \in Byte
      /\ cpu.PC \in Word /\ cpu.op_value \in Byte /\ cpu.op_address \in Addresses
      /\ cpu.op_cycles \in 0..1 /\ cpu.mem \in Memories
  BY <1>1, Fields
<1>3. DOMAIN cpu.mem \subseteq Word /\ cpu.mem \in [DOMAIN cpu.mem -> Byte]
  BY <1>2, MemoryIs
<1> QED
  BY <1>2, <1>3 DEF IInv, TypeOK

LEMMA Start == Init => IInv
<1> SUFFICES ASSUME Init PROVE IInv
  OBVIOUS
<1>1. PICK i \in Images : cpu = PoweredOn(i.mem) /\ nmis = i.nmis
  BY DEF Init
<1>2. i.mem \in Memories /\ i.nmis \in Nat
  BY ProcessorAssumption, MemoryIs
<1>3. cpu \in CpuState
  BY <1>1, <1>2, PoweredOnType
<1> QED
  BY <1>1, <1>2, <1>3 DEF Init, IInv

LEMMA Kept == IInv /\ [Next]_vars => IInv'
<1> SUFFICES ASSUME IInv, [Next]_vars PROVE IInv'
  OBVIOUS
<1> DEFINE Regs == [A : Byte, X : Byte, Y : Byte, SP : Byte, P : Byte, PC : Word]
<1>0. cpu \in CpuState /\ spent \in Nat /\ nmis \in Nat /\ interrupted \in Seq(Regs)
  BY DEF IInv
<1>1. CASE Instruction
  <2>1. cpu' \in CpuState
    BY <1>0, <1>1, ExecutedType DEF Instruction
  <2>2. spent' \in Nat
    BY <1>0, <1>1, <2>1, BookedType DEF Instruction
  <2>3. interrupted' \in Seq(Regs)
    <3>1. interrupted # <<>> => Tail(interrupted) \in Seq(Regs)
      BY <1>0, HeadTailProperties
    <3> QED
      BY <1>0, <1>1, <3>1 DEF Instruction, Returns
  <2> QED
    BY <1>0, <1>1, <2>1, <2>2, <2>3 DEF Instruction, IInv
<1>2. CASE Nmi
  <2>1. cpu' \in CpuState
    BY <1>0, <1>2, InterruptedType DEF Nmi
  <2>2. Registers(cpu) \in Regs
    BY <1>0, Fields DEF Registers
  <2>3. interrupted' \in Seq(Regs)
    <3> HIDE DEF Regs
    <3>1. <<Registers(cpu)>> \in Seq(Regs)
      BY <2>2
    <3> QED
      BY <1>0, <1>2, <3>1, ConcatProperties DEF Nmi
  <2>4. nmis' \in Nat /\ spent' \in Nat
    BY <1>0, <1>2 DEF Nmi
  <2> QED
    BY <2>1, <2>3, <2>4 DEF IInv
<1>3. CASE UNCHANGED vars
  BY <1>0, <1>3 DEF vars, IInv
<1> QED
  BY <1>1, <1>2, <1>3 DEF Next

\* Whatever program is in memory, whatever data, and whenever interrupts
\* come: registers and cells keep to their widths, and no cell outside the
\* 64 KiB is ever stored to.
THEOREM TypeCorrect == Spec => []TypeOK
<1>1. Spec => []IInv
  BY Start, Kept, PTL DEF Spec
<1> QED
  BY <1>1, Strengthened, PTL

-----------------------------------------------------------------------------
(* What comes back from an interrupt and from a subroutine.                *)

LEMMA LowCells ==
  ASSUME NEW a \in Int, 0 <= a, a <= 511
  PROVE  ~IsPort(a) /\ Cell(a) = a
<1>1. a \div 8192 = 0 /\ a % 2048 = a
  OBVIOUS
<1> QED
  BY <1>1 DEF IsPort, IsRam, Cell

LEMMA ReadBack ==
  ASSUME NEW m, NEW d, NEW a \in Int, 0 <= a, a <= 511, NEW b \in Int, 0 <= b, b <= 511
  PROVE  ReadB(WriteB(m, a, d), b) = IF b = a THEN d ELSE ReadB(m, b)
<1>1. ~IsPort(a) /\ Cell(a) = a /\ ~IsPort(b) /\ Cell(b) = b
  BY LowCells
<1> DEFINE w == [x \in DOMAIN m \cup {a} |-> IF x = a THEN d ELSE m[x]]
<1>2. WriteB(m, a, d) = w
  BY <1>1 DEF WriteB
<1>3. ReadB(w, b) = IF b \in DOMAIN w THEN w[b] ELSE 0
  BY <1>1 DEF ReadB
<1>4. ReadB(m, b) = IF b \in DOMAIN m THEN m[b] ELSE 0
  BY <1>1 DEF ReadB
<1> QED
  BY <1>2, <1>3, <1>4

\* Where the three bytes of an interrupt are pushed: PC, low byte first, and P.
PushedLow(c) == PAGE_ONE - 1 + c.SP
PushedHigh(c) == PAGE_ONE + c.SP
PushedFlags(c) == PAGE_ONE + ((c.SP + 254) % 256)

\* A word is written over two cells of which none wraps around.
LEMMA WordReadBack ==
  ASSUME NEW m, NEW d, NEW a \in Int, 0 <= a, a <= 510, NEW b \in Int, 0 <= b, b <= 511
  PROVE  ReadB(WriteW(m, a, d), b) = IF b = a + 1 THEN d \div 256
                                     ELSE IF b = a THEN d % 256 ELSE ReadB(m, b)
<1>1. (a + 1) % 65536 = a + 1
  OBVIOUS
<1>2. WriteW(m, a, d) = WriteB(WriteB(m, a, d % 256), a + 1, d \div 256)
  BY <1>1 DEF WriteW
<1>3. ReadB(WriteB(WriteB(m, a, d % 256), a + 1, d \div 256), b)
        = IF b = a + 1 THEN d \div 256 ELSE ReadB(WriteB(m, a, d % 256), b)
  BY ReadBack
<1>4. ReadB(WriteB(m, a, d % 256), b) = IF b = a THEN d % 256 ELSE ReadB(m, b)
  BY ReadBack
<1> QED
  BY <1>2, <1>3, <1>4

LEMMA PushedAre ==
  ASSUME NEW c \in CpuState
  PROVE  /\ PushedLow(c) \in Int /\ 0 <= PushedLow(c) /\ PushedLow(c) <= 510
         /\ PushedHigh(c) = PushedLow(c) + 1
         /\ PushedFlags(c) \in Int /\ 0 <= PushedFlags(c) /\ PushedFlags(c) <= 511
         /\ PushedFlags(c) # PushedLow(c) /\ PushedFlags(c) # PushedHigh(c)
<1>1. c.SP \in Int /\ 0 <= c.SP /\ c.SP <= 255
  BY Fields, ByteIs
<1>2. /\ (c.SP + 254) % 256 \in Int /\ 0 <= (c.SP + 254) % 256 /\ (c.SP + 254) % 256 <= 255
      /\ (c.SP + 254) % 256 # c.SP /\ (c.SP + 254) % 256 # c.SP - 1
  BY <1>1
<1> QED
  BY <1>1, <1>2 DEF PushedLow, PushedHigh, PushedFlags, PAGE_ONE

\* What cpu_interrupt leaves on the stack.
LEMMA InterruptedStack ==
  ASSUME NEW c \in CpuState
  PROVE  LET P == Modify(c.P, {<<interrupt, TRUE>>, <<unused, FALSE>>})
             d == Interrupted(c)
         IN  /\ d.SP = (c.SP + 253) % 256
             /\ ReadB(d.mem, PushedLow(c)) = c.PC % 256
             /\ ReadB(d.mem, PushedHigh(c)) = c.PC \div 256
             /\ ReadB(d.mem, PushedFlags(c)) = P
<1> DEFINE P == Modify(c.P, {<<interrupt, TRUE>>, <<unused, FALSE>>})
           f == Flagged(c, {<<interrupt, TRUE>>, <<unused, FALSE>>})
           w == PushWord(f, c.PC)
           b == PushByte(w, f.P)
           d == Interrupted(c)
<1>1. f \in CpuState /\ f.P = P /\ f.PC = c.PC /\ f.SP = c.SP /\ f.mem = c.mem
  <2>1. f \in CpuState
    BY FlaggedType
  <2>2. f = [c EXCEPT !.P = P]
    BY DEF Flagged
  <2> HIDE DEF P
  <2> QED
    BY <2>1, <2>2 DEF CpuState
<1>2. w \in CpuState
  BY <1>1, Fields, PushWordType
<1>3. w.SP = (c.SP + 254) % 256 /\ w.mem = WriteW(c.mem, PushedLow(c), c.PC)
  <2> HIDE DEF f
  <2>1. w = [f EXCEPT !.mem = WriteW(f.mem, PAGE_ONE - 1 + f.SP, c.PC), !.SP = (f.SP + 254) % 256]
    BY DEF PushWord
  <2> QED
    BY <1>1, <2>1 DEF CpuState, PushedLow
<1>4. b.SP = (w.SP + 255) % 256 /\ b.mem = WriteB(w.mem, PAGE_ONE + w.SP, f.P)
  <2> HIDE DEF w
  <2>1. b = [w EXCEPT !.mem = WriteB(w.mem, PAGE_ONE + w.SP, f.P), !.SP = (w.SP + 255) % 256]
    BY DEF PushByte
  <2> QED
    BY <1>2, <2>1 DEF CpuState
<1>5. d.SP = b.SP /\ d.mem = b.mem
  <2>1. d = [b EXCEPT !.PC = ReadW(b.mem, NMI_VECTOR)]
    BY DEF Interrupted
  <2>2. b \in CpuState
    BY <1>1, <1>2, Fields, PushByteType
  <2> HIDE DEF b, d
  <2> QED
    BY <2>1, <2>2 DEF CpuState
<1> HIDE DEF f, w, b, d, P
<1>6. d.SP = (c.SP + 253) % 256
  <2>1. c.SP \in Int
    BY Numbers
  <2> QED
    BY <1>3, <1>4, <1>5, <2>1
<1>7. d.mem = WriteB(WriteW(c.mem, PushedLow(c), c.PC), PushedFlags(c), P)
  BY <1>1, <1>3, <1>4, <1>5 DEF PushedFlags
<1>8. ReadB(d.mem, PushedFlags(c)) = P
  BY <1>7, PushedAre, ReadBack
<1>9. \A a \in {PushedLow(c), PushedHigh(c)} :
        ReadB(d.mem, a) = ReadB(WriteW(c.mem, PushedLow(c), c.PC), a)
  <2>1. \A a \in {PushedLow(c), PushedHigh(c)} :
          a \in Int /\ 0 <= a /\ a <= 511 /\ a # PushedFlags(c)
    BY PushedAre
  <2> QED
    BY <1>7, <2>1, PushedAre, ReadBack
<1>10. /\ ReadB(WriteW(c.mem, PushedLow(c), c.PC), PushedLow(c)) = c.PC % 256
       /\ ReadB(WriteW(c.mem, PushedLow(c), c.PC), PushedHigh(c)) = c.PC \div 256
  BY PushedAre, WordReadBack
<1> QED
  BY <1>6, <1>8, <1>9, <1>10 DEF d, P

\* The flags a game can branch on are none of those that an interrupt changes.
LEMMA FlagsSurvive ==
  ASSUME NEW P \in Byte
  PROVE  ArithmeticFlags(Or(Modify(P, {<<interrupt, TRUE>>, <<unused, FALSE>>}), 32))
           = ArithmeticFlags(P)
<1> DEFINE f == {<<interrupt, TRUE>>, <<unused, FALSE>>}
           bits == [i \in 0..7 |-> IF <<i, TRUE>> \in f THEN 1
                                   ELSE IF <<i, FALSE>> \in f THEN 0 ELSE BitAt(P, i)]
           Q == Modify(P, f)
           or == [i \in 0..7 |-> IF BitAt(Q, i) + BitAt(32, i) > 0 THEN 1 ELSE 0]
<1>0. P \in Int
  BY ByteIs
<1>1. bits \in [0..7 -> 0..1]
  BY <1>0, BitType
<1>2. \A i \in {0, 1, 6, 7} : bits[i] = BitAt(P, i)
  BY DEF interrupt, unused
<1>3. Q = FromBits(bits)
  BY DEF Modify
<1> HIDE DEF bits, f
<1>4. \A i \in {0, 1, 6, 7} : BitAt(Q, i) = BitAt(P, i)
  BY <1>1, <1>2, <1>3, BitOfBits
<1>5. BitAt(32, 0) = 0 /\ BitAt(32, 1) = 0 /\ BitAt(32, 6) = 0 /\ BitAt(32, 7) = 0
  BY Powers DEF BitAt
<1>6. \A i \in {0, 1, 6, 7} : BitAt(P, i) \in 0..1
  BY <1>0, BitType
<1>7. or \in [0..7 -> 0..1]
  OBVIOUS
<1>8. Or(Q, 32) = FromBits(or)
  BY DEF Or
<1>9. \A i \in {0, 1, 6, 7} : or[i] = BitAt(P, i)
  <2> HIDE DEF Q
  <2> QED
    BY <1>4, <1>5, <1>6
<1> HIDE DEF or, Q
<1>10. \A i \in {0, 1, 6, 7} : BitAt(Or(Q, 32), i) = BitAt(P, i)
  BY <1>7, <1>8, <1>9, BitOfBits
<1>11. \A i \in {0, 1, 6, 7} : BitAt(Or(Modify(P, f), 32), i) = BitAt(P, i)
  BY <1>10 DEF Q
<1> QED
  BY <1>11 DEF ArithmeticFlags, f, carry, zero, overflow, negative

\* A handler that leaves the stack pointer and the three bytes that were pushed
\* as it found them goes back, by its rti, to where any program was interrupted,
\* with the stack and the arithmetic flags it had there; and rti changes nothing
\* else.  This is so for every stack pointer, also where it wraps around.
THEOREM InterruptsReturn ==
  ASSUME NEW c \in CpuState, NEW h \in CpuState,
         h.SP = Interrupted(c).SP,
         \A a \in {PushedLow(c), PushedHigh(c), PushedFlags(c)} :
           ReadB(h.mem, a) = ReadB(Interrupted(c).mem, a)
  PROVE  /\ Rti(h).PC = c.PC /\ Rti(h).SP = c.SP
         /\ ArithmeticFlags(Rti(h).P) = ArithmeticFlags(c.P)
         /\ Rti(h) = [h EXCEPT !.PC = c.PC, !.SP = c.SP, !.P = Rti(h).P]
<1> DEFINE P == Modify(c.P, {<<interrupt, TRUE>>, <<unused, FALSE>>})
           b == PopByte(h)
           d == [h EXCEPT !.SP = b.SP]
           w == PopWord(d)
<1>0. c.SP \in Int /\ 0 <= c.SP /\ c.SP <= 255 /\ c.PC \in Word /\ c.P \in Byte
  BY Fields, ByteIs
<1>1. /\ h.SP = (c.SP + 253) % 256
      /\ ReadB(h.mem, PushedLow(c)) = c.PC % 256
      /\ ReadB(h.mem, PushedHigh(c)) = c.PC \div 256
      /\ ReadB(h.mem, PushedFlags(c)) = P
  BY InterruptedStack, ZenonT(60)
<1>2. b.SP = (c.SP + 254) % 256 /\ b.value = P
  <2>1. (h.SP + 1) % 256 = (c.SP + 254) % 256
    <3>1. \A n, s \in Int : s = (n + 253) % 256 => (s + 1) % 256 = (n + 254) % 256
      OBVIOUS
    <3>2. h.SP \in Int /\ c.SP \in Int /\ h.SP = (c.SP + 253) % 256
      BY <1>0, <1>1, Fields, ByteIs
    <3> HIDE DEF P, b, d, w
    <3> QED
      BY <3>1, <3>2
  <2> QED
    BY <1>1, <2>1 DEF PopByte, PushedFlags
<1>3. d.SP = b.SP /\ d.mem = h.mem
  BY DEF CpuState
<1>4. w.SP = c.SP /\ w.value = ReadW(h.mem, PushedLow(c))
  <2>1. (d.SP + 2) % 256 = c.SP
    BY <1>0, <1>2, <1>3
  <2> HIDE DEF d
  <2> QED
    BY <1>3, <2>1 DEF PopWord, PushedLow
<1>5. ReadW(h.mem, PushedLow(c)) = c.PC
  <2>1. (PushedLow(c) + 1) % 65536 = PushedHigh(c)
    BY PushedAre
  <2>2. ReadW(h.mem, PushedLow(c)) = (c.PC % 256) + 256 * (c.PC \div 256)
    BY <1>1, <2>1 DEF ReadW
  <2> QED
    BY <1>0, <2>2, BytesOfWord
<1>6. Rti(h) = [h EXCEPT !.P = Or(b.value, 32), !.PC = w.value, !.SP = w.SP]
  BY DEF Rti
<1> HIDE DEF b, d, w, P
<1>7. Rti(h) = [h EXCEPT !.P = Or(P, 32), !.PC = c.PC, !.SP = c.SP]
  BY <1>2, <1>4, <1>5, <1>6
<1>8. Rti(h).P = Or(P, 32) /\ Rti(h).PC = c.PC /\ Rti(h).SP = c.SP
  BY <1>7 DEF CpuState
<1>9. Rti(h) = [h EXCEPT !.PC = c.PC, !.SP = c.SP, !.P = Rti(h).P]
  <2>1. Rti(h) = [h EXCEPT !.PC = c.PC, !.SP = c.SP, !.P = Or(P, 32)]
    BY <1>7 DEF CpuState
  <2> QED
    BY <1>8, <2>1, Zenon
<1>10. ArithmeticFlags(Or(P, 32)) = ArithmeticFlags(c.P)
  BY <1>0, FlagsSurvive DEF P
<1> QED
  BY <1>8, <1>9, <1>10

\* A subroutine that leaves the stack pointer and the two bytes of its return
\* address as it found them goes back, by its rts, to the instruction after the
\* jsr, with the stack of the caller.
THEOREM SubroutinesReturn ==
  ASSUME NEW c \in CpuState, NEW h \in CpuState,
         h.SP = Jsr(c).SP,
         \A a \in {PushedLow(c), PushedHigh(c)} : ReadB(h.mem, a) = ReadB(Jsr(c).mem, a)
  PROVE  Rts(h) = [h EXCEPT !.PC = c.PC, !.SP = c.SP]
<1> DEFINE last == (c.PC + 65535) % 65536
           p == PushWord(c, last)
           w == PopWord(h)
<1>0. /\ c.SP \in Int /\ 0 <= c.SP /\ c.SP <= 255
      /\ c.PC \in Int /\ 0 <= c.PC /\ c.PC <= 65535
  BY Fields, ByteIs, WordIs
<1>1. last \in Word /\ (last + 1) % 65536 = c.PC
  <2>1. (last + 1) % 65536 = c.PC
    BY <1>0
  <2> QED
    BY <1>0, <2>1, WordIs
<1>2. Jsr(c) = [p EXCEPT !.PC = p.op_address % 65536]
  BY DEF Jsr, Jump
<1>3. p = [c EXCEPT !.mem = WriteW(c.mem, PushedLow(c), last), !.SP = (c.SP + 254) % 256]
  BY DEF PushWord, PushedLow
<1> HIDE DEF last, p
<1>4. p.SP = (c.SP + 254) % 256 /\ p.mem = WriteW(c.mem, PushedLow(c), last)
  BY <1>3 DEF CpuState
<1>5. p \in CpuState
  BY <1>1, PushWordType DEF p
<1>6. Jsr(c).SP = (c.SP + 254) % 256 /\ Jsr(c).mem = WriteW(c.mem, PushedLow(c), last)
  BY <1>2, <1>4, <1>5 DEF CpuState
<1>7. ReadB(h.mem, PushedLow(c)) = last % 256 /\ ReadB(h.mem, PushedHigh(c)) = last \div 256
  BY <1>6, PushedAre, WordReadBack
<1>8. ReadW(h.mem, PushedLow(c)) = last
  <2>1. (PushedLow(c) + 1) % 65536 = PushedHigh(c)
    BY PushedAre
  <2>2. ReadW(h.mem, PushedLow(c)) = (last % 256) + 256 * (last \div 256)
    BY <1>7, <2>1 DEF ReadW
  <2> QED
    BY <1>1, <2>2, BytesOfWord
<1>9. w.SP = c.SP /\ w.value = last
  <2>1. (h.SP + 2) % 256 = c.SP
    BY <1>0, <1>6
  <2> QED
    BY <1>8, <2>1 DEF PopWord, PushedLow
<1> DEFINE pc == (w.value + 1) % 65536
<1>10. Rts(h) = [h EXCEPT !.PC = pc, !.SP = w.SP]
  BY DEF Rts
<1>11. pc = c.PC
  BY <1>1, <1>9
<1> HIDE DEF w, pc
<1> QED
  BY <1>9, <1>10, <1>11

-----------------------------------------------------------------------------
(* What single operations compute.                                         *)

\* Of the flags, an operation changes those that it names.
LEMMA FlagsSet ==
  ASSUME NEW c \in CpuState, NEW f, NEW i \in 0..7
  PROVE  /\ <<i, TRUE>> \in f => Flag(Flagged(c, f), i) = 1
         /\ <<i, TRUE>> \notin f /\ <<i, FALSE>> \in f => Flag(Flagged(c, f), i) = 0
         /\ <<i, TRUE>> \notin f /\ <<i, FALSE>> \notin f =>
              Flag(Flagged(c, f), i) = Flag(c, i)
<1> DEFINE bits == [k \in 0..7 |-> IF <<k, TRUE>> \in f THEN 1
                                   ELSE IF <<k, FALSE>> \in f THEN 0 ELSE BitAt(c.P, k)]
<1>1. bits \in [0..7 -> 0..1]
  BY Numbers, BitType
<1>2. Modify(c.P, f) = FromBits(bits)
  BY DEF Modify
<1>3. Flagged(c, f).P = FromBits(bits)
  <2> HIDE DEF bits
  <2> QED
    BY <1>2 DEF Flagged, CpuState
<1>4. bits[i] = IF <<i, TRUE>> \in f THEN 1
                ELSE IF <<i, FALSE>> \in f THEN 0 ELSE BitAt(c.P, i)
  OBVIOUS
<1> HIDE DEF bits
<1> QED
  BY <1>1, <1>3, <1>4, BitOfBits DEF Flag

LEMMA Tuples == \A i, j, x, y : <<i, x>> = <<j, y>> <=> i = j /\ x = y
OBVIOUS

LEMMA ZeroFlag ==
  ASSUME NEW c \in CpuState, NEW v
  PROVE  Flag(Flagged(c, ZN(v)), zero) = IF v = 0 THEN 1 ELSE 0
<1>1. CASE v = 0
  <2>1. (v = 0) = TRUE
    BY <1>1
  <2>2. <<zero, TRUE>> \in ZN(v)
    BY <2>1, Zenon DEF ZN
  <2> QED
    BY <1>1, <2>2, FlagsSet DEF zero
<1>2. CASE v # 0
  <2>1. (v = 0) = FALSE
    BY <1>2
  <2>2. <<zero, FALSE>> \in ZN(v)
    BY <2>1, Zenon DEF ZN
  <2>3. zero # negative /\ TRUE # FALSE
    BY DEF zero, negative
  <2>4. <<zero, TRUE>> \notin ZN(v)
    BY <2>1, <2>3, Tuples, Zenon DEF ZN
  <2> QED
    BY <1>2, <2>2, <2>4, FlagsSet DEF zero
<1> QED
  BY <1>1, <1>2

LEMMA NegativeFlag ==
  ASSUME NEW c \in CpuState, NEW v \in Int
  PROVE  Flag(Flagged(c, ZN(v)), negative) = IF v > 127 THEN 1 ELSE 0
<1>1. CASE v > 127
  <2>1. (v > 127) = TRUE
    BY <1>1
  <2>2. <<negative, TRUE>> \in ZN(v)
    BY <2>1, Zenon DEF ZN
  <2> QED
    BY <1>1, <2>2, FlagsSet DEF negative
<1>2. CASE ~(v > 127)
  <2>1. (v > 127) = FALSE
    BY <1>2
  <2>2. <<negative, FALSE>> \in ZN(v)
    BY <2>1, Zenon DEF ZN
  <2>3. zero # negative /\ TRUE # FALSE
    BY DEF zero, negative
  <2>4. <<negative, TRUE>> \notin ZN(v)
    BY <2>1, <2>3, Tuples, Zenon DEF ZN
  <2> QED
    BY <1>2, <2>2, <2>4, FlagsSet DEF negative
<1> QED
  BY <1>1, <1>2

LEMMA OnlyFlags ==
  ASSUME NEW c \in CpuState, NEW f
  PROVE  /\ Flagged(c, f) \in CpuState
         /\ Flagged(c, f) = [c EXCEPT !.P = Flagged(c, f).P]
<1>1. Flagged(c, f) = [c EXCEPT !.P = Modify(c.P, f)]
  BY DEF Flagged
<1>2. Flagged(c, f).P = Modify(c.P, f)
  BY <1>1 DEF CpuState
<1> QED
  BY <1>1, <1>2, FlaggedType, Zenon

\* The flags of d are those of c, but that zero and negative are those of v.
Shows(d, c, v) ==
  /\ Flag(d, zero) = IF v = 0 THEN 1 ELSE 0
  /\ Flag(d, negative) = IF v > 127 THEN 1 ELSE 0
  /\ \A i \in 0..7 \ {zero, negative} : Flag(d, i) = Flag(c, i)

LEMMA Loaded ==
  ASSUME NEW c \in CpuState, NEW v \in Byte, NEW r \in {"A", "X", "Y", "op_value"}
  PROVE  /\ Load(c, r, v) \in CpuState /\ Load(c, r, v).P = Flagged(c, ZN(v)).P
         /\ Shows(Load(c, r, v), c, v)
<1> DEFINE d == Load(c, r, v)
           e == Flagged(c, ZN(v))
<1>0. v \in Int
  BY ByteIs
<1>1. e \in CpuState /\ e = [c EXCEPT !.P = e.P]
  BY OnlyFlags
<1>2. /\ Flag(e, zero) = IF v = 0 THEN 1 ELSE 0
      /\ Flag(e, negative) = IF v > 127 THEN 1 ELSE 0
  BY <1>0, ZeroFlag, NegativeFlag
<1>3. ASSUME NEW i \in 0..7 \ {zero, negative} PROVE Flag(e, i) = Flag(c, i)
  BY FlagsSet DEF ZN
<1>4. d = [e EXCEPT ![r] = v] /\ d \in CpuState
  BY LoadType DEF Load
<1> HIDE DEF d, e
<1>5. d.P = e.P
  BY <1>1, <1>4 DEF CpuState
<1>6. \A i : Flag(d, i) = Flag(e, i)
  BY <1>5 DEF Flag
<1>7. Shows(d, c, v)
  BY <1>2, <1>3, <1>6 DEF Shows
<1> QED
  BY <1>4, <1>5, <1>7 DEF d, e

\* d differs from c in the accumulator and the flags only.
InAccumulator(d, c) == d = [c EXCEPT !.A = d.A, !.P = d.P]

LEMMA LoadedA ==
  ASSUME NEW c \in CpuState, NEW v \in Byte
  PROVE  /\ Load(c, "A", v) \in CpuState
         /\ Load(c, "A", v).A = v
         /\ InAccumulator(Load(c, "A", v), c)
         /\ Shows(Load(c, "A", v), c, v)
<1> DEFINE d == Load(c, "A", v)
<1>1. d \in CpuState /\ Shows(d, c, v)
  BY Loaded
<1> DEFINE e == Flagged(c, ZN(v))
<1>2. d = [e EXCEPT !.A = v] /\ d.P = e.P /\ e = [c EXCEPT !.P = e.P]
  BY OnlyFlags, Loaded DEF Load
<1> HIDE DEF d, e
<1>3. d.A = v /\ InAccumulator(d, c)
  BY <1>2 DEF CpuState, InAccumulator
<1> QED
  BY <1>1, <1>3 DEF d

\* Carry and overflow, where an addition or a subtraction sets both.
LEMMA CarryAndOverflow ==
  ASSUME NEW c \in CpuState, NEW p \in BOOLEAN, NEW q \in BOOLEAN
  PROVE  LET d == Flagged(c, {<<carry, p>>, <<overflow, q>>}) IN
         /\ Flag(d, carry) = IF p THEN 1 ELSE 0
         /\ Flag(d, overflow) = IF q THEN 1 ELSE 0
         /\ \A k \in 0..7 \ {carry, overflow} : Flag(d, k) = Flag(c, k)
<1> DEFINE f == {<<carry, p>>, <<overflow, q>>}
<1>0. carry \in 0..7 /\ overflow \in 0..7 /\ carry # overflow
  BY DEF carry, overflow
<1>1. /\ (<<carry, TRUE>> \in f <=> p) /\ (<<carry, FALSE>> \in f <=> ~p)
      /\ (<<overflow, TRUE>> \in f <=> q) /\ (<<overflow, FALSE>> \in f <=> ~q)
  <2>1. CASE p /\ q
    BY <1>0, <2>1
  <2>2. CASE p /\ ~q
    BY <1>0, <2>2
  <2>3. CASE ~p /\ q
    BY <1>0, <2>3
  <2>4. CASE ~p /\ ~q
    BY <1>0, <2>4
  <2> QED
    BY <2>1, <2>2, <2>3, <2>4
<1>2. \A k \in 0..7 \ {carry, overflow} : \A v : <<k, v>> \notin f
  OBVIOUS
<1> HIDE DEF f
<1>3. \A k \in 0..7 \ {carry, overflow} : Flag(Flagged(c, f), k) = Flag(c, k)
  BY <1>2, FlagsSet
<1>4. /\ Flag(Flagged(c, f), carry) = IF p THEN 1 ELSE 0
      /\ Flag(Flagged(c, f), overflow) = IF q THEN 1 ELSE 0
  BY <1>0, <1>1, FlagsSet
<1> QED
  BY <1>3, <1>4 DEF f

\* A result v in A, with the carry p and the overflow q that come with it.
LEMMA Result ==
  ASSUME NEW c \in CpuState, NEW v \in Byte, NEW p \in BOOLEAN, NEW q \in BOOLEAN
  PROVE  LET d == Load(Flagged(c, {<<carry, p>>, <<overflow, q>>}), "A", v) IN
         /\ d \in CpuState /\ InAccumulator(d, c) /\ d.A = v
         /\ Flag(d, carry) = IF p THEN 1 ELSE 0
         /\ Flag(d, overflow) = IF q THEN 1 ELSE 0
         /\ Flag(d, zero) = IF v = 0 THEN 1 ELSE 0
         /\ Flag(d, negative) = IF v > 127 THEN 1 ELSE 0
         /\ \A i \in 0..7 \ {carry, zero, overflow, negative} : Flag(d, i) = Flag(c, i)
<1> DEFINE e == Flagged(c, {<<carry, p>>, <<overflow, q>>})
           d == Load(e, "A", v)
<1>1. /\ Flag(e, carry) = IF p THEN 1 ELSE 0
      /\ Flag(e, overflow) = IF q THEN 1 ELSE 0
      /\ \A i \in 0..7 \ {carry, overflow} : Flag(e, i) = Flag(c, i)
  BY CarryAndOverflow
<1>2. e \in CpuState /\ e = [c EXCEPT !.P = e.P]
  BY OnlyFlags
<1> HIDE DEF e
<1>3. d \in CpuState /\ Shows(d, e, v) /\ d.A = v /\ InAccumulator(d, e)
  BY <1>2, LoadedA
<1> HIDE DEF d
<1>4. Flag(d, carry) = Flag(e, carry) /\ Flag(d, overflow) = Flag(e, overflow)
  BY <1>3 DEF Shows, carry, zero, overflow, negative
<1>5. InAccumulator(d, c)
  BY <1>2, <1>3 DEF CpuState, InAccumulator
<1> QED
  BY <1>1, <1>3, <1>4, <1>5 DEF Shows, d, e

SignedByte(b) == IF b > 127 THEN b - 256 ELSE b

\* The arithmetic of adc and sbc, on numbers alone.
LEMMA AddedBytes ==
  ASSUME NEW a \in Byte, NEW b \in Byte, NEW n \in 0..1
  PROVE  LET r == a + b + n
             signed == SignedByte(a) + SignedByte(b) + n IN
         /\ r % 256 \in Byte
         /\ (r % 256) + 256 * (IF BitAt(r, 8) = 1 THEN 1 ELSE 0) = r
         /\ /\ BitAt(a, 7) = BitAt(b, 7)
            /\ BitAt(a, 7) # BitAt(r, 7)
            <=> signed < -128 \/ signed > 127
<1> DEFINE r == a + b + n
           s == SignedByte(a) + SignedByte(b) + n
<1>0. a \in Int /\ 0 <= a /\ a <= 255 /\ b \in Int /\ 0 <= b /\ b <= 255
  BY ByteIs
<1>1. BitAt(r, 8) = (r \div 256) % 2 /\ BitAt(r, 7) = (r \div 128) % 2
  <2>1. r \in Int
    BY <1>0
  <2> HIDE DEF r
  <2> QED
    BY <2>1, BitsAre
<1>2. BitAt(a, 7) = (a \div 128) % 2 /\ BitAt(b, 7) = (b \div 128) % 2
  BY <1>0, BitsAre
<1>3. r % 256 \in Byte
  BY <1>0, ByteIs
<1>4. (r % 256) + 256 * (IF BitAt(r, 8) = 1 THEN 1 ELSE 0) = r
  BY <1>0, <1>1
<1>5. (a \div 128) % 2 = IF a > 127 THEN 1 ELSE 0
  BY <1>0
<1>6. (b \div 128) % 2 = IF b > 127 THEN 1 ELSE 0
  BY <1>0
<1>7. (r \div 128) % 2 = IF r > 383 THEN 1 ELSE IF r > 255 THEN 0 ELSE IF r > 127 THEN 1 ELSE 0
  BY <1>0
<1>8. /\ BitAt(a, 7) = BitAt(b, 7)
      /\ BitAt(a, 7) # BitAt(r, 7)
      <=> s < -128 \/ s > 127
  BY <1>0, <1>1, <1>2, <1>5, <1>6, <1>7 DEF SignedByte
<1> QED
  BY <1>3, <1>4, <1>8

LEMMA SubtractedBytes ==
  ASSUME NEW a \in Byte, NEW b \in Byte, NEW n \in 0..1
  PROVE  LET r == a - b - (1 - n)
             signed == SignedByte(a) - SignedByte(b) - (1 - n) IN
         /\ r % 256 \in Byte
         /\ (r % 256) - 256 * (IF BitAt(r, 8) = 0 THEN 0 ELSE 1) = r
         /\ /\ BitAt(a, 7) # BitAt(b, 7)
            /\ BitAt(a, 7) # BitAt(r, 7)
            <=> signed < -128 \/ signed > 127
<1> DEFINE r == a - b - (1 - n)
           s == SignedByte(a) - SignedByte(b) - (1 - n)
<1>0. a \in Int /\ 0 <= a /\ a <= 255 /\ b \in Int /\ 0 <= b /\ b <= 255
  BY ByteIs
<1>1. BitAt(r, 8) = (r \div 256) % 2 /\ BitAt(r, 7) = (r \div 128) % 2
  <2>1. r \in Int
    BY <1>0
  <2> HIDE DEF r
  <2> QED
    BY <2>1, BitsAre
<1>2. BitAt(a, 7) = (a \div 128) % 2 /\ BitAt(b, 7) = (b \div 128) % 2
  BY <1>0, BitsAre
<1>3. r % 256 \in Byte
  BY <1>0, ByteIs
<1>4. (r % 256) - 256 * (IF BitAt(r, 8) = 0 THEN 0 ELSE 1) = r
  BY <1>0, <1>1
<1>5. (a \div 128) % 2 = IF a > 127 THEN 1 ELSE 0
  BY <1>0
<1>6. (b \div 128) % 2 = IF b > 127 THEN 1 ELSE 0
  BY <1>0
<1>7. (r \div 128) % 2 = IF r > 127 THEN 1 ELSE IF r >= 0 THEN 0 ELSE IF r >= -128 THEN 1 ELSE 0
  BY <1>0
<1>8. /\ BitAt(a, 7) # BitAt(b, 7)
      /\ BitAt(a, 7) # BitAt(r, 7)
      <=> s < -128 \/ s > 127
  BY <1>0, <1>1, <1>2, <1>5, <1>6, <1>7 DEF SignedByte
<1> QED
  BY <1>3, <1>4, <1>8

\* What is left after an addition or subtraction with the outcome n, of which
\* the carry in the result is the part that A cannot hold.
LEMMA AdcResult ==
  ASSUME NEW c \in CpuState
  PROVE  LET d == Adc(c)
             signed == SignedByte(c.A) + SignedByte(c.op_value) + Flag(c, carry) IN
         /\ d \in CpuState /\ InAccumulator(d, c)
         /\ d.A + 256 * Flag(d, carry) = c.A + c.op_value + Flag(c, carry)
         /\ Flag(d, overflow) = 1 <=> signed < -128 \/ signed > 127
         /\ Flag(d, zero) = 1 <=> d.A = 0
         /\ Flag(d, negative) = 1 <=> d.A > 127
<1> DEFINE d == Adc(c)
           n == Flag(c, carry)
           r == c.A + c.op_value + n
           s == SignedByte(c.A) + SignedByte(c.op_value) + n
           p == BitAt(r, 8) = 1
           q == /\ BitAt(c.A, 7) = BitAt(c.op_value, 7)
                /\ BitAt(c.A, 7) # BitAt(r, 7)
           v == r % 256
<1>1. c.A \in Byte /\ c.op_value \in Byte /\ n \in 0..1
  BY Fields, FlagType DEF carry
<1>2. /\ v \in Byte /\ v + 256 * (IF p THEN 1 ELSE 0) = r
      /\ q <=> s < -128 \/ s > 127
  <2> HIDE DEF n
  <2> QED
    BY <1>1, AddedBytes
<1>3. d = Load(Flagged(c, {<<carry, p>>, <<overflow, q>>}), "A", v)
  BY DEF Adc
<1>4. p \in BOOLEAN /\ q \in BOOLEAN
  OBVIOUS
<1> HIDE DEF p, q, v, r, s, n, d
<1>5. /\ d \in CpuState /\ InAccumulator(d, c) /\ d.A = v
      /\ Flag(d, carry) = IF p THEN 1 ELSE 0
      /\ Flag(d, overflow) = IF q THEN 1 ELSE 0
      /\ Flag(d, zero) = IF v = 0 THEN 1 ELSE 0
      /\ Flag(d, negative) = IF v > 127 THEN 1 ELSE 0
  BY <1>2, <1>3, <1>4, Result
<1>6. d.A + 256 * Flag(d, carry) = r
  BY <1>2, <1>5
<1>7. Flag(d, overflow) = 1 <=> s < -128 \/ s > 127
  BY <1>2, <1>5
<1>8. (Flag(d, zero) = 1 <=> d.A = 0) /\ (Flag(d, negative) = 1 <=> d.A > 127)
  BY <1>5
<1> QED
  BY <1>5, <1>6, <1>7, <1>8 DEF r, s, n, d

LEMMA SbcResult ==
  ASSUME NEW c \in CpuState
  PROVE  LET d == Sbc(c)
             borrow == 1 - Flag(c, carry)
             signed == SignedByte(c.A) - SignedByte(c.op_value) - borrow IN
         /\ d \in CpuState /\ InAccumulator(d, c)
         /\ d.A - 256 * (1 - Flag(d, carry)) = c.A - c.op_value - borrow
         /\ Flag(d, overflow) = 1 <=> signed < -128 \/ signed > 127
         /\ Flag(d, zero) = 1 <=> d.A = 0
         /\ Flag(d, negative) = 1 <=> d.A > 127
<1> DEFINE d == Sbc(c)
           n == Flag(c, carry)
           r == c.A - c.op_value - (1 - n)
           s == SignedByte(c.A) - SignedByte(c.op_value) - (1 - n)
           p == BitAt(r, 8) = 0
           q == /\ BitAt(c.A, 7) # BitAt(c.op_value, 7)
                /\ BitAt(c.A, 7) # BitAt(r, 7)
           v == r % 256
<1>1. c.A \in Byte /\ c.op_value \in Byte /\ n \in 0..1
  BY Fields, FlagType DEF carry
<1>2. /\ v \in Byte /\ v - 256 * (IF p THEN 0 ELSE 1) = r
      /\ q <=> s < -128 \/ s > 127
  <2> HIDE DEF n
  <2> QED
    BY <1>1, SubtractedBytes
<1>3. d = Load(Flagged(c, {<<carry, p>>, <<overflow, q>>}), "A", v)
  BY DEF Sbc
<1>4. p \in BOOLEAN /\ q \in BOOLEAN
  OBVIOUS
<1> HIDE DEF p, q, v, r, s, n, d
<1>5. /\ d \in CpuState /\ InAccumulator(d, c) /\ d.A = v
      /\ Flag(d, carry) = IF p THEN 1 ELSE 0
      /\ Flag(d, overflow) = IF q THEN 1 ELSE 0
      /\ Flag(d, zero) = IF v = 0 THEN 1 ELSE 0
      /\ Flag(d, negative) = IF v > 127 THEN 1 ELSE 0
  BY <1>2, <1>3, <1>4, Result
<1>6. d.A - 256 * (1 - Flag(d, carry)) = r
  BY <1>2, <1>5
<1>7. Flag(d, overflow) = 1 <=> s < -128 \/ s > 127
  BY <1>2, <1>5
<1>8. (Flag(d, zero) = 1 <=> d.A = 0) /\ (Flag(d, negative) = 1 <=> d.A > 127)
  BY <1>5
<1> QED
  BY <1>5, <1>6, <1>7, <1>8 DEF r, s, n, d

SignedWord(w) == IF w > 32767 THEN w - 65536 ELSE w

LEMMA WordFromBytes ==
  ASSUME NEW x \in Word
  PROVE  /\ x % 256 \in Byte /\ x \div 256 \in Byte
         /\ x = (x % 256) + 256 * (x \div 256)
         /\ SignedWord(x) = 256 * SignedByte(x \div 256) + (x % 256)
<1>1. x \in Int /\ 0 <= x /\ x <= 65535
  BY WordIs
<1>2. x % 256 \in Byte /\ x \div 256 \in Byte /\ x = (x % 256) + 256 * (x \div 256)
  BY BytesOfWord
<1>3. x > 32767 <=> x \div 256 > 127
  BY <1>1
<1> QED
  BY <1>1, <1>2, <1>3, ByteIs DEF SignedWord, SignedByte

\* The bytes l and d that come from those of x and y with the carry n, with m
\* between them and k out of them, are those of a sum, carries, overflow and all.
AddUp(x, y, n, l, m, d, k) ==
  LET s == SignedByte(x \div 256) + SignedByte(y \div 256) + m
      t == SignedWord(x) + SignedWord(y) + n IN
  /\ l + 256 * d + 65536 * k = x + y + n
  /\ s < -128 \/ s > 127 <=> t < -32768 \/ t > 32767

LEMMA SumOfWords ==
  ASSUME NEW x \in Word, NEW y \in Word, NEW l \in Byte, NEW d \in Byte,
         NEW n \in 0..1, NEW m \in 0..1, NEW k \in 0..1,
         l + 256 * m = (x % 256) + (y % 256) + n,
         d + 256 * k = (x \div 256) + (y \div 256) + m
  PROVE  AddUp(x, y, n, l, m, d, k)
<1>1. PICK xl \in Byte, xh \in Byte :
        /\ xl = x % 256 /\ xh = x \div 256
        /\ x = xl + 256 * xh /\ SignedWord(x) = 256 * SignedByte(xh) + xl
  BY WordFromBytes
<1>2. PICK yl \in Byte, yh \in Byte :
        /\ yl = y % 256 /\ yh = y \div 256
        /\ y = yl + 256 * yh /\ SignedWord(y) = 256 * SignedByte(yh) + yl
  BY WordFromBytes
<1>3. /\ l \in Int /\ 0 <= l /\ l <= 255 /\ d \in Int
      /\ xl \in Int /\ xh \in Int /\ yl \in Int /\ yh \in Int
  BY ByteIs
<1>4. PICK xs \in Int, ys \in Int : xs = SignedByte(xh) /\ ys = SignedByte(yh)
  BY <1>3 DEF SignedByte
<1>5. l + 256 * m = xl + yl + n /\ d + 256 * k = xh + yh + m
  BY <1>1, <1>2
<1>6. PICK s \in Int, t \in Int :
        /\ s = xs + ys + m
        /\ t = (256 * xs + xl) + (256 * ys + yl) + n
  BY <1>3
<1>7. l + 256 * d + 65536 * k = x + y + n
  BY <1>1, <1>2, <1>3, <1>5
<1>8. t = 256 * s + l
  BY <1>3, <1>5, <1>6
<1>9. s < -128 \/ s > 127 <=> t < -32768 \/ t > 32767
  BY <1>3, <1>6, <1>8
<1>10. /\ s = SignedByte(x \div 256) + SignedByte(y \div 256) + m
       /\ t = SignedWord(x) + SignedWord(y) + n
  BY <1>1, <1>2, <1>4, <1>6, Zenon
<1> QED
  BY <1>7, <1>9, <1>10, SMT DEF AddUp

\* Two additions, the second with the carry of the first, whatever instructions
\* that leave the carry alone come between them: they add words, and the flags
\* of the second are those of the word (carry without signs, overflow with).
THEOREM WordsAdd ==
  ASSUME NEW x \in Word, NEW y \in Word, NEW low \in CpuState, NEW high \in CpuState,
         low.A = x % 256, low.op_value = y % 256,
         high.A = x \div 256, high.op_value = y \div 256,
         Flag(high, carry) = Flag(Adc(low), carry)
  PROVE  LET d == Adc(high)
             sum == Adc(low).A + 256 * d.A
             signed == SignedWord(x) + SignedWord(y) + Flag(low, carry) IN
         /\ sum + 65536 * Flag(d, carry) = x + y + Flag(low, carry)
         /\ Flag(d, overflow) = 1 <=> signed < -32768 \/ signed > 32767
         /\ Flag(d, negative) = 1 <=> SignedWord(sum) < 0
<1> DEFINE l == Adc(low)
           d == Adc(high)
           n == Flag(low, carry)
           m == Flag(l, carry)
           k == Flag(d, carry)
           s == SignedByte(x \div 256) + SignedByte(y \div 256) + m
           t == SignedWord(x) + SignedWord(y) + n
<1>1. l \in CpuState /\ d \in CpuState
  BY AdcResult
<1>2. n \in 0..1 /\ m \in 0..1 /\ k \in 0..1
  BY <1>1, FlagType DEF carry
<1>3. l.A + 256 * m = (x % 256) + (y % 256) + n
  BY AdcResult
<1>4. d.A + 256 * k = (x \div 256) + (y \div 256) + m
  BY AdcResult
<1>5. Flag(d, overflow) = 1 <=> s < -128 \/ s > 127
  BY AdcResult
<1>6. Flag(d, negative) = 1 <=> d.A > 127
  BY AdcResult
<1>7. l.A \in Byte /\ d.A \in Byte
  BY <1>1, Fields
<1> HIDE DEF l, d, n, m, k
<1>8. AddUp(x, y, n, l.A, m, d.A, k)
  BY <1>2, <1>3, <1>4, <1>7, SumOfWords
<1>9. /\ l.A + 256 * d.A + 65536 * k = x + y + n
      /\ Flag(d, overflow) = 1 <=> t < -32768 \/ t > 32767
  BY <1>5, <1>8, SMT DEF AddUp
<1>10. Flag(d, negative) = 1 <=> SignedWord(l.A + 256 * d.A) < 0
  BY <1>6, <1>7, ByteIs DEF SignedWord
<1> QED
  BY <1>9, <1>10 DEF l, d, n, k

\* The same for a difference, with borrows for carries; and which of the two
\* is less when their signs count can be told from the sign and the overflow.
TakeAway(x, y, n, l, m, d, k) ==
  LET s == SignedByte(x \div 256) - SignedByte(y \div 256) - m
      t == SignedWord(x) - SignedWord(y) - n IN
  /\ l + 256 * d - 65536 * k = x - y - n
  /\ s < -128 \/ s > 127 <=> t < -32768 \/ t > 32767
  /\ t < 0 <=> (d > 127 <=> ~(s < -128 \/ s > 127))

LEMMA DifferenceOfWords ==
  ASSUME NEW x \in Word, NEW y \in Word, NEW l \in Byte, NEW d \in Byte,
         NEW n \in 0..1, NEW m \in 0..1, NEW k \in 0..1,
         l - 256 * m = (x % 256) - (y % 256) - n,
         d - 256 * k = (x \div 256) - (y \div 256) - m
  PROVE  TakeAway(x, y, n, l, m, d, k)
<1>1. PICK xl \in Byte, xh \in Byte :
        /\ xl = x % 256 /\ xh = x \div 256
        /\ x = xl + 256 * xh /\ SignedWord(x) = 256 * SignedByte(xh) + xl
  BY WordFromBytes
<1>2. PICK yl \in Byte, yh \in Byte :
        /\ yl = y % 256 /\ yh = y \div 256
        /\ y = yl + 256 * yh /\ SignedWord(y) = 256 * SignedByte(yh) + yl
  BY WordFromBytes
<1>3. /\ l \in Int /\ 0 <= l /\ l <= 255 /\ d \in Int /\ 0 <= d /\ d <= 255
      /\ xl \in Int /\ yl \in Int
      /\ xh \in Int /\ 0 <= xh /\ xh <= 255 /\ yh \in Int /\ 0 <= yh /\ yh <= 255
  BY ByteIs
<1>4. PICK xs \in Int, ys \in Int :
        /\ xs = SignedByte(xh) /\ xs = IF xh > 127 THEN xh - 256 ELSE xh
        /\ ys = SignedByte(yh) /\ ys = IF yh > 127 THEN yh - 256 ELSE yh
  BY <1>3 DEF SignedByte
<1>5. l - 256 * m = xl - yl - n /\ d - 256 * k = xh - yh - m
  BY <1>1, <1>2
<1>6. PICK s \in Int, t \in Int :
        /\ s = xs - ys - m
        /\ t = (256 * xs + xl) - (256 * ys + yl) - n
  BY <1>3
<1>7. l + 256 * d - 65536 * k = x - y - n
  BY <1>1, <1>2, <1>3, <1>5
<1>8. t = 256 * s + l
  BY <1>3, <1>5, <1>6
<1>9. s < -128 \/ s > 127 <=> t < -32768 \/ t > 32767
  BY <1>3, <1>6, <1>8
<1>10. s < 0 <=> (d > 127 <=> ~(s < -128 \/ s > 127))
  BY <1>3, <1>4, <1>5, <1>6
<1>11. t < 0 <=> s < 0
  BY <1>3, <1>6, <1>8
<1>12. /\ s = SignedByte(x \div 256) - SignedByte(y \div 256) - m
       /\ t = SignedWord(x) - SignedWord(y) - n
  <2>1. xs = SignedByte(x \div 256) /\ ys = SignedByte(y \div 256)
    BY <1>1, <1>2, <1>4, Zenon
  <2>2. SignedWord(x) = 256 * xs + xl /\ SignedWord(y) = 256 * ys + yl
    BY <1>1, <1>2, <1>4, Zenon
  <2> QED
    BY <1>6, <2>1, <2>2, Zenon
<1> QED
  BY <1>7, <1>9, <1>10, <1>11, <1>12, SMT DEF TakeAway

\* Two subtractions in the same way subtract words: the carry is the absence of
\* a borrow, so that it says which word is less without signs; with signs the
\* negative flag says so, or its opposite where there is an overflow.
THEOREM WordsSubtract ==
  ASSUME NEW x \in Word, NEW y \in Word, NEW low \in CpuState, NEW high \in CpuState,
         low.A = x % 256, low.op_value = y % 256,
         high.A = x \div 256, high.op_value = y \div 256,
         Flag(high, carry) = Flag(Sbc(low), carry),
         NEW n \in 0..1, Flag(low, carry) = 1 - n
  PROVE  LET d == Sbc(high)
             difference == Sbc(low).A + 256 * d.A
             signed == SignedWord(x) - SignedWord(y) - n IN
         /\ difference - 65536 * (1 - Flag(d, carry)) = x - y - n
         /\ Flag(d, carry) = 1 <=> x >= y + n
         /\ Flag(d, overflow) = 1 <=> signed < -32768 \/ signed > 32767
         /\ Flag(d, negative) # Flag(d, overflow) <=> SignedWord(x) < SignedWord(y) + n
<1> DEFINE l == Sbc(low)
           d == Sbc(high)
           m == 1 - Flag(l, carry)
           k == 1 - Flag(d, carry)
           s == SignedByte(x \div 256) - SignedByte(y \div 256) - m
           t == SignedWord(x) - SignedWord(y) - n
<1>1. l \in CpuState /\ d \in CpuState
  BY SbcResult
<1>2. /\ Flag(d, carry) \in 0..1 /\ Flag(d, negative) \in 0..1 /\ Flag(d, overflow) \in 0..1
      /\ m \in 0..1 /\ k \in 0..1
  <2>1. /\ Flag(l, carry) \in 0..1 /\ Flag(d, carry) \in 0..1
        /\ Flag(d, negative) \in 0..1 /\ Flag(d, overflow) \in 0..1
    BY <1>1, FlagType DEF carry, negative, overflow
  <2> HIDE DEF l, d
  <2> QED
    BY <2>1
<1>3. l.A - 256 * m = (x % 256) - (y % 256) - n
  <2>1. l.A - 256 * m = (x % 256) - (y % 256) - (1 - Flag(low, carry))
    BY SbcResult
  <2> HIDE DEF l, m
  <2> QED
    BY <2>1
<1>4. d.A - 256 * k = (x \div 256) - (y \div 256) - m
  BY SbcResult
<1>5. Flag(d, overflow) = 1 <=> s < -128 \/ s > 127
  BY SbcResult
<1>6. Flag(d, negative) = 1 <=> d.A > 127
  BY SbcResult
<1>7. l.A \in Byte /\ d.A \in Byte
  BY <1>1, Fields
<1>8. k = 1 - Flag(d, carry)
  OBVIOUS
<1> HIDE DEF l, d, m, k
<1>9. TakeAway(x, y, n, l.A, m, d.A, k)
  BY <1>2, <1>3, <1>4, <1>7, DifferenceOfWords
<1>10. /\ l.A + 256 * d.A - 65536 * k = x - y - n
       /\ Flag(d, overflow) = 1 <=> t < -32768 \/ t > 32767
       /\ t < 0 <=> (Flag(d, negative) = 1 <=> ~(Flag(d, overflow) = 1))
  BY <1>5, <1>6, <1>9, SMT DEF TakeAway
<1>11. Flag(d, negative) # Flag(d, overflow) <=> SignedWord(x) < SignedWord(y) + n
  <2>1. t < 0 <=> SignedWord(x) < SignedWord(y) + n
    <3>1. SignedWord(x) \in Int /\ SignedWord(y) \in Int
      BY WordIs DEF SignedWord
    <3> QED
      BY <1>2, <3>1
  <2> HIDE DEF t
  <2> QED
    BY <1>2, <1>10, <2>1
<1>12. Flag(d, carry) = 1 <=> x >= y + n
  BY <1>2, <1>7, <1>8, <1>10, ByteIs, WordIs
<1>13. (l.A + 256 * d.A) - 65536 * (1 - Flag(d, carry)) = x - y - n
  BY <1>2, <1>7, <1>8, <1>10, ByteIs
<1>14. Flag(d, overflow) = 1 <=> t < -32768 \/ t > 32767
  BY <1>10
<1> QED
  BY <1>11, <1>12, <1>13, <1>14 DEF l, d

-----------------------------------------------------------------------------
(* Shifts of words.                                                        *)

\* A flag that is set alone, before the result of a shift is loaded.
LEMMA CarryAlone ==
  ASSUME NEW c \in CpuState, NEW p \in BOOLEAN
  PROVE  Flag(Flagged(c, {<<carry, p>>}), carry) = IF p THEN 1 ELSE 0
<1> DEFINE f == {<<carry, p>>}
<1>1. carry \in 0..7
  BY DEF carry
<1>2. (<<carry, TRUE>> \in f <=> p) /\ (<<carry, FALSE>> \in f <=> ~p)
  <2>1. CASE p
    BY <2>1
  <2>2. CASE ~p
    BY <2>2
  <2> QED
    BY <2>1, <2>2
<1> HIDE DEF f
<1>3. Flag(Flagged(c, f), carry) = IF p THEN 1 ELSE 0
  BY <1>1, <1>2, FlagsSet
<1> QED
  BY <1>3 DEF f

LEMMA ShiftedA ==
  ASSUME NEW c \in CpuState, NEW kind \in {"asl", "lsr", "rol", "ror"}
  PROVE  LET d == ShiftA(kind, c)
             in == Flag(c, carry) IN
         /\ d \in CpuState
         /\ kind = "asl" => d.A + 256 * Flag(d, carry) = 2 * c.A
         /\ kind = "rol" => d.A + 256 * Flag(d, carry) = 2 * c.A + in
         /\ kind = "lsr" => 2 * d.A + Flag(d, carry) = c.A
         /\ kind = "ror" => 2 * d.A + Flag(d, carry) = c.A + 256 * in
<1> DEFINE d == ShiftA(kind, c)
           in == Flag(c, carry)
           a == c.A
           s == Shifted(kind, a, in)
           p == s.out
           v == s.value
           e == Flagged(c, {<<carry, p>>})
<1>1. in \in 0..1 /\ a \in Byte /\ a \in Int /\ 0 <= a /\ a <= 255
  BY Fields, ByteIs, FlagType DEF carry
<1>2. v \in Byte
  <2> HIDE DEF in, a
  <2> QED
    BY <1>1, ShiftedType
<1>3. /\ kind \in {"asl", "rol"} => (p <=> a > 127)
      /\ kind \in {"lsr", "ror"} => (p <=> a % 2 = 1)
      /\ kind = "asl" => v = (2 * a) % 256
      /\ kind = "rol" => v = ((2 * a) % 256) + in
      /\ kind = "lsr" => v = a \div 2
      /\ kind = "ror" => v = (a \div 2) + 128 * in
      /\ p \in BOOLEAN
  <2> HIDE DEF in, a
  <2>1. /\ kind = "asl" => s = [out |-> a > 127, value |-> (2 * a) % 256]
        /\ kind = "rol" => s = [out |-> a > 127, value |-> ((2 * a) % 256) + in]
        /\ kind = "lsr" => s = [out |-> a % 2 = 1, value |-> a \div 2]
        /\ kind = "ror" => s = [out |-> a % 2 = 1, value |-> (a \div 2) + 128 * in]
    BY DEF Shifted
  <2> HIDE DEF s
  <2>2. /\ kind \in {"asl", "rol"} => p = (a > 127)
        /\ kind \in {"lsr", "ror"} => p = (a % 2 = 1)
        /\ kind = "asl" => v = (2 * a) % 256
        /\ kind = "rol" => v = ((2 * a) % 256) + in
        /\ kind = "lsr" => v = a \div 2
        /\ kind = "ror" => v = (a \div 2) + 128 * in
    BY <2>1
  <2> HIDE DEF p, v
  <2>3. (a > 127) \in BOOLEAN /\ (a % 2 = 1) \in BOOLEAN
    OBVIOUS
  <2>4. kind \in {"asl", "rol"} \/ kind \in {"lsr", "ror"}
    OBVIOUS
  <2>5. p \in BOOLEAN
    BY <2>2, <2>3, <2>4, Zenon
  <2>6. /\ kind \in {"asl", "rol"} => (p <=> a > 127)
        /\ kind \in {"lsr", "ror"} => (p <=> a % 2 = 1)
    BY <2>2, <2>5
  <2> QED
    BY <2>2, <2>5, <2>6
<1>4. d = Load(e, "A", v)
  BY DEF ShiftA
<1> HIDE DEF s, p, v, in, a, d
<1>5. e \in CpuState /\ Flag(e, carry) = IF p THEN 1 ELSE 0
  BY <1>3, FlaggedType, CarryAlone
<1> HIDE DEF e
<1>6. d \in CpuState /\ d.A = v /\ Flag(d, carry) = IF p THEN 1 ELSE 0
  <2>1. d \in CpuState /\ d.A = v /\ Shows(d, e, v)
    BY <1>2, <1>4, <1>5, LoadedA
  <2>2. Flag(d, carry) = Flag(e, carry)
    BY <2>1 DEF Shows, carry, zero, negative
  <2> QED
    BY <1>5, <2>1, <2>2
<1>7. kind = "asl" => d.A + 256 * Flag(d, carry) = 2 * a
  BY <1>1, <1>3, <1>6
<1>8. kind = "rol" => d.A + 256 * Flag(d, carry) = 2 * a + in
  BY <1>1, <1>3, <1>6
<1>9. kind = "lsr" => 2 * d.A + Flag(d, carry) = a
  BY <1>1, <1>3, <1>6
<1>10. kind = "ror" => 2 * d.A + Flag(d, carry) = a + 256 * in
  BY <1>1, <1>3, <1>6
<1> QED
  BY <1>6, <1>7, <1>8, <1>9, <1>10 DEF d, in, a

\* A word is doubled by asl on its low and rol on its high byte, and comes back
\* by ror on the high and then on the low byte, as long as what comes between
\* them leaves the carry alone: no bit is lost, the uppermost included.
THEOREM WordsShift ==
  ASSUME NEW x \in Word, NEW low \in CpuState, NEW high \in CpuState,
         low.A = x % 256, high.A = x \div 256,
         Flag(high, carry) = Flag(ShiftA("asl", low), carry),
         NEW high2 \in CpuState, NEW low2 \in CpuState,
         high2.A = ShiftA("rol", high).A, low2.A = ShiftA("asl", low).A,
         Flag(high2, carry) = Flag(ShiftA("rol", high), carry),
         Flag(low2, carry) = Flag(ShiftA("ror", high2), carry)
  PROVE  /\ low2.A + 256 * high2.A + 65536 * Flag(high2, carry) = 2 * x
         /\ ShiftA("ror", low2).A + 256 * ShiftA("ror", high2).A = x
         /\ Flag(ShiftA("ror", low2), carry) = 0
<1> DEFINE l == low2.A
           h == high2.A
           m == Flag(high, carry)
           k == Flag(high2, carry)
           l2 == ShiftA("ror", low2).A
           h2 == ShiftA("ror", high2).A
           m2 == Flag(low2, carry)
           k2 == Flag(ShiftA("ror", low2), carry)
<1>1. PICK xl \in Int, xh \in Int :
        /\ xl = x % 256 /\ xh = x \div 256 /\ x = xl + 256 * xh
        /\ 0 <= xl /\ xl <= 255 /\ 0 <= xh /\ xh <= 255
  BY WordFromBytes, ByteIs
<1>2. l + 256 * m = 2 * xl
  BY <1>1, ShiftedA
<1>3. h + 256 * k = 2 * xh + m
  BY <1>1, ShiftedA
<1>4. 2 * h2 + m2 = h + 256 * k
  BY ShiftedA
<1>5. 2 * l2 + k2 = l + 256 * m2
  BY ShiftedA
<1>6. l \in Byte /\ h \in Byte /\ l2 \in Byte /\ h2 \in Byte
  <2>1. ShiftA("ror", low2) \in CpuState /\ ShiftA("ror", high2) \in CpuState
    BY ShiftType
  <2> QED
    BY <2>1, Fields
<1>7. m \in 0..1 /\ k \in 0..1 /\ m2 \in 0..1 /\ k2 \in 0..1
  <2>1. ShiftA("ror", low2) \in CpuState
    BY ShiftType
  <2> QED
    BY <2>1, FlagType DEF carry
<1> HIDE DEF l, h, m, k, l2, h2, m2, k2
<1>8. l \in Int /\ h \in Int /\ l2 \in Int /\ h2 \in Int
  BY <1>6, ByteIs
<1>9. l + 256 * h + 65536 * k = 2 * x
  BY <1>1, <1>2, <1>3, <1>7, <1>8
<1>10. h2 = xh /\ m2 = m
  BY <1>3, <1>4, <1>7, <1>8
<1>11. l2 = xl /\ k2 = 0
  BY <1>2, <1>5, <1>7, <1>8, <1>10
<1>12. l2 + 256 * h2 = x
  BY <1>1, <1>10, <1>11
<1> QED
  BY <1>9, <1>11, <1>12 DEF l, h, k, l2, h2, k2

-----------------------------------------------------------------------------
(* The combined operations.                                                *)

LEMMA SameBits ==
  ASSUME NEW P \in Byte, NEW Q \in Byte, \A i \in 0..7 : BitAt(P, i) = BitAt(Q, i)
  PROVE  P = Q
<1>1. [i \in 0..7 |-> BitAt(P, i)] = [i \in 0..7 |-> BitAt(Q, i)]
  OBVIOUS
<1>2. /\ P = FromBits([i \in 0..7 |-> BitAt(P, i)])
      /\ Q = FromBits([i \in 0..7 |-> BitAt(Q, i)])
  BY ByteIsItsBits
<1> QED
  BY <1>1, <1>2, Zenon

\* d has the registers and memory of c, but for the flags zero and negative.
ButForZN(d, c) ==
  /\ d = [c EXCEPT !.P = d.P]
  /\ \A i \in 0..7 \ {zero, negative} : Flag(d, i) = Flag(c, i)

\* sbc on given operands.
Subtracted(c, a, b, in) ==
  LET r == a - b - (1 - in) IN
  Load(Flagged(c, {<<carry, BitAt(r, 8) = 0>>,
                   <<overflow, /\ BitAt(a, 7) # BitAt(b, 7)
                               /\ BitAt(a, 7) # BitAt(r, 7)>>}), "A", r % 256)

\* sbc and the comparisons set both flags, whatever they were.
LEMMA SbcSetsZN ==
  ASSUME NEW c \in CpuState, NEW d \in CpuState, ButForZN(d, c)
  PROVE  Sbc(d) = Sbc(c)
<1> DEFINE r == c.A - c.op_value - (1 - Flag(c, carry))
           p == BitAt(r, 8) = 0
           q == /\ BitAt(c.A, 7) # BitAt(c.op_value, 7)
                /\ BitAt(c.A, 7) # BitAt(r, 7)
           v == r % 256
           x == Sbc(c)
           y == Sbc(d)
<1>1. d.A = c.A /\ d.op_value = c.op_value /\ Flag(d, carry) = Flag(c, carry)
  BY DEF ButForZN, CpuState, carry, zero, negative
<1>2. /\ x = Load(Flagged(c, {<<carry, p>>, <<overflow, q>>}), "A", v)
      /\ y = Load(Flagged(d, {<<carry, p>>, <<overflow, q>>}), "A", v)
  <2>1. /\ x = Subtracted(c, c.A, c.op_value, Flag(c, carry))
        /\ y = Subtracted(d, d.A, d.op_value, Flag(d, carry))
    BY Zenon DEF Sbc, Subtracted
  <2>2. y = Subtracted(d, c.A, c.op_value, Flag(c, carry))
    BY <1>1, <2>1, Zenon
  <2> QED
    BY <2>1, <2>2, Zenon DEF Subtracted
<1>3. v \in Byte /\ p \in BOOLEAN /\ q \in BOOLEAN
  <2>1. r \in Int
    BY Numbers, FlagType DEF carry
  <2> HIDE DEF r
  <2> QED
    BY <2>1, ByteIs
<1> HIDE DEF p, q, v, r, x, y
<1>4. /\ x \in CpuState /\ InAccumulator(x, c) /\ x.A = v
      /\ y \in CpuState /\ InAccumulator(y, d) /\ y.A = v
  BY <1>2, <1>3, Result
<1>5. /\ Flag(x, carry) = Flag(y, carry) /\ Flag(x, overflow) = Flag(y, overflow)
      /\ Flag(x, zero) = Flag(y, zero) /\ Flag(x, negative) = Flag(y, negative)
  <2>1. /\ Flag(x, carry) = (IF p THEN 1 ELSE 0) /\ Flag(x, overflow) = (IF q THEN 1 ELSE 0)
        /\ Flag(x, zero) = (IF v = 0 THEN 1 ELSE 0)
        /\ Flag(x, negative) = (IF v > 127 THEN 1 ELSE 0)
    BY <1>2, <1>3, Result
  <2>2. /\ Flag(y, carry) = (IF p THEN 1 ELSE 0) /\ Flag(y, overflow) = (IF q THEN 1 ELSE 0)
        /\ Flag(y, zero) = (IF v = 0 THEN 1 ELSE 0)
        /\ Flag(y, negative) = (IF v > 127 THEN 1 ELSE 0)
    BY <1>2, <1>3, Result
  <2> QED
    BY <2>1, <2>2
<1>6. \A i \in 0..7 \ {carry, zero, overflow, negative} : Flag(x, i) = Flag(y, i)
  <2>1. \A i \in 0..7 \ {carry, zero, overflow, negative} : Flag(x, i) = Flag(c, i)
    BY <1>2, <1>3, Result
  <2>2. \A i \in 0..7 \ {carry, zero, overflow, negative} : Flag(y, i) = Flag(d, i)
    BY <1>2, <1>3, Result
  <2> QED
    BY <2>1, <2>2 DEF ButForZN
<1>7. x.P = y.P
  <2>1. \A i \in 0..7 : BitAt(x.P, i) = BitAt(y.P, i)
    BY <1>5, <1>6 DEF Flag
  <2> QED
    BY <1>4, <2>1, Fields, SameBits
<1>8. x = [c EXCEPT !.A = v, !.P = x.P] /\ y = [d EXCEPT !.A = v, !.P = x.P]
  BY <1>4, <1>7, Zenon DEF InAccumulator
<1>9. x = y
  BY <1>8 DEF ButForZN, CpuState
<1> QED
  BY <1>9 DEF x, y

LEMMA CompareSetsZN ==
  ASSUME NEW c \in CpuState, NEW d \in CpuState, ButForZN(d, c), NEW v
  PROVE  Compare(d, v) = Compare(c, v)
<1> DEFINE r == v - c.op_value
           p == r >= 0
           q == r = 0
           n == BitAt(r, 7) = 1
           f == {<<carry, p>>, <<zero, q>>, <<negative, n>>}
           x == Flagged(c, f)
           y == Flagged(d, f)
<1>1. d.op_value = c.op_value
  BY DEF ButForZN, CpuState
<1>2. Compare(c, v) = x /\ Compare(d, v) = y
  BY <1>1, Zenon DEF Compare
<1>3. /\ <<zero, TRUE>> \in f \/ <<zero, FALSE>> \in f
      /\ <<negative, TRUE>> \in f \/ <<negative, FALSE>> \in f
  <2>1. q \in BOOLEAN /\ n \in BOOLEAN
    OBVIOUS
  <2> HIDE DEF p, q, n
  <2> QED
    BY <2>1
<1> HIDE DEF f
<1>4. \A i \in 0..7 : Flag(x, i) = Flag(y, i)
  <2> TAKE i \in 0..7
  <2>1. CASE <<i, TRUE>> \in f
    <3>1. Flag(x, i) = 1 /\ Flag(y, i) = 1
      BY <2>1, FlagsSet
    <3> QED
      BY <3>1, Zenon
  <2>2. CASE <<i, TRUE>> \notin f /\ <<i, FALSE>> \in f
    <3>1. Flag(x, i) = 0 /\ Flag(y, i) = 0
      BY <2>2, FlagsSet
    <3> QED
      BY <3>1, Zenon
  <2>3. CASE <<i, TRUE>> \notin f /\ <<i, FALSE>> \notin f
    <3>1. Flag(x, i) = Flag(c, i) /\ Flag(y, i) = Flag(d, i)
      BY <2>3, FlagsSet
    <3>2. i \in 0..7 \ {zero, negative}
      BY <1>3, <2>3
    <3>3. Flag(d, i) = Flag(c, i)
      BY <3>2 DEF ButForZN
    <3> QED
      BY <3>1, <3>3, Zenon
  <2> QED
    BY <2>1, <2>2, <2>3
<1>5. /\ x \in CpuState /\ x = [c EXCEPT !.P = x.P]
      /\ y \in CpuState /\ y = [d EXCEPT !.P = y.P]
  BY OnlyFlags
<1> HIDE DEF x, y
<1>6. x.P = y.P
  BY <1>4, <1>5, Fields, SameBits DEF Flag
<1>7. x = y
  BY <1>5, <1>6 DEF ButForZN, CpuState
<1> QED
  BY <1>2, <1>7

\* The cell that an operation works on.
Target(c) == c.op_address % 65536

\* The byte that the addressing mode of a second instruction on the same cell
\* hands to its operation.
Reread(c) == [c EXCEPT !.op_value = ReadB(c.mem, Target(c))]

\* A combined operation, and the two that it combines.
CombinedOperations ==
  {<<"aso", "asl", "ora">>, <<"rla", "rol", "and">>, <<"lse", "lsr", "eor">>,
   <<"rra", "ror", "adc">>, <<"dcm", "dec", "cmp">>, <<"ins", "inc", "sbc">>,
   <<"lax", "ldx", "lda">>}

LEMMA CellReadBack ==
  ASSUME NEW m, NEW a, NEW d, ~IsPort(a)
  PROVE  ReadB(WriteB(m, a, d), a) = d
<1> DEFINE w == [x \in DOMAIN m \cup {Cell(a)} |-> IF x = Cell(a) THEN d ELSE m[x]]
<1>1. WriteB(m, a, d) = w
  BY DEF WriteB
<1>2. Cell(a) \in DOMAIN w /\ w[Cell(a)] = d
  OBVIOUS
<1> HIDE DEF w
<1> QED
  BY <1>1, <1>2 DEF ReadB

LEMMA Stored ==
  ASSUME NEW c, NEW v
  PROVE  Store(c, v) = [c EXCEPT !.mem = WriteB(c.mem, Target(c), v)]
BY DEF Store, Target

LEMMA SameTarget ==
  ASSUME NEW c, NEW d, d.op_address = c.op_address
  PROVE  Target(d) = Target(c)
BY DEF Target

\* A shift leaves in op_value what it has stored.
LEMMA ShiftReread ==
  ASSUME NEW c \in CpuState, ~IsPort(Target(c)),
         NEW kind \in {"asl", "lsr", "rol", "ror"}
  PROVE  Reread(Shift(kind, c)) = Shift(kind, c)
<1> DEFINE s == Shifted(kind, c.op_value, Flag(c, carry))
           e == Flagged(c, {<<carry, s.out>>})
           v == s.value
           f == Load(e, "op_value", v)
           a == Target(c)
           d == Shift(kind, c)
<1>1. d = [f EXCEPT !.mem = WriteB(f.mem, Target(f), v)]
  BY Stored DEF Shift
<1>2. e \in CpuState /\ e.op_address = c.op_address
  BY FlaggedType, OnlyFlags DEF CpuState
<1>3. v \in Byte
  BY Fields, FlagType, ShiftedType DEF carry
<1> HIDE DEF e, v, d
<1>4. f \in CpuState /\ f = [Flagged(e, ZN(v)) EXCEPT !.op_value = v]
  BY <1>2, <1>3, LoadType DEF Load
<1>5. Flagged(e, ZN(v)) \in CpuState /\ Flagged(e, ZN(v)).op_address = c.op_address
  BY <1>2, OnlyFlags DEF CpuState
<1> HIDE DEF f
<1>6. f.op_value = v /\ f.op_address = c.op_address
  BY <1>4, <1>5 DEF CpuState
<1>7. d.op_value = v /\ d.op_address = c.op_address /\ d.mem = WriteB(f.mem, a, v)
  <2> HIDE DEF a
  <2>1. d = [f EXCEPT !.mem = WriteB(f.mem, a, v)]
    BY <1>1, <1>6, SameTarget DEF a
  <2> QED
    BY <1>4, <1>6, <2>1 DEF CpuState
<1>8. ReadB(d.mem, Target(d)) = v
  <2>1. Target(d) = a
    BY <1>7, SameTarget
  <2> QED
    BY <1>7, <2>1, CellReadBack
<1>9. d \in CpuState
  BY ShiftType DEF d
<1>10. Reread(d) = [d EXCEPT !.op_value = d.op_value]
  BY <1>7, <1>8, Zenon DEF Reread
<1>11. [d EXCEPT !.op_value = d.op_value] = d
  BY <1>9 DEF CpuState
<1> QED
  BY <1>10, <1>11 DEF d

\* So does an increment or decrement, but it sets the flags zero and negative.
LEMMA StepReread ==
  ASSUME NEW c \in CpuState, ~IsPort(Target(c)), NEW by \in {1, -1}
  PROVE  /\ Reread(Step(c, by)) \in CpuState
         /\ ButForZN(Reread(Step(c, by)), SteppedOperand(c, by))
<1> DEFINE v == (c.op_value + by) % 256
           a == Target(c)
           e == Flagged(c, ZN(v))
           d == Step(c, by)
           s == SteppedOperand(c, by)
<1>1. e \in CpuState /\ e = [c EXCEPT !.P = e.P]
  BY OnlyFlags
<1>2. d = [e EXCEPT !.mem = WriteB(e.mem, Target(e), v)]
  BY Stored DEF Step
<1>3. s = [[c EXCEPT !.op_value = v] EXCEPT !.mem = WriteB(c.mem, a, v)]
  <2> DEFINE o == [c EXCEPT !.op_value = v]
  <2>1. o.op_address = c.op_address /\ o.mem = c.mem
    BY DEF CpuState
  <2>2. s = [o EXCEPT !.mem = WriteB(o.mem, Target(o), v)]
    BY Stored DEF SteppedOperand
  <2>3. Target(o) = a
    BY <2>1, SameTarget
  <2> HIDE DEF o, v, s, a
  <2>4. s = [o EXCEPT !.mem = WriteB(c.mem, a, v)]
    BY <2>1, <2>2, <2>3
  <2> QED
    BY <2>4 DEF o
<1>4. v \in Byte
  BY Numbers, ByteIs
<1>5. \A i \in 0..7 \ {zero, negative} : Flag(e, i) = Flag(c, i)
  BY FlagsSet DEF ZN
<1> HIDE DEF v, e, a, d, s
<1>6. e.op_address = c.op_address /\ e.mem = c.mem
  BY <1>1 DEF CpuState
<1>7. d = [e EXCEPT !.mem = WriteB(c.mem, a, v)]
  BY <1>2, <1>6, SameTarget DEF a
<1>8. d.mem = WriteB(c.mem, a, v) /\ d.op_address = c.op_address
  BY <1>1, <1>6, <1>7 DEF CpuState
<1>9. ReadB(d.mem, Target(d)) = v
  <2>1. Target(d) = a
    BY <1>8, SameTarget DEF a
  <2> QED
    BY <1>8, <2>1, CellReadBack DEF a
<1>10. Reread(d) = [d EXCEPT !.op_value = v]
  BY <1>9, Zenon DEF Reread
<1>11. Reread(d) \in CpuState
  BY <1>4, <1>10, SteppedType, UpdatedValue DEF d
<1>12. Reread(d) = [s EXCEPT !.P = Reread(d).P] /\ Reread(d).P = e.P /\ s.P = c.P
  <2>1. s = [[[c EXCEPT !.op_value = v] EXCEPT !.mem = WriteB(c.mem, a, v)] EXCEPT !.P = c.P]
    BY <1>3 DEF CpuState
  <2>2. s.P = c.P
    BY <1>3 DEF CpuState
  <2>3. d.P = e.P /\ Reread(d).P = e.P
    BY <1>1, <1>7, <1>10 DEF CpuState
  <2>4. Reread(d) = [[[c EXCEPT !.P = e.P] EXCEPT !.mem = WriteB(c.mem, a, v)]
                      EXCEPT !.op_value = v]
    BY <1>1, <1>7, <1>10, Zenon
  <2>5. [s EXCEPT !.P = e.P] = [[[c EXCEPT !.P = e.P] EXCEPT !.mem = WriteB(c.mem, a, v)]
                                 EXCEPT !.op_value = v]
    BY <1>3 DEF CpuState
  <2> QED
    BY <2>2, <2>3, <2>4, <2>5, Zenon
<1>13. ButForZN(Reread(d), s)
  <2>1. \A i : Flag(Reread(d), i) = Flag(e, i) /\ Flag(s, i) = Flag(c, i)
    BY <1>12 DEF Flag
  <2> QED
    BY <1>5, <1>12, <2>1 DEF ButForZN
<1> QED
  BY <1>11, <1>13 DEF d, s

\* Loading X leaves A, the memory and the address; loading the byte of the cell
\* twice is reading it once.
LEMMA LoadXReread ==
  ASSUME NEW c \in CpuState, c.op_value = ReadB(c.mem, Target(c))
  PROVE  Reread(Load(c, "X", c.op_value)) = Load(c, "X", c.op_value)
<1> DEFINE e == Flagged(c, ZN(c.op_value))
           d == Load(c, "X", c.op_value)
<1>1. e \in CpuState /\ e = [c EXCEPT !.P = e.P]
  BY OnlyFlags
<1>2. d = [e EXCEPT !.X = c.op_value]
  BY DEF Load
<1> HIDE DEF e, d
<1>3. /\ d = [d EXCEPT !.op_value = c.op_value]
      /\ d.mem = c.mem /\ d.op_address = c.op_address
  BY <1>1, <1>2 DEF CpuState
<1>4. Target(d) = Target(c)
  BY <1>3, SameTarget
<1>5. Reread(d) = [d EXCEPT !.op_value = c.op_value]
  BY <1>3, <1>4, Zenon DEF Reread
<1> QED
  BY <1>3, <1>5 DEF d

\* A combined operation does to the processor and its memory what the two
\* operations that it combines do one after the other on the same cell.
THEOREM CombinedArePairs ==
  ASSUME NEW c \in CpuState, ~IsPort(Target(c)),
         NEW p \in CombinedOperations,
         p[1] = "lax" => c.op_value = ReadB(c.mem, Target(c))
  PROVE  Operation(p[1], c) = Operation(p[3], Reread(Operation(p[2], c)))
<1>1. CASE p = <<"aso", "asl", "ora">>
  <2> DEFINE s == Shift("asl", c)
  <2>1. Operation("aso", c) = Load(s, "A", Or(s.A, s.op_value))
    BY DEF Operation
  <2>2. Operation("asl", c) = s
    BY DEF Operation
  <2>3. Operation("ora", s) = Load(s, "A", Or(s.A, s.op_value))
    BY DEF Operation
  <2>4. Reread(s) = s
    BY ShiftReread
  <2> QED
    BY <1>1, <2>1, <2>2, <2>3, <2>4
<1>2. CASE p = <<"rla", "rol", "and">>
  <2> DEFINE s == Shift("rol", c)
  <2>1. Operation("rla", c) = Load(s, "A", And(s.A, s.op_value))
    BY DEF Operation
  <2>2. Operation("rol", c) = s
    BY DEF Operation
  <2>3. Operation("and", s) = Load(s, "A", And(s.A, s.op_value))
    BY DEF Operation
  <2>4. Reread(s) = s
    BY ShiftReread
  <2> QED
    BY <1>2, <2>1, <2>2, <2>3, <2>4
<1>3. CASE p = <<"lse", "lsr", "eor">>
  <2> DEFINE s == Shift("lsr", c)
  <2>1. Operation("lse", c) = Load(s, "A", Xor(s.A, s.op_value))
    BY DEF Operation
  <2>2. Operation("lsr", c) = s
    BY DEF Operation
  <2>3. Operation("eor", s) = Load(s, "A", Xor(s.A, s.op_value))
    BY DEF Operation
  <2>4. Reread(s) = s
    BY ShiftReread
  <2> QED
    BY <1>3, <2>1, <2>2, <2>3, <2>4
<1>4. CASE p = <<"rra", "ror", "adc">>
  <2> DEFINE s == Shift("ror", c)
  <2>1. Operation("rra", c) = Adc(s) /\ Operation("ror", c) = s /\ Operation("adc", s) = Adc(s)
    BY DEF Operation
  <2>2. Reread(s) = s
    BY ShiftReread
  <2> QED
    BY <1>4, <2>1, <2>2
<1>5. CASE p = <<"dcm", "dec", "cmp">>
  <2> DEFINE s == SteppedOperand(c, -1)
             d == Reread(Step(c, -1))
  <2>1. Operation("dcm", c) = Compare(s, s.A) /\ Operation("dec", c) = Step(c, -1)
    BY DEF Operation
  <2>2. Operation("cmp", d) = Compare(d, d.A)
    BY DEF Operation
  <2>3. s \in CpuState /\ d \in CpuState /\ ButForZN(d, s)
    BY StepReread, SteppedType
  <2> HIDE DEF s
  <2>4. d.A = s.A
    BY <2>3 DEF ButForZN, CpuState
  <2>5. Compare(d, s.A) = Compare(s, s.A)
    BY <2>3, CompareSetsZN
  <2> QED
    BY <1>5, <2>1, <2>2, <2>4, <2>5
<1>6. CASE p = <<"ins", "inc", "sbc">>
  <2> DEFINE s == SteppedOperand(c, 1)
             d == Reread(Step(c, 1))
  <2>1. Operation("ins", c) = Sbc(s) /\ Operation("inc", c) = Step(c, 1)
    BY DEF Operation
  <2>2. Operation("sbc", d) = Sbc(d)
    BY DEF Operation
  <2>3. s \in CpuState /\ d \in CpuState /\ ButForZN(d, s)
    BY StepReread, SteppedType
  <2>4. Sbc(d) = Sbc(s)
    BY <2>3, SbcSetsZN
  <2> QED
    BY <1>6, <2>1, <2>2, <2>4
<1>7. CASE p = <<"lax", "ldx", "lda">>
  <2> DEFINE v == c.op_value
             d == Load(c, "X", v)
  <2>1. Operation("lax", c) = Load(d, "A", v) /\ Operation("ldx", c) = d
    BY DEF Operation
  <2>2. Operation("lda", d) = Load(d, "A", d.op_value)
    BY DEF Operation
  <2>3. Reread(d) = d
    BY <1>7, LoadXReread
  <2>4. d.op_value = v
    BY OnlyFlags DEF Load, CpuState
  <2> QED
    BY <1>7, <2>1, <2>2, <2>3, <2>4
<1> QED
  BY <1>1, <1>2, <1>3, <1>4, <1>5, <1>6, <1>7 DEF CombinedOperations
=============================================================================

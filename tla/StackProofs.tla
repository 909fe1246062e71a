---------------------------- MODULE StackProofs ----------------------------
(***************************************************************************)
(* Proofs about Stack, for every choice of stack pointers, bytes and       *)
(* words: its types, that the cell below the stack's page is safe, and     *)
(* that it implements ByteStack.                                           *)
(***************************************************************************)
EXTENDS Stack, TLAPS, SequenceTheorems

(***************************************************************************)
(* Memory, as far as the stack sees it.                                    *)
(***************************************************************************)
Memories(m) == DOMAIN m \subseteq 0..511 /\ \A a \in DOMAIN m : m[a] \in Byte

\* The first two pages are memory and are not mirrored onto each other.
LEMMA LowCell ==
  ASSUME NEW a \in 0..511
  PROVE  ~IsPort(a) /\ Cell(a) = a
  BY DEF IsPort, Cell, IsRam

LEMMA LowRead ==
  ASSUME NEW m, NEW a \in 0..511
  PROVE  ReadB(m, a) = IF a \in DOMAIN m THEN m[a] ELSE 0
  BY LowCell DEF ReadB

\* A read gives what was written last.
LEMMA ReadBack ==
  ASSUME NEW m, NEW d, NEW a \in 0..511
  PROVE  ReadB(WriteB(m, a, d), a) = d
  <1> DEFINE n == [x \in DOMAIN m \cup {a} |-> IF x = a THEN d ELSE m[x]]
  <1>1. WriteB(m, a, d) = n
    BY LowCell DEF WriteB
  <1>2. ReadB(n, a) = d
    <2> HIDE DEF n
    <2>1. ReadB(n, a) = IF a \in DOMAIN n THEN n[a] ELSE 0
      BY LowRead
    <2> QED BY <2>1 DEF n
  <1> QED BY <1>1, <1>2

LEMMA ReadOther ==
  ASSUME NEW m, NEW d, NEW a \in 0..511, NEW b \in 0..511, a # b
  PROVE  ReadB(WriteB(m, a, d), b) = ReadB(m, b)
  <1> DEFINE n == [x \in DOMAIN m \cup {a} |-> IF x = a THEN d ELSE m[x]]
  <1>1. WriteB(m, a, d) = n
    BY LowCell DEF WriteB
  <1>2. ReadB(n, b) = ReadB(m, b)
    <2> HIDE DEF n
    <2>1. /\ ReadB(n, b) = IF b \in DOMAIN n THEN n[b] ELSE 0
          /\ ReadB(m, b) = IF b \in DOMAIN m THEN m[b] ELSE 0
      BY LowRead
    <2> QED BY <2>1 DEF n
  <1> QED BY <1>1, <1>2

LEMMA WriteKeeps ==
  ASSUME NEW m, Memories(m), NEW a \in 0..511, NEW d \in Byte
  PROVE  Memories(WriteB(m, a, d))
  <1>1. WriteB(m, a, d) = [x \in DOMAIN m \cup {a} |-> IF x = a THEN d ELSE m[x]]
    BY LowCell DEF WriteB
  <1> QED BY <1>1 DEF Memories

LEMMA ReadIsByte ==
  ASSUME NEW m, Memories(m), NEW a \in 0..511
  PROVE  ReadB(m, a) \in Byte
  BY LowCell DEF ReadB, Memories, Byte

\* The two bytes of a word on the stack, one below the other.
LEMMA TwoWritten ==
  ASSUME NEW m, NEW a \in 0..510, NEW b \in 0..511, NEW lo, NEW hi
  PROVE  LET n == WriteB(WriteB(m, a, lo), a + 1, hi)
         IN  /\ ReadB(n, a) = lo /\ ReadB(n, a + 1) = hi
             /\ b # a /\ b # a + 1 => ReadB(n, b) = ReadB(m, b)
  <1> DEFINE c == a + 1
             l == WriteB(m, a, lo)
  <1>1. c \in 0..511 /\ a \in 0..511 /\ a # c
    OBVIOUS
  <1> HIDE DEF c
  <1>2. ReadB(l, a) = lo
    BY <1>1, ReadBack
  <1>3. b # a => ReadB(l, b) = ReadB(m, b)
    BY <1>1, ReadOther
  <1> HIDE DEF l
  <1>4. ReadB(WriteB(l, c, hi), c) = hi
    BY <1>1, ReadBack
  <1>5. ReadB(WriteB(l, c, hi), a) = ReadB(l, a)
    BY <1>1, ReadOther
  <1>6. b # c => ReadB(WriteB(l, c, hi), b) = ReadB(l, b)
    BY <1>1, ReadOther
  <1> QED BY <1>2, <1>3, <1>4, <1>5, <1>6 DEF c, l

LEMMA TwoKeep ==
  ASSUME NEW m, Memories(m), NEW a \in 0..510, NEW lo \in Byte, NEW hi \in Byte
  PROVE  Memories(WriteB(WriteB(m, a, lo), a + 1, hi))
  <1>1. a + 1 \in 0..511 /\ a \in 0..511
    OBVIOUS
  <1>2. Memories(WriteB(m, a, lo))
    BY <1>1, WriteKeeps
  <1> QED BY <1>1, <1>2, WriteKeeps

LEMMA WordWritten ==
  ASSUME NEW a \in 0..510
  PROVE  \A m, w : WriteW(m, a, w) = WriteB(WriteB(m, a, w % 256), a + 1, w \div 256)
  <1>1. (a + 1) % 65536 = a + 1
    OBVIOUS
  <1> QED BY <1>1 DEF WriteW

LEMMA WordBytes ==
  ASSUME NEW w \in Word
  PROVE  w % 256 \in Byte /\ w \div 256 \in Byte
  <1>1. w \in Int /\ 0 <= w /\ w < 65536
    BY DEF Word
  <1>2. w % 256 \in 0..255
    BY <1>1
  <1>3. w \div 256 >= 0 /\ w \div 256 < 256 /\ w \div 256 \in Int
    BY <1>1
  <1> QED BY <1>2, <1>3 DEF Byte

LEMMA WordRead ==
  ASSUME NEW m, Memories(m), NEW a \in 0..510
  PROVE  /\ ReadW(m, a) = ReadB(m, a) + 256 * ReadB(m, a + 1)
         /\ ReadW(m, a) \in Word
  <1>1. (a + 1) % 65536 = a + 1 /\ a + 1 \in 0..511 /\ a \in 0..511
    OBVIOUS
  <1>2. ReadB(m, a) \in Byte /\ ReadB(m, a + 1) \in Byte
    BY <1>1, ReadIsByte
  <1>3. ReadW(m, a) = ReadB(m, a) + 256 * ReadB(m, a + 1)
    BY <1>1 DEF ReadW
  <1>4. \A x, y \in Byte : x + 256 * y \in Word
    BY DEF Byte, Word
  <1> QED BY <1>2, <1>3, <1>4

(***************************************************************************)
(* The stack pointer: where it is after each of the stack routines, seen   *)
(* from where it was set (b) and how much has been pushed since (d).       *)
(***************************************************************************)
LEMMA PointerMoves ==
  ASSUME NEW b \in Byte, NEW d \in 0 .. b + 1, NEW sp \in Byte,
         sp = (b - d) % 256
  PROVE  /\ (sp + 255) % 256 \in Byte /\ (sp + 255) % 256 = (b - (d + 1)) % 256
         /\ (sp + 254) % 256 \in Byte /\ (sp + 254) % 256 = (b - (d + 2)) % 256
         /\ (sp + 1) % 256 \in Byte /\ (sp + 1) % 256 = (b - (d - 1)) % 256
         /\ (sp + 2) % 256 \in Byte /\ (sp + 2) % 256 = (b - (d - 2)) % 256
         /\ d <= b => sp = b - d
         /\ d >= 1 => (sp + 1) % 256 = b - d + 1
         /\ d >= 2 => (sp + 2) % 256 = b - d + 2
  <1> DEFINE k == b - d
  <1>1. k \in -1 .. 255 /\ b \in Int /\ d \in Int /\ sp = k % 256
    BY DEF Byte
  <1>2. /\ b - (d + 1) = k - 1 /\ b - (d + 2) = k - 2
        /\ b - (d - 1) = k + 1 /\ b - (d - 2) = k + 2
        /\ b - d + 1 = k + 1 /\ b - d + 2 = k + 2
        /\ d <= b => k >= 0
        /\ d >= 1 => k <= 254
        /\ d >= 2 => k <= 253
    BY <1>1 DEF Byte
  <1> HIDE DEF k
  <1>3. CASE k = -1
    <2>1. sp = 255 /\ (-1 - 1) % 256 = 254 /\ (-1 - 2) % 256 = 253
      BY <1>1, <1>3
    <2> QED BY <2>1, <1>2, <1>3 DEF Byte
  <1>4. CASE k # -1
    <2>1. k \in 0..255 /\ sp = k
      BY <1>1, <1>4
    <2>2. /\ (k + 255) % 256 = (k - 1) % 256 /\ (k + 255) % 256 \in 0..255
          /\ (k + 254) % 256 = (k - 2) % 256 /\ (k + 254) % 256 \in 0..255
      BY <2>1
    <2>3. (k + 1) % 256 \in 0..255 /\ (k + 2) % 256 \in 0..255
      BY <2>1
    <2>4. k <= 254 => (k + 1) % 256 = k + 1
      BY <2>1
    <2>5. k <= 253 => (k + 2) % 256 = k + 2
      BY <2>1
    <2> QED BY <2>1, <2>2, <2>3, <2>4, <2>5, <1>2 DEF Byte
  <1> QED BY <1>3, <1>4

LEMMA DepthMoves ==
  ASSUME NEW b \in Byte, NEW d \in 0 .. b + 1
  PROVE  /\ d + 1 \in -2 .. 258 /\ d - 1 \in -2 .. 258
         /\ d + 2 \in -2 .. 258 /\ d - 2 \in -2 .. 258
         /\ ~(d + 1 > b + 1) => d + 1 \in 0 .. b + 1
         /\ ~(d + 2 > b + 1) => d + 2 \in 0 .. b + 1
         /\ ~(d < 1) => d - 1 \in 0 .. b + 1
         /\ ~(d < 2) => d - 2 \in 0 .. b + 1
  BY DEF Byte

\* The inductive invariant: the types, and the shape of the record.
IInv ==
  /\ TypeOK
  /\ cpu = [SP |-> cpu.SP, mem |-> cpu.mem]

LEMMA Constants ==
  /\ \A b \in Bases : b \in Byte
  /\ \A d \in Data : d \in Byte
  /\ \A w \in Words : w \in Word
  BY StackAssumption

\* What one step of each kind does to SP and memory.
LEMMA Steps ==
  ASSUME IInv
  PROVE  /\ \A d : PushByte(cpu, d) =
              [SP |-> (cpu.SP + 255) % 256, mem |-> WriteB(cpu.mem, 256 + cpu.SP, d)]
         /\ \A w : PushWord(cpu, w) =
              [SP |-> (cpu.SP + 254) % 256, mem |-> WriteW(cpu.mem, 255 + cpu.SP, w)]
         /\ PopByte(cpu) = [value |-> ReadB(cpu.mem, 256 + ((cpu.SP + 1) % 256)),
                            SP |-> (cpu.SP + 1) % 256]
         /\ PopWord(cpu) = [value |-> ReadW(cpu.mem, 255 + ((cpu.SP + 2) % 256)),
                            SP |-> (cpu.SP + 2) % 256]
         /\ \A x : [cpu EXCEPT !.SP = x] = [SP |-> x, mem |-> cpu.mem]
         /\ \A d : [cpu EXCEPT !.mem = WriteB(@, 255, d)]
                   = [SP |-> cpu.SP, mem |-> WriteB(cpu.mem, 255, d)]
  <1>0. PICK p, m : cpu = [SP |-> p, mem |-> m]
    BY DEF IInv
  <1>1. cpu.SP = p /\ cpu.mem = m /\ p \in Byte
    BY <1>0 DEF IInv, TypeOK
  <1>2. 256 - 1 + p = 255 + p /\ 256 - 1 + ((p + 2) % 256) = 255 + ((p + 2) % 256)
    BY <1>1 DEF Byte
  <1>a. ASSUME NEW x, NEW y
        PROVE  [cpu EXCEPT !.mem = x, !.SP = y] = [SP |-> y, mem |-> x]
    <2>1. [[SP |-> p, mem |-> m] EXCEPT !.mem = x] = [SP |-> p, mem |-> x]
      OBVIOUS
    <2>2. [[SP |-> p, mem |-> x] EXCEPT !.SP = y] = [SP |-> y, mem |-> x]
      OBVIOUS
    <2> QED BY <1>0, <2>1, <2>2
  <1>3. \A d : PushByte(cpu, d)
               = [SP |-> (p + 255) % 256, mem |-> WriteB(m, 256 + p, d)]
    <2>1. \A d : PushByte(cpu, d) = [cpu EXCEPT !.mem = WriteB(m, 256 + p, d),
                                                !.SP = (p + 255) % 256]
      BY <1>1 DEF PushByte, PAGE_ONE
    <2> QED BY <2>1, <1>a
  <1>4. \A w : PushWord(cpu, w)
               = [SP |-> (p + 254) % 256, mem |-> WriteW(m, 255 + p, w)]
    <2>1. \A w : PushWord(cpu, w) = [cpu EXCEPT !.mem = WriteW(m, 256 - 1 + p, w),
                                                !.SP = (p + 254) % 256]
      BY <1>1 DEF PushWord, PAGE_ONE
    <2> QED BY <2>1, <1>2, <1>a
  <1>5. PopByte(cpu) = [value |-> ReadB(m, 256 + ((p + 1) % 256)), SP |-> (p + 1) % 256]
    BY <1>0 DEF PopByte, PAGE_ONE
  <1>6. PopWord(cpu) = [value |-> ReadW(m, 255 + ((p + 2) % 256)), SP |-> (p + 2) % 256]
    <2>1. PopWord(cpu) = [value |-> ReadW(m, 256 - 1 + ((p + 2) % 256)),
                          SP |-> (p + 2) % 256]
      BY <1>0 DEF PopWord, PAGE_ONE
    <2> QED BY <2>1, <1>2
  <1>7. /\ \A x : [cpu EXCEPT !.SP = x] = [SP |-> x, mem |-> m]
        /\ \A d : [cpu EXCEPT !.mem = WriteB(@, 255, d)]
                  = [SP |-> p, mem |-> WriteB(m, 255, d)]
    BY <1>0
  <1> QED BY <1>1, <1>3, <1>4, <1>5, <1>6, <1>7

\* The state before a step of the program, as the cases below use it.
LEMMA Here ==
  ASSUME IInv
  PROVE  /\ cpu.SP \in Byte /\ Memories(cpu.mem)
         /\ base \in Byte /\ depth \in Int /\ popped \in Word /\ broken \in BOOLEAN
         /\ ~broken => depth \in 0 .. base + 1 /\ cpu.SP = (base - depth) % 256
  BY Constants DEF IInv, TypeOK, Memories

\* A pointer and a memory of the right kind are all the invariant asks of cpu.
LEMMA Good ==
  ASSUME NEW p \in Byte, NEW m, Memories(m),
         cpu' = [SP |-> p, mem |-> m],
         base' \in Bases, depth' \in -2 .. 258, popped' \in Word,
         broken' \in BOOLEAN,
         ~broken' => depth' \in 0 .. base' + 1 /\ p = (base' - depth') % 256
  PROVE  IInv'
  <1>1. cpu'.SP = p /\ cpu'.mem = m
    OBVIOUS
  <1> QED BY <1>1 DEF IInv, TypeOK, Memories

LEMMA PushBInv == ASSUME IInv, NEW d \in Data, PushB(d) PROVE IInv'
  <1>1. ~broken /\ cpu' = PushByte(cpu, d) /\ Pushed(1)
    BY DEF PushB
  <1>2. cpu' = [SP |-> (cpu.SP + 255) % 256, mem |-> WriteB(cpu.mem, 256 + cpu.SP, d)]
    BY <1>1, Steps
  <1>3. 256 + cpu.SP \in 0..511 /\ d \in Byte
    BY Here, Constants DEF Byte
  <1>4. Memories(WriteB(cpu.mem, 256 + cpu.SP, d))
    BY <1>3, Here, WriteKeeps
  <1>5. (cpu.SP + 255) % 256 \in Byte /\ (cpu.SP + 255) % 256 = (base - (depth + 1)) % 256
    BY <1>1, Here, PointerMoves
  <1>6. /\ base' = base /\ depth' = depth + 1 /\ popped' = popped
        /\ broken' = (depth + 1 > base + 1)
    BY <1>1 DEF Pushed
  <1>7. base' \in Bases /\ base' = base /\ popped' \in Word /\ broken' \in BOOLEAN
    <2>1. base \in Bases
      BY DEF IInv, TypeOK
    <2>2. broken' \in BOOLEAN
      BY <1>6
    <2> QED BY <2>1, <2>2, <1>6, Here
  <1>8. depth' \in -2 .. 258 /\ (~broken' => depth' \in 0 .. base' + 1)
    <2>1. depth \in 0 .. base + 1 /\ base \in Byte
      BY <1>1, Here
    <2>2. /\ depth + 1 \in -2 .. 258
          /\ ~(depth + 1 > base + 1) => depth + 1 \in 0 .. base + 1
      BY <2>1, DepthMoves
    <2> QED BY <2>2, <1>6
  <1> QED BY <1>2, <1>4, <1>5, <1>6, <1>7, <1>8, Good

LEMMA PushWInv == ASSUME IInv, NEW w \in Words, PushW(w) PROVE IInv'
  <1>1. ~broken /\ cpu' = PushWord(cpu, w) /\ Pushed(2)
    BY DEF PushW
  <1>2. cpu' = [SP |-> (cpu.SP + 254) % 256, mem |-> WriteW(cpu.mem, 255 + cpu.SP, w)]
    BY <1>1, Steps
  <1>3. 255 + cpu.SP \in 0..510 /\ w \in Word
    BY Here, Constants DEF Byte
  <1>4. Memories(WriteW(cpu.mem, 255 + cpu.SP, w))
    <2>1. w % 256 \in Byte /\ w \div 256 \in Byte
      BY <1>3, WordBytes
    <2> DEFINE a == 255 + cpu.SP
    <2>2. a \in 0..510 /\ w \in Word
      BY <1>3
    <2> HIDE DEF a
    <2>3. Memories(WriteB(WriteB(cpu.mem, a, w % 256), a + 1, w \div 256))
      BY <2>1, <2>2, Here, TwoKeep
    <2>4. WriteW(cpu.mem, a, w) = WriteB(WriteB(cpu.mem, a, w % 256), a + 1, w \div 256)
      BY <2>2, WordWritten
    <2>5. Memories(WriteW(cpu.mem, a, w))
      BY <2>3, <2>4
    <2> QED BY <2>5 DEF a
  <1>5. (cpu.SP + 254) % 256 \in Byte /\ (cpu.SP + 254) % 256 = (base - (depth + 2)) % 256
    BY <1>1, Here, PointerMoves
  <1>6. /\ base' = base /\ depth' = depth + 2 /\ popped' = popped
        /\ broken' = (depth + 2 > base + 1)
    BY <1>1 DEF Pushed
  <1>7. base' \in Bases /\ base' = base /\ popped' \in Word /\ broken' \in BOOLEAN
    <2>1. base \in Bases
      BY DEF IInv, TypeOK
    <2>2. broken' \in BOOLEAN
      BY <1>6
    <2> QED BY <2>1, <2>2, <1>6, Here
  <1>8. depth' \in -2 .. 258 /\ (~broken' => depth' \in 0 .. base' + 1)
    <2>1. depth \in 0 .. base + 1 /\ base \in Byte
      BY <1>1, Here
    <2>2. /\ depth + 2 \in -2 .. 258
          /\ ~(depth + 2 > base + 1) => depth + 2 \in 0 .. base + 1
      BY <2>1, DepthMoves
    <2> QED BY <2>2, <1>6
  <1> QED BY <1>2, <1>4, <1>5, <1>6, <1>7, <1>8, Good

LEMMA PopBInv == ASSUME IInv, PopB PROVE IInv'
  <1> DEFINE sp == (cpu.SP + 1) % 256
  <1>1. ~broken /\ Popped(1, PopByte(cpu))
    BY DEF PopB
  <1>2. PopByte(cpu).value = ReadB(cpu.mem, 256 + sp) /\ PopByte(cpu).SP = sp
    BY Steps
  <1>3. sp \in Byte /\ sp = (base - (depth - 1)) % 256
    BY <1>1, Here, PointerMoves
  <1>4. cpu' = [SP |-> sp, mem |-> cpu.mem]
    BY <1>1, <1>2, Steps DEF Popped
  <1>5. ReadB(cpu.mem, 256 + sp) \in Word
    <2>1. 256 + sp \in 0..511
      BY <1>3 DEF Byte
    <2>2. ReadB(cpu.mem, 256 + sp) \in Byte
      BY <2>1, Here, ReadIsByte
    <2> HIDE DEF sp
    <2>3. \A x \in Byte : x \in Word
      BY DEF Byte, Word
    <2> QED BY <2>2, <2>3
  <1>6. /\ base' = base /\ depth' = depth - 1 /\ popped' \in Word
        /\ broken' = (depth < 1)
    BY <1>1, <1>2, <1>5 DEF Popped
  <1>7. base' \in Bases /\ base' = base /\ popped' \in Word /\ broken' \in BOOLEAN
    <2>1. base \in Bases
      BY DEF IInv, TypeOK
    <2>2. broken' \in BOOLEAN
      BY <1>6
    <2> QED BY <2>1, <2>2, <1>6, Here
  <1>8. depth' \in -2 .. 258 /\ (~broken' => depth' \in 0 .. base' + 1)
    <2>1. depth \in 0 .. base + 1 /\ base \in Byte
      BY <1>1, Here
    <2>2. /\ depth - 1 \in -2 .. 258
          /\ ~(depth < 1) => depth - 1 \in 0 .. base + 1
      BY <2>1, DepthMoves
    <2> QED BY <2>2, <1>6
  <1> HIDE DEF sp
  <1> QED BY <1>3, <1>4, <1>6, <1>7, <1>8, Here, Good

LEMMA PopWInv == ASSUME IInv, PopW PROVE IInv'
  <1> DEFINE sp == (cpu.SP + 2) % 256
  <1>1. ~broken /\ Popped(2, PopWord(cpu))
    BY DEF PopW
  <1>2. PopWord(cpu).value = ReadW(cpu.mem, 255 + sp) /\ PopWord(cpu).SP = sp
    BY Steps
  <1>3. sp \in Byte /\ sp = (base - (depth - 2)) % 256
    BY <1>1, Here, PointerMoves
  <1>4. cpu' = [SP |-> sp, mem |-> cpu.mem]
    BY <1>1, <1>2, Steps DEF Popped
  <1>5. ReadW(cpu.mem, 255 + sp) \in Word
    <2>1. 255 + sp \in 0..510
      BY <1>3 DEF Byte
    <2> QED BY <2>1, Here, WordRead
  <1>6. /\ base' = base /\ depth' = depth - 2 /\ popped' \in Word
        /\ broken' = (depth < 2)
    BY <1>1, <1>2, <1>5 DEF Popped
  <1>7. base' \in Bases /\ base' = base /\ popped' \in Word /\ broken' \in BOOLEAN
    <2>1. base \in Bases
      BY DEF IInv, TypeOK
    <2>2. broken' \in BOOLEAN
      BY <1>6
    <2> QED BY <2>1, <2>2, <1>6, Here
  <1>8. depth' \in -2 .. 258 /\ (~broken' => depth' \in 0 .. base' + 1)
    <2>1. depth \in 0 .. base + 1 /\ base \in Byte
      BY <1>1, Here
    <2>2. /\ depth - 2 \in -2 .. 258
          /\ ~(depth < 2) => depth - 2 \in 0 .. base + 1
      BY <2>1, DepthMoves
    <2> QED BY <2>2, <1>6
  <1> HIDE DEF sp
  <1> QED BY <1>3, <1>4, <1>6, <1>7, <1>8, Here, Good

LEMMA SetSPInv == ASSUME IInv, NEW x \in Bases, SetSP(x) PROVE IInv'
  <1>1. /\ cpu' = [SP |-> x, mem |-> cpu.mem]
        /\ base' = x /\ depth' = 0 /\ broken' = FALSE /\ popped' = popped
    BY Steps DEF SetSP
  <1>2. x \in Byte
    BY Constants
  <1>3. 0 \in 0 .. x + 1 /\ x = (x - 0) % 256
    BY <1>2 DEF Byte
  <1>4. /\ depth' \in -2 .. 258 /\ depth' \in 0 .. base' + 1
        /\ x = (base' - depth') % 256
    BY <1>1, <1>3
  <1>5. base' \in Bases /\ popped' \in Word /\ broken' \in BOOLEAN /\ Memories(cpu.mem)
    BY <1>1, Here
  <1> QED BY <1>1, <1>2, <1>4, <1>5, Good

LEMMA KeepInv == ASSUME IInv, NEW d \in Data, Keep(d) PROVE IInv'
  <1>1. /\ cpu' = [cpu EXCEPT !.mem = WriteB(@, 255, d)]
        /\ UNCHANGED <<base, depth, popped, broken>>
    BY DEF Keep, PAGE_ONE
  <1>2. cpu' = [SP |-> cpu.SP, mem |-> WriteB(cpu.mem, 255, d)]
    BY <1>1, Steps
  <1>3. Memories(WriteB(cpu.mem, 255, d))
    BY Constants, Here, WriteKeeps
  <1> QED BY <1>1, <1>2, <1>3, Here, Good DEF IInv, TypeOK

LEMMA InitInv == Init => IInv
  <1> SUFFICES ASSUME Init PROVE IInv
    OBVIOUS
  <1>1. PICK d \in Data : cpu = [SP |-> base, mem |-> [a \in {PAGE_ONE - 1} |-> d]]
    BY DEF Init
  <1> DEFINE m == [a \in {PAGE_ONE - 1} |-> d]
  <1>2. Memories(m)
    <2>1. PAGE_ONE - 1 \in 0..511 /\ d \in Byte
      BY Constants DEF PAGE_ONE
    <2> QED BY <2>1 DEF Memories
  <1> HIDE DEF m
  <1>3. cpu.SP = base /\ cpu.mem = m /\ cpu = [SP |-> cpu.SP, mem |-> cpu.mem]
    BY <1>1 DEF m
  <1>4. /\ base \in Bases /\ base \in Byte
        /\ depth = 0 /\ popped = 0 /\ broken = FALSE
    BY Constants DEF Init
  <1>5. /\ depth \in -2 .. 258 /\ depth \in 0 .. base + 1
        /\ base = (base - depth) % 256 /\ popped \in Word
    BY <1>4 DEF Byte, Word
  <1> QED BY <1>2, <1>3, <1>4, <1>5 DEF IInv, TypeOK, Memories

\* The invariant of a program's use of the stack holds throughout.
THEOREM Invariance == Spec => []IInv
  <1>1. IInv /\ [Next]_vars => IInv'
    <2> SUFFICES ASSUME IInv, [Next]_vars PROVE IInv'
      OBVIOUS
    <2>1. CASE \E d \in Data : PushB(d) \/ Keep(d)
      BY <2>1, PushBInv, KeepInv
    <2>2. CASE \E w \in Words : PushW(w)
      BY <2>2, PushWInv
    <2>3. CASE PopB \/ PopW
      BY <2>3, PopBInv, PopWInv
    <2>4. CASE \E x \in Bases : SetSP(x)
      BY <2>4, SetSPInv
    <2>5. CASE UNCHANGED vars
      BY <2>5 DEF vars, IInv, TypeOK
    <2> QED BY <2>1, <2>2, <2>3, <2>4, <2>5 DEF Next
  <1> QED BY InitInv, <1>1, PTL DEF Spec

\* Bytes stay bytes, and SP is where the program's pushes and pops have taken
\* it, whatever they were (cpu.c:30-33).
THEOREM TypeCorrect == Spec => []TypeOK
  <1>1. IInv => TypeOK
    BY DEF IInv
  <1> QED BY <1>1, Invariance, PTL

(***************************************************************************)
(* The cell below the page.                                                *)
(***************************************************************************)
Below(m) == ReadB(m, 255)

LEMMA BelowKept ==
  ASSUME NEW m, NEW d, NEW a \in 256..511
  PROVE  Below(WriteB(m, a, d)) = Below(m)
  <1>1. PICK z : z = 255
    OBVIOUS
  <1>2. a \in 0..511 /\ z \in 0..511 /\ a # z
    BY <1>1
  <1>3. ReadB(WriteB(m, a, d), z) = ReadB(m, z)
    BY <1>2, ReadOther
  <1> QED BY <1>1, <1>3 DEF Below

LEMMA PushBBelow ==
  ASSUME IInv, NEW d \in Data, PushB(d)
  PROVE  Below(cpu'.mem) = Below(cpu.mem)
  <1> DEFINE a == 256 + cpu.SP
  <1>1. a \in 256..511
    BY Here DEF Byte
  <1>2. cpu'.mem = WriteB(cpu.mem, a, d)
    BY Steps DEF PushB
  <1> HIDE DEF a
  <1>3. Below(WriteB(cpu.mem, a, d)) = Below(cpu.mem)
    BY <1>1, BelowKept
  <1> QED BY <1>2, <1>3

\* Where the stack pointer is when there is room for a word.
LEMMA RoomForWord ==
  ASSUME IInv, ~broken, depth + 2 <= base + 1
  PROVE  cpu.SP = base - depth /\ cpu.SP \in 1..255 /\ depth \in 0 .. base
  <1>1. base \in 0..255 /\ depth \in 0 .. base + 1 /\ cpu.SP = (base - depth) % 256
    BY Here DEF Byte
  <1>2. base - depth \in 1..255 /\ depth \in 0 .. base
    BY <1>1
  <1>3. (base - depth) % 256 = base - depth
    BY <1>2
  <1> QED BY <1>1, <1>2, <1>3

\* A word pushed with SP at 0 is one that there was no room for.
LEMMA PushWBelow ==
  ASSUME IInv, NEW w \in Words, PushW(w), ~broken'
  PROVE  Below(cpu'.mem) = Below(cpu.mem)
  <1> DEFINE a == 255 + cpu.SP
  <1>1. a \in 256..510 /\ a \in 0..510
    <2>1. ~broken /\ broken' = (depth + 2 > base + 1)
      BY DEF PushW, Pushed
    <2>2. base \in Int /\ depth \in Int
      BY Here DEF Byte
    <2>3. ~(depth + 2 > base + 1)
      BY <2>1, Zenon
    <2>4. depth + 2 <= base + 1
      BY <2>2, <2>3
    <2>5. cpu.SP \in 1..255
      BY <2>1, <2>4, RoomForWord
    <2> QED BY <2>5
  <1>2. cpu'.mem = WriteW(cpu.mem, a, w)
    BY Steps DEF PushW
  <1> HIDE DEF a
  <1> DEFINE n == WriteB(cpu.mem, a, w % 256)
             c == a + 1
  <1>3. cpu'.mem = WriteB(n, c, w \div 256)
    BY <1>1, <1>2, WordWritten
  <1>4. a \in 256..511 /\ c \in 256..511
    BY <1>1
  <1>5. Below(n) = Below(cpu.mem)
    BY <1>4, BelowKept
  <1> HIDE DEF n, c
  <1>6. Below(WriteB(n, c, w \div 256)) = Below(n)
    BY <1>4, BelowKept
  <1> QED BY <1>3, <1>5, <1>6

\* However bytes and words are mixed, the cell below the stack's page is only
\* changed by the program's own stores, as long as it pushes no more than
\* there is room for (cpu.c:30-33).
THEOREM BelowIsSafe == Spec => ZeroPageSafe
  <1> DEFINE P == ReadB(cpu'.mem, PAGE_ONE - 1) # ReadB(cpu.mem, PAGE_ONE - 1)
                  => broken' \/ UNCHANGED cpu.SP
  <1>1. IInv /\ [Next]_vars => [P]_vars
    <2> SUFFICES ASSUME IInv, Next PROVE P
      OBVIOUS
    <2>0. PAGE_ONE - 1 = 255
      BY DEF PAGE_ONE
    <2> SUFFICES ASSUME Below(cpu'.mem) # Below(cpu.mem)
                 PROVE  broken' \/ UNCHANGED cpu.SP
      BY <2>0 DEF Below
    <2>1. CASE \E d \in Data : PushB(d)
      BY <2>1, PushBBelow
    <2>2. CASE \E w \in Words : PushW(w)
      BY <2>2, PushWBelow
    <2>3. CASE \E d \in Data : Keep(d)
      <3>1. PICK d \in Data : Keep(d)
        BY <2>3
      <3>2. cpu' = [cpu EXCEPT !.mem = WriteB(@, 255, d)]
        BY <3>1, <2>0 DEF Keep
      <3> QED BY <3>2, Steps
    <2>4. CASE PopB \/ PopW \/ \E x \in Bases : SetSP(x)
      <3>1. PICK x : cpu' = [cpu EXCEPT !.SP = x]
        BY <2>4 DEF PopB, PopW, Popped, SetSP
      <3> QED BY <3>1, Steps
    <2> QED BY <2>1, <2>2, <2>3, <2>4 DEF Next
  <1> QED BY <1>1, Invariance, PTL DEF Spec, ZeroPageSafe

(***************************************************************************)
(* The stack as a sequence.                                                *)
(***************************************************************************)
Stacked(m, b, d) == [i \in 1..d |-> ReadB(m, PAGE_ONE + b + 1 - i)]

LEMMA StackedSeq ==
  ASSUME NEW m, Memories(m), NEW b \in Byte, NEW d \in 0 .. b + 1
  PROVE  /\ Stacked(m, b, d) \in Seq(Byte)
         /\ Len(Stacked(m, b, d)) = d
         /\ \A i \in 1..d : Stacked(m, b, d)[i] = ReadB(m, 257 + b - i)
  <1>1. \A i \in 1..d : PAGE_ONE + b + 1 - i = 257 + b - i /\ 257 + b - i \in 0..511
    BY DEF PAGE_ONE, Byte
  <1>2. \A i \in 1..d : ReadB(m, 257 + b - i) \in Byte
    BY <1>1, ReadIsByte
  <1>3. Stacked(m, b, d) = [i \in 1..d |-> ReadB(m, 257 + b - i)]
    BY <1>1 DEF Stacked
  <1>4. Stacked(m, b, d) \in [1..d -> Byte] /\ d \in Nat
    BY <1>2, <1>3 DEF Byte
  <1>5. Stacked(m, b, d) \in Seq(Byte)
    BY <1>4, SeqDef
  <1> QED BY <1>3, <1>4, <1>5

\* Pushing: what is new follows what was there.
LEMMA StackedPush ==
  ASSUME NEW m, Memories(m), NEW n, Memories(n), NEW b \in Byte,
         NEW d \in 0 .. b + 1, NEW t \in Seq(Byte), d + Len(t) <= b + 1,
         \A i \in 1..d : ReadB(n, 257 + b - i) = ReadB(m, 257 + b - i),
         \A j \in 1..Len(t) : ReadB(n, 257 + b - (d + j)) = t[j]
  PROVE  Stacked(n, b, d + Len(t)) = Stacked(m, b, d) \o t
  <1> DEFINE s == Stacked(m, b, d)
             u == Stacked(n, b, d + Len(t))
  <1>1. Len(t) \in Nat /\ d \in Nat /\ d + Len(t) \in 0 .. b + 1
    BY LenProperties DEF Byte
  <1>2. /\ s \in Seq(Byte) /\ Len(s) = d
        /\ \A i \in 1..d : s[i] = ReadB(m, 257 + b - i)
    BY StackedSeq
  <1>3. /\ u \in Seq(Byte) /\ Len(u) = d + Len(t)
        /\ \A i \in 1 .. d + Len(t) : u[i] = ReadB(n, 257 + b - i)
    BY <1>1, StackedSeq
  <1> HIDE DEF s, u
  <1>4. /\ s \o t \in Seq(Byte) /\ Len(s \o t) = d + Len(t)
        /\ \A i \in 1 .. d + Len(t) :
             (s \o t)[i] = IF i <= d THEN s[i] ELSE t[i - d]
    <2>1. /\ s \o t \in Seq(Byte) /\ Len(s \o t) = Len(s) + Len(t)
          /\ \A i \in 1 .. Len(s) + Len(t) :
               (s \o t)[i] = IF i <= Len(s) THEN s[i] ELSE t[i - Len(s)]
      BY <1>2, ConcatProperties
    <2> QED BY <2>1, <1>2
  <1>5. ASSUME NEW i \in 1 .. d + Len(t)
        PROVE  u[i] = (s \o t)[i]
    <2>1. CASE i <= d
      <3>1. i \in 1..d
        BY <1>1, <2>1
      <3>2. ReadB(n, 257 + b - i) = ReadB(m, 257 + b - i)
        BY <3>1
      <3>3. u[i] = s[i]
        BY <3>1, <3>2, <1>2, <1>3
      <3> QED BY <3>3, <2>1, <1>4
    <2>2. CASE ~(i <= d)
      <3>1. i - d \in 1..Len(t) /\ d + (i - d) = i
        BY <1>1, <2>2
      <3>2. ReadB(n, 257 + b - (d + (i - d))) = t[i - d]
        BY <3>1
      <3> QED BY <3>1, <3>2, <2>2, <1>3, <1>4
    <2> QED BY <2>1, <2>2
  <1>6. u = s \o t
    BY <1>1, <1>3, <1>4, <1>5, SeqEqual
  <1> QED BY <1>6 DEF s, u

\* Popping: the rest stays.
LEMMA StackedPop ==
  ASSUME NEW m, Memories(m), NEW b \in Byte, NEW d \in 0 .. b + 1,
         NEW e \in 0..d
  PROVE  Stacked(m, b, e) = SubSeq(Stacked(m, b, d), 1, e)
  <1> DEFINE s == Stacked(m, b, d)
             u == Stacked(m, b, e)
  <1>1. e \in Nat /\ d \in Nat /\ e \in 0 .. b + 1
    BY DEF Byte
  <1>2. /\ s \in Seq(Byte) /\ Len(s) = d
        /\ \A i \in 1..d : s[i] = ReadB(m, 257 + b - i)
    BY StackedSeq
  <1>3. /\ u \in Seq(Byte) /\ Len(u) = e
        /\ \A i \in 1..e : u[i] = ReadB(m, 257 + b - i)
    BY <1>1, StackedSeq
  <1> HIDE DEF s, u
  <1>4. \A i \in 1..e : s[i] \in Byte /\ i \in 1..d
    BY <1>1, <1>2, ElementOfSeq
  <1>5. /\ SubSeq(s, 1, e) \in Seq(Byte)
        /\ Len(SubSeq(s, 1, e)) = IF 1 <= e THEN e - 1 + 1 ELSE 0
        /\ \A i \in 1 .. e - 1 + 1 : SubSeq(s, 1, e)[i] = s[1 + i - 1]
    BY <1>1, <1>4, SubSeqProperties
  <1>6. /\ Len(SubSeq(s, 1, e)) = e
        /\ \A i \in 1..e : SubSeq(s, 1, e)[i] = s[i]
    BY <1>1, <1>5
  <1>7. u = SubSeq(s, 1, e)
    BY <1>2, <1>3, <1>4, <1>5, <1>6, SeqEqual
  <1> QED BY <1>7 DEF s, u

(***************************************************************************)
(* Stack implements ByteStack.                                             *)
(***************************************************************************)
LEMMA ContentsSeq ==
  ASSUME IInv, ~broken
  PROVE  /\ Contents = Stacked(cpu.mem, base, depth)
         /\ Contents \in Seq(Byte) /\ Len(Contents) = depth
         /\ \A i \in 1..depth : Contents[i] = ReadB(cpu.mem, 257 + base - i)
  <1>1. Contents = Stacked(cpu.mem, base, depth)
    BY DEF Contents, Stacked
  <1>2. Memories(cpu.mem) /\ base \in Byte /\ depth \in 0 .. base + 1
    BY Here
  <1> QED BY <1>1, <1>2, StackedSeq

LEMMA NextContents == Contents' = Stacked(cpu'.mem, base', depth')
  BY DEF Contents, Stacked

\* Pushing or popping too much breaks ByteStack's promise too.
LEMMA BreakStep ==
  ASSUME IInv, ~broken, broken',
         NEW n \in 1..2, ~(depth + n <= base + 1) \/ depth < n
  PROVE  B!Break
  <1> DEFINE stack == IF broken THEN <<>> ELSE Contents
  <1>1. Len(stack) = depth
    BY ContentsSeq
  <1>2. ~(Len(stack) + n <= base + 1) \/ Len(stack) < n
    BY <1>1
  <1> QED BY <1>2 DEF B!Break, B!Room

\* What is pushed: the written cells follow the ones in use.
LEMMA PushStep ==
  ASSUME IInv, IInv', ~broken, ~broken', base' = base, popped' = popped,
         NEW t \in Seq(Byte), depth' = depth + Len(t),
         \A i \in 1..depth : ReadB(cpu'.mem, 257 + base - i) = ReadB(cpu.mem, 257 + base - i),
         \A j \in 1..Len(t) : ReadB(cpu'.mem, 257 + base - (depth + j)) = t[j]
  PROVE  B!Push(t)
  <1>1. /\ Memories(cpu.mem) /\ Memories(cpu'.mem) /\ base \in Byte
        /\ depth \in 0 .. base + 1 /\ depth + Len(t) \in 0 .. base + 1
    <2>1. Memories(cpu'.mem) /\ depth' \in 0 .. base' + 1
      BY DEF IInv, TypeOK, Memories
    <2> QED BY <2>1, Here
  <1>2. Len(t) \in Nat /\ depth + Len(t) <= base + 1
    BY <1>1, LenProperties DEF Byte
  <1>3. Stacked(cpu'.mem, base, depth + Len(t)) = Stacked(cpu.mem, base, depth) \o t
    BY <1>1, <1>2, StackedPush
  <1>4. Contents' = Contents \o t
    BY <1>3, NextContents, ContentsSeq
  <1>5. Len(Contents) + Len(t) <= base + 1
    BY <1>2, ContentsSeq
  <1>6. broken' = broken
    BY DEF IInv, TypeOK
  <1> QED BY <1>4, <1>5, <1>6 DEF B!Push, B!Room

LEMMA PushBStep ==
  ASSUME IInv, IInv', NEW d \in Data, PushB(d), ~broken'
  PROVE  B!Push(<<d>>)
  <1>1. ~broken /\ broken' = (depth + 1 > base + 1)
        /\ depth' = depth + 1 /\ base' = base /\ popped' = popped
    BY DEF PushB, Pushed
  <1>2. base \in 0..255 /\ depth \in 0 .. base + 1 /\ d \in Byte /\ depth' \in 0 .. base' + 1
    BY <1>1, Here, Constants DEF Byte, IInv, TypeOK
  <1>3. depth \in 0..base /\ cpu.SP = base - depth
    <2>1. depth \in 0..base /\ base - depth \in 0..255
      BY <1>1, <1>2
    <2>2. (base - depth) % 256 = base - depth
      BY <2>1
    <2> QED BY <1>1, <2>1, <2>2, Here
  <1> DEFINE a == 256 + cpu.SP
  <1>4. a = 257 + base - (depth + 1) /\ a \in 0..511
    BY <1>2, <1>3
  <1>5. cpu'.mem = WriteB(cpu.mem, a, d)
    BY Steps DEF PushB
  <1>6. ReadB(cpu'.mem, a) = d
    <2> HIDE DEF a
    <2> QED BY <1>4, <1>5, ReadBack
  <1>7. ASSUME NEW i \in 1..depth
        PROVE  ReadB(cpu'.mem, 257 + base - i) = ReadB(cpu.mem, 257 + base - i)
    <2> DEFINE b == 257 + base - i
    <2>1. a \in 0..511 /\ b \in 0..511 /\ a # b
      BY <1>2, <1>3
    <2> HIDE DEF a, b
    <2>2. ReadB(WriteB(cpu.mem, a, d), b) = ReadB(cpu.mem, b)
      BY <2>1, ReadOther
    <2> QED BY <2>2, <1>5 DEF b
  <1> DEFINE t == <<d>>
  <1>8. t \in Seq(Byte) /\ Len(t) = 1 /\ t[1] = d
    BY <1>2
  <1> HIDE DEF t, a
  <1>9. \A j \in 1..Len(t) : ReadB(cpu'.mem, 257 + base - (depth + j)) = t[j]
    BY <1>4, <1>6, <1>8
  <1>10. B!Push(t)
    BY <1>1, <1>7, <1>8, <1>9, PushStep
  <1> QED BY <1>10 DEF t

LEMMA PushWStep ==
  ASSUME IInv, IInv', NEW w \in Words, PushW(w), ~broken'
  PROVE  B!Push(<<w \div 256, w % 256>>)
  <1>1. ~broken /\ broken' = (depth + 2 > base + 1)
        /\ depth' = depth + 2 /\ base' = base /\ popped' = popped
    BY DEF PushW, Pushed
  <1>2. base \in 0..255 /\ depth \in 0 .. base + 1 /\ depth' \in 0 .. base' + 1
    BY <1>1, Here DEF Byte, IInv, TypeOK
  <1>3. depth \in 0..base /\ cpu.SP = base - depth /\ cpu.SP \in 1..255
    <2>1. depth + 2 <= base + 1
      BY <1>1, <1>2
    <2> QED BY <1>1, <2>1, RoomForWord
  <1> DEFINE a == 255 + cpu.SP
             c == a + 1
  <1>4. /\ c = 257 + base - (depth + 1) /\ a = 257 + base - (depth + 2)
        /\ a \in 0..510 /\ a \in 0..511 /\ c \in 0..511 /\ a # c
    BY <1>2, <1>3
  <1>5. PICK lo, hi : lo = w % 256 /\ hi = w \div 256
    OBVIOUS
  <1>6. lo \in Byte /\ hi \in Byte
    BY <1>5, Constants, WordBytes
  <1>7. cpu'.mem = WriteB(WriteB(cpu.mem, a, lo), c, hi)
    <2>1. cpu'.mem = WriteW(cpu.mem, a, w)
      BY Steps DEF PushW
    <2>2. WriteW(cpu.mem, a, w) = WriteB(WriteB(cpu.mem, a, w % 256), a + 1, w \div 256)
      BY <1>4, WordWritten
    <2> QED BY <2>1, <2>2, <1>5
  <1>8. ASSUME NEW i \in 1..depth
        PROVE  257 + base - i \in 0..511 /\ 257 + base - i # a /\ 257 + base - i # c
    BY <1>2, <1>3
  <1> DEFINE n == WriteB(cpu.mem, a, lo)
  <1> HIDE DEF a, c
  <1>9. ReadB(n, a) = lo
    BY <1>4, ReadBack
  <1>10. ASSUME NEW i \in 1..depth
         PROVE  ReadB(cpu'.mem, 257 + base - i) = ReadB(cpu.mem, 257 + base - i)
    <2> DEFINE b == 257 + base - i
    <2>1. /\ a \in 0..511 /\ c \in 0..511 /\ b \in 0..511 /\ a # b /\ c # b
      BY <1>4, <1>8
    <2> HIDE DEF b
    <2>2. ReadB(n, b) = ReadB(cpu.mem, b)
      BY <2>1, ReadOther
    <2> HIDE DEF n
    <2>3. ReadB(WriteB(n, c, hi), b) = ReadB(n, b)
      BY <2>1, ReadOther
    <2> QED BY <2>2, <2>3, <1>7 DEF b, n
  <1> HIDE DEF n
  <1>11. ReadB(WriteB(n, c, hi), c) = hi
    BY <1>4, ReadBack
  <1>12. ReadB(WriteB(n, c, hi), a) = ReadB(n, a)
    <2>1. a \in 0..511 /\ c \in 0..511 /\ c # a
      BY <1>4
    <2> QED BY <2>1, ReadOther
  <1>13. ReadB(cpu'.mem, c) = hi /\ ReadB(cpu'.mem, a) = lo
    BY <1>7, <1>9, <1>11, <1>12 DEF n
  <1> DEFINE t == <<hi, lo>>
  <1>14. t \in Seq(Byte) /\ Len(t) = 2 /\ t[1] = hi /\ t[2] = lo
    BY <1>6
  <1> HIDE DEF t
  <1>15. \A j \in 1..Len(t) : ReadB(cpu'.mem, 257 + base - (depth + j)) = t[j]
    <2>1. \A j \in 1..Len(t) : j = 1 \/ j = 2
      BY <1>14
    <2> QED BY <2>1, <1>4, <1>13, <1>14
  <1>16. B!Push(t)
    BY <1>1, <1>10, <1>14, <1>15, PushStep
  <1> QED BY <1>16, <1>5 DEF t

\* What is popped: the cells that remain in use have not changed.
LEMMA PopStep ==
  ASSUME IInv, IInv', ~broken, ~broken', base' = base, cpu'.mem = cpu.mem,
         NEW n \in 1..2, depth' = depth - n
  PROVE  /\ depth >= n /\ Len(Contents) = depth /\ broken' = broken
         /\ Contents' = SubSeq(Contents, 1, Len(Contents) - n)
  <1>1. Memories(cpu.mem) /\ base \in Byte /\ depth \in 0 .. base + 1
    BY Here
  <1>2. depth' \in 0 .. base' + 1 /\ broken' = broken
    BY DEF IInv, TypeOK
  <1>3. depth - n \in 0 .. depth /\ depth >= n
    BY <1>1, <1>2 DEF Byte
  <1>4. Stacked(cpu.mem, base, depth - n) = SubSeq(Stacked(cpu.mem, base, depth), 1, depth - n)
    BY <1>1, <1>3, StackedPop
  <1>5. Contents = Stacked(cpu.mem, base, depth) /\ Len(Contents) = depth
    BY ContentsSeq
  <1>6. Contents' = Stacked(cpu.mem, base, depth - n)
    BY NextContents
  <1> QED BY <1>2, <1>3, <1>4, <1>5, <1>6

\* Where the stack pointer is after n bytes have been popped that were there.
LEMMA AfterPop ==
  ASSUME IInv, ~broken, NEW n \in 1..2, depth >= n
  PROVE  (cpu.SP + n) % 256 = base - depth + n /\ base - depth + n \in 0..255
         /\ base \in 0..255 /\ depth \in 1 .. base + 1
  <1>1. base \in 0..255 /\ depth \in 0 .. base + 1 /\ cpu.SP = (base - depth) % 256
    BY Here DEF Byte
  <1>2. base - depth + n \in 0..255 /\ depth \in 1 .. base + 1
    BY <1>1
  <1>3. (cpu.SP + 1) % 256 = (base - (depth - 1)) % 256
        /\ (cpu.SP + 2) % 256 = (base - (depth - 2)) % 256
    BY Here, PointerMoves
  <1>4. (cpu.SP + n) % 256 = (base - depth + n) % 256
    <2>1. CASE n = 1
      <3>1. base - (depth - 1) = base - depth + 1
        BY <1>1
      <3> QED BY <3>1, <2>1, <1>3
    <2>2. CASE n = 2
      <3>1. base - (depth - 2) = base - depth + 2
        BY <1>1
      <3> QED BY <3>1, <2>2, <1>3
    <2> QED BY <2>1, <2>2
  <1>5. (base - depth + n) % 256 = base - depth + n
    BY <1>2
  <1> QED BY <1>1, <1>2, <1>4, <1>5

LEMMA PopBStep ==
  ASSUME IInv, IInv', PopB, ~broken'
  PROVE  B!PopByte
  <1>1. /\ ~broken /\ depth' = depth - 1 /\ base' = base
        /\ popped' = ReadB(cpu.mem, 256 + ((cpu.SP + 1) % 256))
        /\ cpu'.mem = cpu.mem
    BY Steps DEF PopB, Popped
  <1>2. /\ depth >= 1 /\ Len(Contents) = depth /\ broken' = broken
        /\ Contents' = SubSeq(Contents, 1, Len(Contents) - 1)
    BY <1>1, PopStep
  <1>3. /\ (cpu.SP + 1) % 256 = base - depth + 1
        /\ base \in 0..255 /\ depth \in 1 .. base + 1
    BY <1>1, <1>2, AfterPop
  <1>4. 256 + (base - depth + 1) = 257 + base - depth /\ depth \in 1..depth
    BY <1>3
  <1>5. Contents[depth] = ReadB(cpu.mem, 257 + base - depth)
    BY <1>1, <1>4, ContentsSeq
  <1>6. popped' = Contents[Len(Contents)]
    BY <1>1, <1>2, <1>3, <1>4, <1>5
  <1> QED BY <1>1, <1>2, <1>6 DEF B!PopByte

LEMMA PopWStep ==
  ASSUME IInv, IInv', PopW, ~broken'
  PROVE  B!PopWord
  <1> DEFINE a == 255 + ((cpu.SP + 2) % 256)
  <1>1. /\ ~broken /\ depth' = depth - 2 /\ base' = base
        /\ popped' = ReadW(cpu.mem, a)
        /\ cpu'.mem = cpu.mem
    BY Steps DEF PopW, Popped
  <1>2. /\ depth >= 2 /\ Len(Contents) = depth /\ broken' = broken
        /\ Contents' = SubSeq(Contents, 1, Len(Contents) - 2)
    BY <1>1, PopStep
  <1>3. /\ (cpu.SP + 2) % 256 = base - depth + 2 /\ base - depth + 2 \in 0..255
        /\ base \in 0..255 /\ depth \in 1 .. base + 1
    BY <1>1, <1>2, AfterPop
  <1>4. /\ a = 257 + base - depth /\ a + 1 = 257 + base - (depth - 1)
        /\ a \in 0..510 /\ depth \in 1..depth /\ depth - 1 \in 1..depth
    <2>1. a = 255 + (base - depth + 2)
      BY <1>3
    <2> HIDE DEF a
    <2>2. a = 257 + base - depth /\ a + 1 = 257 + base - (depth - 1)
      BY <2>1, <1>3
    <2>3. a \in 0..510
      BY <2>1, <1>3
    <2>4. depth \in 1..depth /\ depth - 1 \in 1..depth
      BY <1>2, <1>3
    <2> QED BY <2>2, <2>3, <2>4
  <1> HIDE DEF a
  <1>5. /\ Contents[depth] = ReadB(cpu.mem, a)
        /\ Contents[depth - 1] = ReadB(cpu.mem, a + 1)
    BY <1>1, <1>4, ContentsSeq
  <1>6. ReadW(cpu.mem, a) = ReadB(cpu.mem, a) + 256 * ReadB(cpu.mem, a + 1)
    BY <1>4, Here, WordRead
  <1>7. popped' = Contents[Len(Contents)] + 256 * Contents[Len(Contents) - 1]
    BY <1>1, <1>2, <1>5, <1>6
  <1> QED BY <1>1, <1>2, <1>7 DEF B!PopWord

\* txs starts a new stack, whatever was pushed and popped before.
LEMMA SetSPStep ==
  ASSUME IInv, NEW x \in Bases, SetSP(x)
  PROVE  B!SetPointer
  <1>1. base' = x /\ depth' = 0 /\ broken' = FALSE /\ popped' = popped
    BY DEF SetSP
  <1>2. Contents' = <<>>
    <2>1. Contents' = [i \in 1..0 |-> ReadB(cpu'.mem, PAGE_ONE + base' + 1 - i)]
      BY <1>1 DEF Contents
    <2> QED BY <2>1
  <1> QED BY <1>1, <1>2 DEF B!SetPointer

\* The program's stores below the page leave the stack alone.
LEMMA KeepStep ==
  ASSUME IInv, IInv', NEW d \in Data, Keep(d)
  PROVE  UNCHANGED B!vars
  <1>1. /\ base' = base /\ depth' = depth /\ popped' = popped /\ broken' = broken
        /\ cpu'.mem = WriteB(cpu.mem, 255, d)
    <2>1. cpu' = [cpu EXCEPT !.mem = WriteB(@, 255, d)]
      BY DEF Keep, PAGE_ONE
    <2> QED BY <2>1, Steps DEF Keep
  <1>2. CASE broken
    BY <1>1, <1>2 DEF B!vars
  <1>3. CASE ~broken
    <2>1. base \in 0..255 /\ depth \in 0 .. base + 1
      BY <1>3, Here DEF Byte
    <2>2. ASSUME NEW i \in 1..depth
          PROVE  ReadB(cpu'.mem, PAGE_ONE + base + 1 - i)
                 = ReadB(cpu.mem, PAGE_ONE + base + 1 - i)
      <3>1. PICK z, b : z = 255 /\ b = PAGE_ONE + base + 1 - i
        OBVIOUS
      <3>2. z \in 0..511 /\ b \in 0..511 /\ z # b
        BY <3>1, <2>1 DEF PAGE_ONE
      <3>3. ReadB(WriteB(cpu.mem, z, d), b) = ReadB(cpu.mem, b)
        BY <3>2, ReadOther
      <3> QED BY <3>1, <3>3, <1>1
    <2>3. Contents' = Contents
      BY <1>1, <2>2 DEF Contents
    <2> QED BY <1>1, <1>3, <2>3 DEF B!vars
  <1> QED BY <1>2, <1>3

\* The stack routines of cpu.c implement ByteStack (cpu.c:30-33): last in,
\* first out, for bytes and words in any mixture, wherever the program has set
\* SP, down to the last byte of the page.
THEOREM ImplementsByteStack == Spec => StackSpec
  <1>1. Init => B!Init
    <2> SUFFICES ASSUME Init PROVE B!Init
      OBVIOUS
    <2>1. base \in Bases /\ depth = 0 /\ popped = 0 /\ broken = FALSE
      BY DEF Init
    <2>2. Contents = <<>>
      <3>1. Contents = [i \in 1..0 |-> ReadB(cpu.mem, PAGE_ONE + base + 1 - i)]
        BY <2>1 DEF Contents
      <3> QED BY <3>1
    <2> QED BY <2>1, <2>2 DEF B!Init
  <1>2. IInv /\ IInv' /\ [Next]_vars => [B!Next]_B!vars
    <2> SUFFICES ASSUME IInv, IInv', [Next]_vars PROVE [B!Next]_B!vars
      OBVIOUS
    <2>1. CASE \E d \in Data : PushB(d)
      <3>1. PICK d \in Data : PushB(d)
        BY <2>1
      <3>2. CASE broken'
        <4>1. ~broken /\ broken' = (depth + 1 > base + 1)
          BY <3>1 DEF PushB, Pushed
        <4>2. depth + 1 > base + 1
          BY <3>2, <4>1, Zenon
        <4>3. ~(depth + 1 <= base + 1)
          BY <4>2, Here DEF Byte
        <4> QED BY <3>2, <4>1, <4>3, BreakStep DEF B!Next
      <3> QED BY <3>1, <3>2, PushBStep DEF B!Next
    <2>2. CASE \E w \in Words : PushW(w)
      <3>1. PICK w \in Words : PushW(w)
        BY <2>2
      <3>2. CASE broken'
        <4>1. ~broken /\ broken' = (depth + 2 > base + 1)
          BY <3>1 DEF PushW, Pushed
        <4>2. depth + 2 > base + 1
          BY <3>2, <4>1, Zenon
        <4>3. ~(depth + 2 <= base + 1)
          BY <4>2, Here DEF Byte
        <4> QED BY <3>2, <4>1, <4>3, BreakStep DEF B!Next
      <3> QED BY <3>1, <3>2, PushWStep DEF B!Next
    <2>3. CASE PopB
      <3>1. ~broken /\ broken' = (depth < 1)
        BY <2>3 DEF PopB, Popped
      <3>2. CASE broken'
        <4>1. depth < 1
          BY <3>1, <3>2, Zenon
        <4> QED BY <3>1, <3>2, <4>1, BreakStep DEF B!Next
      <3> QED BY <2>3, <3>2, PopBStep DEF B!Next
    <2>4. CASE PopW
      <3>1. ~broken /\ broken' = (depth < 2)
        BY <2>4 DEF PopW, Popped
      <3>2. CASE broken'
        <4>1. depth < 2
          BY <3>1, <3>2, Zenon
        <4> QED BY <3>1, <3>2, <4>1, BreakStep DEF B!Next
      <3> QED BY <2>4, <3>2, PopWStep DEF B!Next
    <2>5. CASE \E x \in Bases : SetSP(x)
      BY <2>5, SetSPStep DEF B!Next
    <2>6. CASE \E d \in Data : Keep(d)
      BY <2>6, KeepStep
    <2>7. CASE UNCHANGED vars
      BY <2>7 DEF vars, B!vars, Contents
    <2> QED BY <2>1, <2>2, <2>3, <2>4, <2>5, <2>6, <2>7 DEF Next
  <1> QED BY <1>1, <1>2, Invariance, PTL DEF Spec, StackSpec, B!Spec
============================================================================

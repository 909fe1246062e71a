--------------------------- MODULE GameFilesProofs ---------------------------
(***************************************************************************)
(* Proofs about the game files: about Cartridge, for any collection of     *)
(* files and any sizes of the arrays, and about the Listing that names     *)
(* them, for any volumes, names and answers of the firmware.               *)
(*                                                                         *)
(* Of the cartridge, GameIsWhole is inductive with TypeOK.  PatternIsOwn   *)
(* is not: what a bank holds was decided when the game was loaded.         *)
(* PagesInv says how the pages lie: those of this game are the last ones,  *)
(* and nothing follows.                                                    *)
(*                                                                         *)
(* Of the list, nothing that is claimed of the end is inductive.  ListInv  *)
(* says what each call on the C stack has allocated and opened (OwnInv),   *)
(* that the directories of the calls lie one below the other (NestInv),    *)
(* and what later names leave of a row (NameInv).  WalkInv says that what  *)
(* is listed, followed by what each call has still to list, the running    *)
(* one first, is the list of all games.                                    *)
(***************************************************************************)
EXTENDS Cartridge, Listing, TLAPS, SequenceTheorems, WellFoundedInduction

PagesInv ==
  /\ \A n \in Pages : n >= mmc_chr_pages_number => mmc_chr_pages[n] = Zero
  /\ playing =>
       /\ header \in Files
       /\ mmc_chr_pages_number = first + header.chr
       /\ \A n \in Nat : n < header.chr => mmc_chr_pages[first + n] = Page(header, n)
       /\ mmc_id = 0 => bank = 0
       /\ mmc_id \in {0, 3}

CountInv == IF broken THEN LoadsHold ELSE pages = mmc_chr_pages_number

IInv == TypeOK /\ GameIsWhole /\ PagesInv /\ PatternIsOwn /\ CountInv

-----------------------------------------------------------------------------
(* What fce_load_rom's parts return.                                       *)

LEMMA ContentFacts ==
  /\ Zero \in Content /\ Beyond \in Content /\ Data \in Content
  /\ \A f \in Files, i \in Nat : Piece(f, i) \in Content
BY DEF Content, Zero, Beyond, Data, Piece

LEMMA MmcIdType == \A f \in Files : MmcId(f) \in 0 .. 15
<1> SUFFICES ASSUME NEW f \in Files PROVE MmcId(f) \in 0 .. 15
  OBVIOUS
<1>1. f.mapper \in Nat
  BY FilesAssumption
<1> QED
  BY <1>1 DEF MmcId

LEMMA ProgramReadType ==
  ASSUME TypeOK, NEW f \in Files
  PROVE  ProgramRead(f) \in [0 .. BUF_PIECES - 1 -> Content]
BY ContentFacts, SizeAssumption DEF TypeOK, ProgramRead

\* Program memory is filled with the program, whatever it held before.
LEMMA MemoryCopiedFacts ==
  ASSUME TypeOK, NEW f \in Files
  PROVE  /\ MemoryCopied(f) \in [Quarters -> Content]
         /\ f.prg > 0 => \A q \in Quarters :
              MemoryCopied(f)[q] = Piece(f, IF f.prg = 1 THEN q % 2 ELSE q)
<1>1. f.prg \in Nat
  BY FilesAssumption
<1>2. \A q \in Quarters : (IF f.prg = 1 THEN q % 2 ELSE q) \in 0 .. BUF_PIECES - 1
  BY SizeAssumption DEF Quarters
<1>3. MemoryCopied(f) \in [Quarters -> Content]
  BY <1>2, ProgramReadType DEF MemoryCopied
<1>4. ASSUME f.prg > 0, NEW q \in Quarters
      PROVE  MemoryCopied(f)[q] = Piece(f, IF f.prg = 1 THEN q % 2 ELSE q)
  <2>1. (IF f.prg = 1 THEN q % 2 ELSE q) < 2 * f.prg
    BY <1>1, <1>4 DEF Quarters
  <2> QED
    BY <1>2, <2>1 DEF MemoryCopied, ProgramRead
<1> QED
  BY <1>3, <1>4

\* The new pages follow the old ones, and nothing follows the new ones.
LEMMA PagesAppendedFacts ==
  ASSUME TypeOK, PagesInv, NEW f \in Files,
         mmc_chr_pages_number + f.chr <= MMC_MAX_PAGE_COUNT
  PROVE  /\ PagesAppended(f) \in [Pages -> Content]
         /\ \A n \in Pages :
              n >= mmc_chr_pages_number + f.chr => PagesAppended(f)[n] = Zero
         /\ \A n \in Nat :
              n < f.chr => PagesAppended(f)[mmc_chr_pages_number + n] = Page(f, n)
<1> DEFINE m == mmc_chr_pages_number
           c == f.chr
<1>1. /\ c \in Nat /\ f.prg \in Nat /\ m \in Nat
      /\ MMC_MAX_PAGE_COUNT \in Nat /\ m + c <= MMC_MAX_PAGE_COUNT
  BY FilesAssumption, SizeAssumption DEF TypeOK
<1>2. \A n \in Nat : Page(f, n) \in Content
  BY <1>1, ContentFacts DEF Page
<1>3. PagesAppended(f) =
        [n \in Pages |-> IF n >= m /\ n < m + c THEN Page(f, n - m) ELSE mmc_chr_pages[n]]
  BY DEF PagesAppended
<1>4. mmc_chr_pages \in [Pages -> Content]
  BY DEF TypeOK
<1>5. \A n \in Pages : n >= m => mmc_chr_pages[n] = Zero
  BY DEF PagesInv
<1> HIDE DEF m, c
<1>6. PagesAppended(f) \in [Pages -> Content]
  BY <1>1, <1>2, <1>3, <1>4 DEF Pages
<1>7. \A n \in Pages : n >= m + c => PagesAppended(f)[n] = Zero
  BY <1>1, <1>3, <1>5 DEF Pages
<1>8. \A n \in Nat : n < c => PagesAppended(f)[m + n] = Page(f, n)
  <2> SUFFICES ASSUME NEW n \in Nat, n < c PROVE PagesAppended(f)[m + n] = Page(f, n)
    OBVIOUS
  <2>1. m + n \in Pages /\ m + n >= m /\ m + n < m + c /\ (m + n) - m = n
    BY <1>1 DEF Pages
  <2> QED
    BY <1>3, <2>1
<1> QED
  BY <1>6, <1>7, <1>8 DEF m, c

-----------------------------------------------------------------------------
LEMMA InitIInv == Init => IInv
<1> SUFFICES ASSUME Init PROVE IInv
  OBVIOUS
<1> USE DEF Init
<1>1. TypeOK
  <2>1. /\ buf \in [0 .. BUF_PIECES - 1 -> Content]
        /\ memory \in [Quarters -> Content]
        /\ mmc_chr_pages \in [Pages -> Content]
        /\ pattern \in Content
    BY ContentFacts
  <2>2. mmc_id \in 0 .. 15 /\ mmc_chr_pages_number \in 0 .. MMC_MAX_PAGE_COUNT
    BY SizeAssumption
  <2>3. /\ playing \in BOOLEAN /\ broken \in BOOLEAN /\ drawn \in BOOLEAN
        /\ header \in Files \cup {Zero} /\ mirroring \in {0, 1} /\ stored \subseteq Quarters
    BY Zenon
  <2>4. first \in Nat /\ pages \in Nat /\ bank \in 0 .. 3
    OBVIOUS
  <2> HIDE DEF Init
  <2> QED
    BY <2>1, <2>2, <2>3, <2>4 DEF TypeOK
<1>2. GameIsWhole /\ PatternIsOwn
  BY DEF GameIsWhole, PatternIsOwn
<1>3. PagesInv
  BY DEF PagesInv
<1>4. CountInv
  BY DEF CountInv
<1> QED
  BY <1>1, <1>2, <1>3, <1>4 DEF IInv

\* A file that is refused leaves its header and perhaps its program in buf.
LEMMA RefusedKeepsIInv ==
  ASSUME IInv, NEW f \in Files, LoadUnsigned(f) \/ LoadUnsupported(f)
  PROVE  IInv'
<1> USE DEF IInv, LoadUnsigned, LoadUnsupported, Picked, gameVars
<1>1. /\ header' \in Files
      /\ mmc_id' \in 0 .. 15
      /\ buf' \in [0 .. BUF_PIECES - 1 -> Content]
  BY MmcIdType, ProgramReadType DEF TypeOK
<1>2. UNCHANGED <<memory, mmc_chr_pages, mmc_chr_pages_number, pattern, mirroring,
                  playing, broken, gameVars>>
  OBVIOUS
<1>3. TypeOK'
  BY <1>1, <1>2 DEF TypeOK
<1>4. ~playing' /\ ~broken'
  BY <1>2
<1> QED
  BY <1>2, <1>3, <1>4 DEF GameIsWhole, PatternIsOwn, PagesInv, CountInv, Pages

\* A load that overruns an array had too much program or too many pages.
LEMMA OverrunKeepsIInv ==
  ASSUME IInv, NEW f \in Files, LoadOverruns(f)
  PROVE  IInv'
<1> USE DEF IInv, LoadOverruns, Picked
<1>1. f.chr \in Nat /\ pages \in Nat /\ mmc_chr_pages_number \in Nat
  BY FilesAssumption DEF TypeOK
<1>2. TypeOK'
  <2>1. pages' \in Nat
    BY <1>1
  <2>2. header' \in Files /\ broken' \in BOOLEAN
    OBVIOUS
  <2> QED
    BY <2>1, <2>2 DEF TypeOK
<1>3. pages = mmc_chr_pages_number
  BY DEF CountInv
<1>4. CountInv'
  BY <1>1, <1>3 DEF CountInv, LoadsHold, Overruns
<1> QED
  BY <1>2, <1>4 DEF GameIsWhole, PatternIsOwn, PagesInv, Pages

\* A load that succeeds replaces everything but the pages it appends to.
LEMMA LoadKeepsIInv ==
  ASSUME IInv, NEW f \in Files, LoadRom(f)
  PROVE  IInv'
<1> USE DEF IInv, LoadRom, Picked
<1>1. /\ f.chr \in Nat /\ f.prg \in Nat /\ f.mirroring \in {0, 1}
      /\ pages \in Nat /\ mmc_chr_pages_number \in Nat
  BY FilesAssumption DEF TypeOK
<1>2. mmc_chr_pages_number + f.chr <= MMC_MAX_PAGE_COUNT
  BY <1>1, SizeAssumption DEF Overruns
<1>3. \A n \in Nat : Page(f, n) \in Content
  BY <1>1, ContentFacts DEF Page
<1>4. TypeOK'
  <2>1. buf' \in [0 .. BUF_PIECES - 1 -> Content]
    <3>1. f.chr > 0 => Page(f, f.chr - 1) \in Content
      BY <1>1, <1>3
    <3> QED
      BY <3>1, ProgramReadType
  <2>2. memory' \in [Quarters -> Content] /\ mmc_chr_pages' \in [Pages -> Content]
    BY <1>2, MemoryCopiedFacts, PagesAppendedFacts
  <2>3. pattern' \in Content
    BY <1>3 DEF FirstPageShown, TypeOK
  <2>4. mmc_chr_pages_number' \in 0 .. MMC_MAX_PAGE_COUNT
    BY <1>1, <1>2, SizeAssumption
  <2>5. mmc_id' \in 0 .. 15
    BY MmcIdType
  <2>6. first' \in Nat /\ pages' \in Nat /\ bank' \in 0 .. 3
    BY <1>1
  <2>7. /\ header' \in Files /\ mirroring' \in {0, 1} /\ stored' \subseteq Quarters
        /\ playing' \in BOOLEAN /\ broken' \in BOOLEAN /\ drawn' \in BOOLEAN
    BY <1>1, Zenon DEF TypeOK
  <2> HIDE DEF LoadRom
  <2> QED
    BY <2>1, <2>2, <2>3, <2>4, <2>5, <2>6, <2>7 DEF TypeOK
<1>5. GameIsWhole'
  BY MemoryCopiedFacts DEF GameIsWhole, Piece
<1>6. PagesInv'
  <2>1. \A n \in Pages : n >= mmc_chr_pages_number' => mmc_chr_pages'[n] = Zero
    BY <1>2, PagesAppendedFacts
  <2>2. \A n \in Nat : n < f.chr => mmc_chr_pages'[first' + n] = Page(f, n)
    BY <1>2, PagesAppendedFacts
  <2>3. mmc_id' \in {0, 3}
    BY DEF Supported
  <2> QED
    BY <2>1, <2>2, <2>3 DEF PagesInv, Page, Piece, Pages
<1>7. PatternIsOwn'
  BY <1>1 DEF PatternIsOwn, FirstPageShown, Page, Piece
<1>8. CountInv'
  BY DEF CountInv
<1> QED
  BY <1>4, <1>5, <1>6, <1>7, <1>8

\* A store damages its piece; with mapper 3 it selects one of the first pages.
LEMMA WriteKeepsIInv ==
  ASSUME IInv, NEW q \in Quarters, NEW data \in 0 .. 3, MmcWrite(q, data)
  PROVE  IInv'
<1> USE DEF IInv, MmcWrite
<1>1. data % 4 = data /\ data \in Pages /\ data \in Nat
  BY SizeAssumption DEF Pages
<1>2. PageSelected(data) = mmc_chr_pages[data]
  BY <1>1 DEF PageSelected
<1>3. TypeOK'
  BY <1>1, <1>2, ContentFacts DEF TypeOK
<1>4. GameIsWhole'
  BY DEF GameIsWhole, TypeOK
<1>5. PagesInv'
  BY DEF PagesInv, Pages
<1>6. PatternIsOwn'
  <2>1. CASE mmc_id = 3
    <3> SUFFICES ASSUME playing, header.chr > 0, first = 0
                 PROVE  pattern' = IF data < header.chr THEN Page(header, data) ELSE Zero
      BY <1>1, <2>1 DEF PatternIsOwn, Page, Piece
    <3>1. pattern' = mmc_chr_pages[data]
      BY <1>2, <2>1
    <3>2. header.chr \in Nat
      BY FilesAssumption DEF PagesInv
    <3>3. CASE data < header.chr
      <4>1. mmc_chr_pages[0 + data] = Page(header, data)
        BY <1>1, <3>3 DEF PagesInv
      <4> QED
        BY <1>1, <3>1, <3>3, <4>1
    <3>4. CASE ~(data < header.chr)
      <4>1. data >= mmc_chr_pages_number
        BY <1>1, <3>2, <3>4 DEF PagesInv
      <4>2. mmc_chr_pages[data] = Zero
        BY <1>1, <4>1 DEF PagesInv
      <4> QED
        BY <3>1, <3>4, <4>2
    <3> QED
      BY <3>3, <3>4
  <2>2. CASE mmc_id # 3
    BY <2>2 DEF PatternIsOwn, Page, Piece
  <2> QED
    BY <2>1, <2>2
<1>7. CountInv'
  BY DEF CountInv, LoadsHold
<1> QED
  BY <1>3, <1>4, <1>5, <1>6, <1>7

LEMMA NextIInv == IInv /\ [Next]_vars => IInv'
<1> SUFFICES ASSUME IInv, [Next]_vars PROVE IInv'
  OBVIOUS
<1>1. CASE UNCHANGED vars
  BY <1>1 DEF vars, romVars, gameVars, IInv, TypeOK, GameIsWhole, PagesInv, PatternIsOwn,
     CountInv, LoadsHold, Pages, Page, Piece
<1>2. ASSUME NEW f \in Files, LoadCurrentFile(f) PROVE IInv'
  BY <1>2, RefusedKeepsIInv, OverrunKeepsIInv, LoadKeepsIInv DEF LoadCurrentFile
<1>3. ASSUME NEW q \in Quarters, NEW data \in 0 .. 3, MmcWrite(q, data) PROVE IInv'
  BY <1>3, WriteKeepsIInv
<1>4. CASE DrawPattern
  BY <1>4, ContentFacts DEF DrawPattern, romVars, IInv, TypeOK, GameIsWhole, PagesInv,
     PatternIsOwn, CountInv, LoadsHold, Pages, Page, Piece
<1>5. CASE Reboot
  BY <1>5 DEF Reboot, romVars, gameVars, IInv, TypeOK, GameIsWhole, PagesInv,
     PatternIsOwn, CountInv, LoadsHold, Pages
<1> QED
  BY <1>1, <1>2, <1>3, <1>4, <1>5 DEF Next

\* The strengthened invariant holds in every session.
THEOREM Invariance == Spec => []IInv
<1> QED
  BY InitIInv, NextIInv, PTL DEF Spec

\* Every variable keeps to its type; in particular no page beyond the room for
\* pages is ever counted.
THEOREM TypeCorrect == Spec => []TypeOK
<1>1. IInv => TypeOK
  BY DEF IInv
<1> QED
  BY <1>1, Invariance, PTL

\* Every game that is played has its own program, mapper and mirroring.
THEOREM GamesAreWhole == Spec => []GameIsWhole
<1>1. IInv => GameIsWhole
  BY DEF IInv
<1> QED
  BY <1>1, Invariance, PTL

\* Every game shows its own patterns, but for bank switching after an earlier
\* game with patterns.
THEOREM PatternsAreOwn == Spec => []PatternIsOwn
<1>1. IInv => PatternIsOwn
  BY DEF IInv
<1> QED
  BY <1>1, Invariance, PTL

\* Arrays are overrun only for want of room for one program or for all pages.
THEOREM LoadsAlwaysHold == Spec => []LoadsHold
<1>1. IInv => LoadsHold
  BY DEF IInv, CountInv, LoadsHold
<1> QED
  BY <1>1, Invariance, PTL

-----------------------------------------------------------------------------
(* The list of games: the walk over the volume.                            *)

Descent == {depth \in [DOMAIN tree -> 0 .. MaxDepth] : Deeper(tree, depth)}

\* Every call but the running one waits for the one above it, in a directory
\* that lies above it.
NestInv ==
  /\ \A k \in 1 .. Len(stack) - 1 : stack[k].at = "call"
  /\ \A depth \in Descent : \A i, j \in 1 .. Len(stack) :
       i < j => depth[stack[i].dir] + (j - i) <= depth[stack[j].dir]

\* A call that waits has two blocks and a directory, the running one what it
\* has got so far.
OwnInv ==
  /\ stack = <<>> => blocks = 0 /\ handles = 0
  /\ stack # <<>> =>
       /\ Top.at = "start" => blocks = 2 * (Len(stack) - 1)
       /\ Top.at = "loop" => blocks = 2 * (Len(stack) - 1) + 1
       /\ Top.at = "call" => blocks = 2 * Len(stack)
       /\ handles = Len(stack) - (IF Top.at = "call" THEN 0 ELSE 1)

\* Each name is where its row begins, with the character that ends it, unless
\* the name after it is written over its end.
NameInv ==
  /\ total_roms = Len(saved)
  /\ \A i \in 1 .. Len(saved) :
       /\ Row(i - 1) + Len(saved[i]) \in Room
       /\ Len(saved[i]) < MAX_FILE_NAME_SIZE \/ i = Len(saved)
       => /\ \A k \in 1 .. Len(saved[i]) : rom_collection[Row(i - 1) + k - 1] = saved[i][k]
          /\ rom_collection[Row(i - 1) + Len(saved[i])] = Nul

ListInv == ListTypeOK /\ NestInv /\ OwnInv /\ NameInv

LEMMA OneMore ==
  ASSUME NEW S, NEW s \in Seq(S), NEW e \in S
  PROVE  /\ s \o <<e>> \in Seq(S) /\ s \o <<e>> # <<>>
         /\ Len(s \o <<e>>) = Len(s) + 1
         /\ \A k \in 1 .. Len(s) : (s \o <<e>>)[k] = s[k]
         /\ (s \o <<e>>)[Len(s) + 1] = e
<1>1. <<e>> \in Seq(S) /\ Len(<<e>>) = 1 /\ <<e>>[1] = e /\ Len(s) \in Nat
  BY LenProperties
<1>2. /\ s \o <<e>> \in Seq(S) /\ Len(s \o <<e>>) = Len(s) + 1
      /\ \A k \in 1 .. Len(s) + 1 : (s \o <<e>>)[k] = IF k <= Len(s) THEN s[k]
                                                      ELSE <<e>>[k - Len(s)]
  BY <1>1, ConcatProperties
<1>3. s \o <<e>> # <<>>
  BY <1>1, <1>2, EmptySeq
<1> QED
  BY <1>1, <1>2, <1>3

LEMMA TopFacts ==
  ASSUME ListTypeOK, stack # <<>>
  PROVE  /\ Len(stack) \in Nat \ {0} /\ Top \in Frame /\ Top.dir \in DOMAIN tree
         /\ Top.read \in Nat /\ Top.at \in {"start", "loop", "call"}
<1>1. stack \in Seq(Frame) /\ Len(stack) \in Nat \ {0}
  BY EmptySeq DEF ListTypeOK
<1>2. Top \in Frame
  BY <1>1, ElementOfSeq DEF Top
<1> QED
  BY <1>1, <1>2 DEF Frame

LEMMA BelowFacts ==
  ASSUME ListTypeOK, stack # <<>>
  PROVE  /\ Below \in Seq(Frame) /\ Len(Below) = Len(stack) - 1
         /\ \A k \in 1 .. Len(stack) - 1 : Below[k] = stack[k]
<1>1. stack \in Seq(Frame) /\ Len(stack) \in Nat \ {0}
  BY TopFacts DEF ListTypeOK
<1>2. 1 \in Int /\ Len(stack) - 1 \in Int /\ \A k \in 1 .. Len(stack) - 1 : stack[k] \in Frame
  BY <1>1, ElementOfSeq
<1>3. /\ Below \in Seq(Frame)
      /\ Len(Below) = IF 1 <= Len(stack) - 1 THEN Len(stack) - 1 - 1 + 1 ELSE 0
      /\ \A k \in 1 .. Len(stack) - 1 - 1 + 1 : Below[k] = stack[1 + k - 1]
  BY <1>2, SubSeqProperties DEF Below
<1>4. Len(Below) = Len(stack) - 1
  <2> DEFINE n == Len(stack)
  <2>1. n \in Nat \ {0} /\ Len(Below) = IF 1 <= n - 1 THEN n - 1 - 1 + 1 ELSE 0
    BY <1>1, <1>3
  <2> HIDE DEF n
  <2>2. Len(Below) = n - 1
    BY <2>1
  <2> QED
    BY <2>2 DEF n
<1>5. ASSUME NEW k \in 1 .. Len(stack) - 1 PROVE Below[k] = stack[k]
  <2>1. k \in 1 .. Len(stack) - 1 - 1 + 1 /\ 1 + k - 1 = k
    BY <1>1
  <2> QED
    BY <1>3, <2>1
<1> QED
  BY <1>3, <1>4, <1>5

LEMMA DepthFacts ==
  ASSUME NEW depth \in Descent, NEW d \in DOMAIN tree
  PROVE  depth[d] \in Nat
BY DEF Descent

LEMMA DescentKept ==
  UNCHANGED tree => Descent' = Descent
BY DEF Descent

\* The running call goes on.
LEMMA TopReplaced ==
  ASSUME ListTypeOK, NestInv, stack # <<>>, UNCHANGED tree,
         NEW f \in Frame, f.dir = Top.dir, stack' = Below \o <<f>>
  PROVE  /\ stack' \in Seq(Frame) /\ Len(stack') = Len(stack) /\ stack' # <<>>
         /\ Top' = f /\ NestInv'
<1>1. /\ Len(stack) \in Nat \ {0} /\ Below \in Seq(Frame) /\ Len(Below) = Len(stack) - 1
      /\ \A k \in 1 .. Len(stack) - 1 : Below[k] = stack[k]
  BY TopFacts, BelowFacts
<1>2. /\ stack' \in Seq(Frame) /\ Len(stack') = Len(stack)
      /\ \A k \in 1 .. Len(stack) - 1 : stack'[k] = stack[k]
      /\ stack'[Len(stack)] = f /\ stack' # <<>>
  BY <1>1, OneMore
<1>3. Top' = f
  BY <1>1, <1>2 DEF Top
<1>4. \A k \in 1 .. Len(stack) : stack'[k].dir = stack[k].dir
  BY <1>1, <1>2 DEF Top
<1>5. NestInv'
  <2>1. \A k \in 1 .. Len(stack) - 1 : stack'[k].at = "call"
    BY <1>2 DEF NestInv
  <2>2. \A depth \in Descent' : \A i, j \in 1 .. Len(stack) :
          i < j => depth[stack'[i].dir] + (j - i) <= depth[stack'[j].dir]
    BY <1>4, DescentKept DEF NestInv
  <2> QED
    BY <1>2, <2>1, <2>2 DEF NestInv
<1> QED
  BY <1>2, <1>3, <1>5

\* The running call is over: the one below it was waiting.
LEMMA TopPopped ==
  ASSUME ListTypeOK, NestInv, stack # <<>>, UNCHANGED tree, stack' = Below
  PROVE  /\ stack' \in Seq(Frame) /\ Len(stack') = Len(stack) - 1
         /\ stack' # <<>> => Top'.at = "call"
         /\ stack' = <<>> => Len(stack) = 1
         /\ NestInv'
<1>1. /\ Len(stack) \in Nat \ {0} /\ stack' \in Seq(Frame) /\ Len(stack') = Len(stack) - 1
      /\ \A k \in 1 .. Len(stack) - 1 : stack'[k] = stack[k]
  BY TopFacts, BelowFacts
<1>2. ASSUME stack' # <<>> PROVE Top'.at = "call"
  <2>1. Len(stack) - 1 \in 1 .. Len(stack) - 1
    BY <1>1, <1>2
  <2> QED
    BY <1>1, <2>1 DEF Top, NestInv
<1>3. NestInv'
  BY <1>1, DescentKept DEF NestInv
<1> QED
  BY <1>1, <1>2, <1>3

\* The running call makes another, for a directory further down.
LEMMA TopPushed ==
  ASSUME ListTypeOK, NestInv, stack # <<>>, UNCHANGED tree,
         NEW f \in Frame, f.dir = Top.dir, f.at = "call", NEW g \in Frame,
         \A depth \in Descent : depth[g.dir] > depth[f.dir],
         stack' = (Below \o <<f>>) \o <<g>>
  PROVE  /\ stack' \in Seq(Frame) /\ Len(stack') = Len(stack) + 1 /\ stack' # <<>>
         /\ Top' = g /\ NestInv'
<1> DEFINE n == Len(stack)
<1>1. /\ n \in Nat \ {0} /\ Below \in Seq(Frame) /\ Len(Below) = n - 1
      /\ \A k \in 1 .. n - 1 : Below[k] = stack[k]
  BY TopFacts, BelowFacts
<1>2. /\ stack' \in Seq(Frame) /\ Len(stack') = n + 1
      /\ \A k \in 1 .. n - 1 : stack'[k] = stack[k]
      /\ stack'[n] = f /\ stack'[n + 1] = g /\ stack' # <<>>
  <2>1. /\ Below \o <<f>> \in Seq(Frame) /\ Len(Below \o <<f>>) = n
        /\ \A k \in 1 .. n - 1 : (Below \o <<f>>)[k] = stack[k]
        /\ (Below \o <<f>>)[n] = f
    BY <1>1, OneMore
  <2>2. /\ stack' \in Seq(Frame) /\ Len(stack') = n + 1 /\ stack' # <<>>
        /\ \A k \in 1 .. n : stack'[k] = (Below \o <<f>>)[k]
        /\ stack'[n + 1] = g
    BY <2>1, OneMore
  <2> QED
    BY <1>1, <2>1, <2>2
<1>3. Top' = g
  BY <1>1, <1>2 DEF Top
<1>4. \A k \in 1 .. n : stack'[k].dir = stack[k].dir
  BY <1>1, <1>2 DEF Top
<1>5. \A k \in 1 .. n : stack'[k].at = "call"
  BY <1>1, <1>2, SMTT(30) DEF NestInv
<1>6. ASSUME NEW depth \in Descent, NEW i \in 1 .. n + 1, NEW j \in 1 .. n + 1, i < j
      PROVE  depth[stack'[i].dir] + (j - i) <= depth[stack'[j].dir]
  <2>1. \A k \in 1 .. n : depth[stack[k].dir] \in Nat
    <3>1. \A k \in 1 .. n : stack[k] \in Frame
      BY ElementOfSeq DEF ListTypeOK
    <3> QED
      BY <3>1, DepthFacts DEF Frame
  <2>2. CASE j \in 1 .. n
    <3>1. i \in 1 .. n /\ j \in 1 .. n
      BY <1>1, <1>6, <2>2
    <3> QED
      BY <1>1, <1>2, <1>4, <1>6, <3>1 DEF NestInv
  <2>3. CASE j = n + 1
    <3>1. i \in 1 .. n /\ n \in 1 .. n
      BY <1>1, <1>6, <2>3
    <3>2. depth[stack[i].dir] + (n - i) <= depth[stack[n].dir]
      <4>1. CASE i = n
        <5>1. depth[stack[n].dir] \in Nat
          BY <2>1, <3>1
        <5> QED
          BY <1>1, <4>1, <5>1
      <4>2. CASE i < n
        BY <3>1, <4>2 DEF NestInv
      <4> QED
        BY <1>1, <3>1, <4>1, <4>2
    <3>3. depth[g.dir] > depth[stack[n].dir] /\ depth[g.dir] \in Nat
      BY DepthFacts DEF Top, Frame
    <3> QED
      BY <1>1, <1>2, <1>4, <2>1, <2>3, <3>1, <3>2, <3>3, SMTT(30)
  <2> QED
    BY <1>1, <2>2, <2>3
<1>7. NestInv'
  <2>1. \A k \in 1 .. Len(stack') - 1 : stack'[k].at = "call"
    BY <1>1, <1>2, <1>5
  <2>2. \A depth \in Descent' : \A i, j \in 1 .. Len(stack') :
          i < j => depth[stack'[i].dir] + (j - i) <= depth[stack'[j].dir]
    BY <1>2, <1>6, DescentKept
  <2> QED
    BY <2>1, <2>2 DEF NestInv
<1> QED
  BY <1>2, <1>3, <1>7

\* An entry of the directory that is being read.
LEMMA EntryFacts ==
  ASSUME ListTypeOK, ReadsEntry
  PROVE  /\ stack # <<>> /\ Top.at = "loop"
         /\ Entry.name \in Seq(Chars) \ {<<>>} /\ Entry.leads \in DOMAIN tree \cup {File}
         /\ ~IsDots(Entry.name) /\ Entry.leads # File =>
              \A depth \in Descent : depth[Entry.leads] > depth[Top.dir]
         /\ \A at \in {"loop", "call"} :
              LET f == [Top EXCEPT !.read = @ + 1, !.at = at]
              IN  f \in Frame /\ f.dir = Top.dir /\ f.at = at
<1>1. stack # <<>> /\ Top.at = "loop" /\ Top.read < Len(Entries)
  BY DEF ReadsEntry, Running
<1>2. /\ Top \in Frame /\ Top.dir \in DOMAIN tree /\ Top.read \in Nat
  BY <1>1, TopFacts
<1>3. Entries \in Seq([name : Seq(Chars) \ {<<>>}, leads : DOMAIN tree \cup {File}])
  BY <1>2, TreesAssumption DEF Entries, ListTypeOK
<1>4. Top.read + 1 \in 1 .. Len(Entries) /\ Top.read + 1 \in DOMAIN tree[Top.dir]
  BY <1>1, <1>2, <1>3 DEF Entries
<1>5. Entry \in [name : Seq(Chars) \ {<<>>}, leads : DOMAIN tree \cup {File}]
  BY <1>3, <1>4, ElementOfSeq DEF Entry
<1>6. ~IsDots(Entry.name) /\ Entry.leads # File =>
        \A depth \in Descent : depth[Entry.leads] > depth[Top.dir]
  BY <1>2, <1>4 DEF Entry, Entries, Descent, Deeper, IsDots
<1>7. \A at \in {"loop", "call"} :
        LET f == [Top EXCEPT !.read = @ + 1, !.at = at]
        IN  f \in Frame /\ f.dir = Top.dir /\ f.at = at
  <2>1. Top.read + 1 \in Nat
    BY <1>2
  <2>2. ASSUME NEW at \in {"loop", "call"}
        PROVE  LET f == [Top EXCEPT !.read = Top.read + 1, !.at = at]
               IN  f \in Frame /\ f.dir = Top.dir /\ f.at = at
    BY <1>2, <2>1 DEF Frame
  <2> QED
    BY <2>2
<1> QED
  BY <1>1, <1>5, <1>6, <1>7

-----------------------------------------------------------------------------
(* The list of games: the names.                                           *)

LEMMA RowFacts ==
  /\ \A i \in Nat : Row(i) \in Nat
  /\ \A i, j \in Nat : i < j => Row(i) + MAX_FILE_NAME_SIZE <= Row(j)
<1> DEFINE size == MAX_FILE_NAME_SIZE
<1>1. size \in Nat
  BY SizesAssumption
<1> HIDE DEF size
<1>2. \A i \in Nat : i * size \in Nat
  BY <1>1
<1>3. ASSUME NEW i \in Nat, NEW j \in Nat, i < j
      PROVE  i * size + size <= j * size
  <2>1. PICK k \in Nat : j = (i + 1) + k
    <3>1. j - (i + 1) \in Nat
      BY <1>3
    <3> QED
      BY <3>1
  <2>2. j * size = i * size + size + k * size
    BY <1>1, <2>1
  <2> DEFINE x == i * size
             y == k * size
  <2>3. x \in Nat /\ y \in Nat /\ j * size = x + size + y
    BY <1>2, <2>2
  <2> HIDE DEF x, y
  <2>4. x + size <= j * size
    BY <1>1, <2>3
  <2> QED
    BY <2>4 DEF x
<1> QED
  BY <1>2, <1>3 DEF Row, size

LEMMA RoomFacts ==
  ASSUME NEW a \in Nat, NEW b \in Room, a <= b
  PROVE  a \in Room
<1>1. MAX_FILE_NUMBER * MAX_FILE_NAME_SIZE \in Nat
  BY SizesAssumption
<1> QED
  BY <1>1 DEF Room

\* StrCpy writes the row, and nothing before it.
LEMMA CopiedFacts ==
  ASSUME ListTypeOK, NEW name \in Seq(Chars), NEW to \in Nat
  PROVE  /\ Copied(name, to) \in [Room -> Chars \cup {Nul}]
         /\ \A a \in Room : a < to => Copied(name, to)[a] = rom_collection[a]
         /\ to + Len(name) \in Room =>
              /\ \A k \in 1 .. Len(name) : Copied(name, to)[to + k - 1] = name[k]
              /\ Copied(name, to)[to + Len(name)] = Nul
<1>0. Len(name) \in Nat /\ \A k \in 1 .. Len(name) : name[k] \in Chars
  BY ElementOfSeq, LenProperties
<1>1. \A a \in Room : a \in Nat
  BY DEF Room
<1>2. ASSUME NEW a \in Room
      PROVE  /\ Copied(name, to)[a] \in Chars \cup {Nul}
             /\ a < to => Copied(name, to)[a] = rom_collection[a]
             /\ \A k \in 1 .. Len(name) : a = to + k - 1 => Copied(name, to)[a] = name[k]
             /\ a = to + Len(name) => Copied(name, to)[a] = Nul
  <2>1. Copied(name, to)[a] = IF a - to \in 0 .. Len(name) - 1 THEN name[a - to + 1]
                              ELSE IF a = to + Len(name) THEN Nul
                              ELSE rom_collection[a]
    BY DEF Copied
  <2>2. rom_collection[a] \in Chars \cup {Nul}
    BY DEF ListTypeOK
  <2>3. a - to \in 0 .. Len(name) - 1 => name[a - to + 1] \in Chars
    <3>1. a - to \in 0 .. Len(name) - 1 => a - to + 1 \in 1 .. Len(name)
      BY <1>0, <1>1
    <3> QED
      BY <1>0, <3>1
  <2>4. Copied(name, to)[a] \in Chars \cup {Nul}
    BY <2>1, <2>2, <2>3
  <2>5. a < to => Copied(name, to)[a] = rom_collection[a]
    BY <1>0, <1>1, <2>1
  <2>6. ASSUME NEW k \in 1 .. Len(name), a = to + k - 1
        PROVE  Copied(name, to)[a] = name[k]
    <3>1. a - to \in 0 .. Len(name) - 1 /\ a - to + 1 = k
      BY <1>0, <2>6
    <3> QED
      BY <2>1, <3>1
  <2>7. a = to + Len(name) => Copied(name, to)[a] = Nul
    BY <1>0, <2>1
  <2> QED
    BY <2>4, <2>5, <2>6, <2>7
<1>3. ASSUME to + Len(name) \in Room, NEW k \in 1 .. Len(name)
      PROVE  to + k - 1 \in Room
  <2>1. to + k - 1 \in Nat /\ to + k - 1 <= to + Len(name)
    BY <1>0
  <2> QED
    BY <1>3, <2>1, RoomFacts
<1>4. Copied(name, to) \in [Room -> Chars \cup {Nul}]
  <2>1. \E f : Copied(name, to) = [a \in Room |-> f[a]]
    <3>1. Copied(name, to) = [a \in Room |-> Copied(name, to)[a]]
      BY DEF Copied
    <3> QED
      BY <3>1
  <2> QED
    BY <1>2, <2>1
<1> QED
  BY <1>2, <1>3, <1>4

LEMMA NamesTyped ==
  ASSUME ListTypeOK
  PROVE  /\ saved \in Seq(Seq(Chars)) /\ Len(saved) \in Nat
         /\ \A i \in 1 .. Len(saved) : saved[i] \in Seq(Chars) /\ Len(saved[i]) \in Nat
<1>1. saved \in Seq(Seq(Chars)) /\ Len(saved) \in Nat
  BY LenProperties DEF ListTypeOK
<1>2. \A i \in 1 .. Len(saved) : saved[i] \in Seq(Chars)
  BY <1>1, ElementOfSeq
<1> QED
  BY <1>1, <1>2, LenProperties

LEMMA NameSaved ==
  ASSUME ListTypeOK, NameInv, NEW name \in Seq(Chars), SaveRomInfo(name)
  PROVE  /\ rom_collection' \in [Room -> Chars \cup {Nul}]
         /\ total_roms' \in Nat /\ saved' \in Seq(Seq(Chars))
         /\ NameInv'
<1> DEFINE n == Len(saved)
           to == Row(n)
<1>1. CASE ~Wanted(name)
  BY <1>1 DEF SaveRomInfo, nameVars, NameInv, ListTypeOK
<1>2. CASE Wanted(name)
  <2>1. /\ n \in Nat /\ to \in Nat /\ total_roms = n /\ Len(name) \in Nat
        /\ rom_collection' = Copied(name, to) /\ total_roms' = n + 1
    BY <1>2, NamesTyped, RowFacts, LenProperties DEF SaveRomInfo, NameInv
  <2>2. /\ saved' = Append(saved, name) /\ saved' \in Seq(Seq(Chars)) /\ Len(saved') = n + 1
        /\ \A i \in 1 .. n : saved'[i] = saved[i]
        /\ saved'[n + 1] = name
    <3>1. saved' = Append(saved, name)
      BY <1>2 DEF SaveRomInfo
    <3> QED
      BY <3>1, NamesTyped, AppendProperties
  <2>3. ASSUME NEW i \in 1 .. n + 1,
               Row(i - 1) + Len(saved'[i]) \in Room,
               Len(saved'[i]) < MAX_FILE_NAME_SIZE \/ i = n + 1
        PROVE  /\ \A k \in 1 .. Len(saved'[i]) :
                    rom_collection'[Row(i - 1) + k - 1] = saved'[i][k]
               /\ rom_collection'[Row(i - 1) + Len(saved'[i])] = Nul
    <3>1. CASE i = n + 1
      <4>1. i - 1 = n /\ saved'[i] = name
        BY <2>1, <2>2, <3>1
      <4> QED
        BY <2>1, <2>3, <4>1, CopiedFacts
    <3>2. CASE i # n + 1
      <4> DEFINE at == Row(i - 1)
      <4>1. i \in 1 .. n /\ i - 1 \in Nat /\ i - 1 < n /\ saved'[i] = saved[i]
            /\ Len(saved[i]) < MAX_FILE_NAME_SIZE
        BY <2>1, <2>2, <2>3, <3>2
      <4>2. at \in Nat /\ Len(saved[i]) \in Nat /\ at + MAX_FILE_NAME_SIZE <= to
            /\ MAX_FILE_NAME_SIZE \in Nat
        BY <2>1, <4>1, RowFacts, NamesTyped, SizesAssumption
      <4>3. /\ \A k \in 1 .. Len(saved[i]) : rom_collection[at + k - 1] = saved[i][k]
            /\ rom_collection[at + Len(saved[i])] = Nul
        BY <2>3, <4>1 DEF NameInv
      <4> HIDE DEF at, to
      <4>4. ASSUME NEW a \in Nat, a <= at + Len(saved[i])
            PROVE  rom_collection'[a] = rom_collection[a]
        <5>1. at + Len(saved[i]) \in Room
          BY <2>3, <4>1 DEF at
        <5>2. a \in Room
          BY <4>4, <5>1, RoomFacts
        <5>3. a < to
          BY <2>1, <4>1, <4>2, <4>4
        <5> QED
          BY <2>1, <5>2, <5>3, CopiedFacts
      <4>5. \A k \in 1 .. Len(saved[i]) : at + k - 1 \in Nat /\ at + k - 1 <= at + Len(saved[i])
        BY <4>2
      <4>6. at + Len(saved[i]) \in Nat
        BY <4>2
      <4> QED
        BY <4>1, <4>3, <4>4, <4>5, <4>6, SMTT(30) DEF at
    <3> QED
      BY <3>1, <3>2
  <2>4. NameInv'
    BY <2>1, <2>2, <2>3 DEF NameInv
  <2> QED
    BY <2>1, <2>2, <2>4, CopiedFacts
<1> QED
  BY <1>1, <1>2

-----------------------------------------------------------------------------
(* The list of games: every step.                                          *)

LEMMA ListInitInv == ListInit => ListInv
<1> SUFFICES ASSUME ListInit PROVE ListInv
  OBVIOUS
<1> DEFINE f == [dir |-> Root, read |-> 0, at |-> "start"]
<1>1. tree \in Trees /\ stack = <<f>>
  BY DEF ListInit
<1>2. f \in Frame
  BY <1>1, TreesAssumption DEF Frame
<1>3. stack \in Seq(Frame) /\ Len(stack) = 1 /\ stack # <<>> /\ stack[1] = f
  BY <1>1, <1>2
<1>4. ListTypeOK
  <2>1. saved \in Seq(Seq(Chars))
    BY EmptySeq DEF ListInit
  <2>2. rom_collection \in [Room -> Chars \cup {Nul}]
    BY DEF ListInit
  <2> QED
    BY <1>1, <1>3, <2>1, <2>2 DEF ListInit, ListTypeOK
<1>5. NestInv
  BY <1>3 DEF NestInv
<1>6. OwnInv
  BY <1>3 DEF ListInit, OwnInv, Top
<1>7. NameInv
  BY DEF ListInit, NameInv
<1> QED
  BY <1>4, <1>5, <1>6, <1>7 DEF ListInv

\* The names are left alone.
LEMMA NamesKept ==
  ASSUME ListInv, UNCHANGED nameVars
  PROVE  /\ rom_collection' \in [Room -> Chars \cup {Nul}]
         /\ total_roms' \in Nat /\ saved' \in Seq(Seq(Chars))
         /\ NameInv'
BY DEF ListInv, ListTypeOK, NameInv, nameVars

\* What a step has to show, apart from the stack and the names.
LEMMA StepInv ==
  ASSUME ListInv, UNCHANGED tree,
         stack' \in Seq(Frame), NestInv', OwnInv',
         rc' \in {"success", "failed"}, blocks' \in Nat, handles' \in Nat,
         crashed' \in BOOLEAN,
         /\ rom_collection' \in [Room -> Chars \cup {Nul}]
         /\ total_roms' \in Nat /\ saved' \in Seq(Seq(Chars))
         /\ NameInv'
  PROVE  ListInv'
<1>1. tree' \in Trees /\ stack' \in Seq(Frame')
  BY DEF ListInv, ListTypeOK, Frame
<1> QED
  BY <1>1 DEF ListInv, ListTypeOK

\* The running call goes on, with as much as its place allows.
LEMMA GoesOn ==
  ASSUME ListInv, stack # <<>>, UNCHANGED <<tree, crashed>>, rc' = rc,
         NEW f \in Frame, f.dir = Top.dir, f.at = "loop", stack' = Below \o <<f>>,
         blocks' = 2 * (Len(stack) - 1) + 1, handles' = Len(stack) - 1,
         /\ rom_collection' \in [Room -> Chars \cup {Nul}]
         /\ total_roms' \in Nat /\ saved' \in Seq(Seq(Chars))
         /\ NameInv'
  PROVE  ListInv'
<1>1. /\ stack' \in Seq(Frame) /\ Len(stack') = Len(stack) /\ stack' # <<>>
      /\ Top' = f /\ NestInv'
  BY TopReplaced DEF ListInv
<1>2. Len(stack) \in Nat \ {0}
  BY TopFacts DEF ListInv
<1>3. OwnInv'
  BY <1>1, <1>2 DEF OwnInv
<1>4. blocks' \in Nat /\ handles' \in Nat /\ rc' \in {"success", "failed"} /\ crashed' \in BOOLEAN
  BY <1>2 DEF ListInv, ListTypeOK
<1> QED
  BY <1>1, <1>3, <1>4, StepInv

\* The running call is over, and has left nothing.
LEMMA Ends ==
  ASSUME ListInv, stack # <<>>, UNCHANGED <<tree, crashed>>, rc' \in {"success", "failed"},
         stack' = Below,
         blocks' = 2 * (Len(stack) - 1), handles' = Len(stack) - 1,
         /\ rom_collection' \in [Room -> Chars \cup {Nul}]
         /\ total_roms' \in Nat /\ saved' \in Seq(Seq(Chars))
         /\ NameInv'
  PROVE  ListInv'
<1>1. /\ stack' \in Seq(Frame) /\ Len(stack') = Len(stack) - 1
      /\ stack' # <<>> => Top'.at = "call"
      /\ stack' = <<>> => Len(stack) = 1
      /\ NestInv'
  BY TopPopped DEF ListInv
<1>2. Len(stack) \in Nat \ {0}
  BY TopFacts DEF ListInv
<1>3. OwnInv'
  BY <1>1, <1>2 DEF OwnInv
<1>4. blocks' \in Nat /\ handles' \in Nat /\ crashed' \in BOOLEAN
  BY <1>2 DEF ListInv, ListTypeOK
<1> QED
  BY <1>1, <1>3, <1>4, StepInv

\* What the running call has.
LEMMA Owned ==
  ASSUME ListInv, stack # <<>>
  PROVE  /\ Len(stack) \in Nat \ {0}
         /\ Top.at = "start" => blocks = 2 * (Len(stack) - 1) /\ handles = Len(stack) - 1
         /\ Top.at = "loop" => /\ blocks = 2 * (Len(stack) - 1) + 1
                               /\ blocks - 1 = 2 * (Len(stack) - 1)
                               /\ handles = Len(stack) - 1
         /\ Top.at = "call" => /\ blocks - 1 = 2 * (Len(stack) - 1) + 1
                               /\ blocks - 2 = 2 * (Len(stack) - 1)
                               /\ handles - 1 = Len(stack) - 1
<1>1. Len(stack) \in Nat \ {0} /\ OwnInv
  BY TopFacts DEF ListInv
<1> QED
  BY <1>1 DEF OwnInv

LEMMA ListNextInv == ListInv /\ [ListNext]_listVars => ListInv'
<1> SUFFICES ASSUME ListInv, [ListNext]_listVars PROVE ListInv'
  OBVIOUS
<1>0. ListTypeOK /\ rc \in {"success", "failed"}
  BY DEF ListInv, ListTypeOK
<1>1. CASE Start
  <2> DEFINE f == [Top EXCEPT !.at = "loop"]
  <2>1. stack # <<>> /\ Top.at = "start" /\ Top \in Frame
    BY <1>0, <1>1, TopFacts DEF Start, Running
  <2>2. f \in Frame /\ f.dir = Top.dir /\ f.at = "loop"
    BY <2>1 DEF Frame
  <2>3. blocks' = 2 * (Len(stack) - 1) + 1 /\ handles' = Len(stack) - 1
    BY <1>1, <2>1, Owned DEF Start
  <2> QED
    BY <1>1, <2>1, <2>2, <2>3, NamesKept, GoesOn DEF Start
<1>2. CASE NoMemory
  <2>1. stack # <<>> /\ Top.at = "start"
    BY <1>2 DEF NoMemory, Running
  <2> QED
    BY <1>2, <2>1, Owned, NamesKept, Ends DEF NoMemory, Return
<1>3. CASE ReadFails
  <2>1. stack # <<>> /\ Top.at = "loop"
    BY <1>3 DEF ReadFails, Running
  <2> QED
    BY <1>3, <2>1, Owned, NamesKept, Ends DEF ReadFails, Return
<1>4. CASE ReadsEnd
  <2>1. stack # <<>> /\ Top.at = "loop"
    BY <1>4 DEF ReadsEnd, Running
  <2> QED
    BY <1>4, <2>1, Owned, NamesKept, Ends DEF ReadsEnd, Return
<1>5. CASE SkipDots
  <2> DEFINE f == [Top EXCEPT !.read = @ + 1, !.at = "loop"]
  <2>1. stack # <<>> /\ Top.at = "loop" /\ f \in Frame /\ f.dir = Top.dir /\ f.at = "loop"
    BY <1>0, <1>5, EntryFacts DEF SkipDots
  <2>2. stack' = Below \o <<f>>
    BY <1>5 DEF SkipDots, Reading
  <2> QED
    BY <1>5, <2>1, <2>2, Owned, NamesKept, GoesOn DEF SkipDots
<1>6. CASE NoPath
  <2>1. stack # <<>> /\ Top.at = "loop"
    BY <1>0, <1>6, EntryFacts DEF NoPath
  <2> QED
    BY <1>6, <2>1, Owned, NamesKept, Ends DEF NoPath, Return
<1>7. CASE WildPath
  BY <1>7 DEF WildPath, nameVars, ListInv, ListTypeOK, Frame, NestInv, Descent, OwnInv, Top, NameInv
<1>8. CASE ListFile
  <2> DEFINE f == [Top EXCEPT !.read = @ + 1, !.at = "loop"]
  <2>1. /\ stack # <<>> /\ Top.at = "loop" /\ f \in Frame /\ f.dir = Top.dir /\ f.at = "loop"
        /\ Entry.name \in Seq(Chars)
    BY <1>0, <1>8, EntryFacts DEF ListFile
  <2>2. stack' = Below \o <<f>> /\ SaveRomInfo(Entry.name)
    BY <1>8 DEF ListFile, Reading
  <2>3. /\ rom_collection' \in [Room -> Chars \cup {Nul}]
        /\ total_roms' \in Nat /\ saved' \in Seq(Seq(Chars))
        /\ NameInv'
    BY <2>1, <2>2, NameSaved DEF ListInv
  <2> QED
    BY <1>8, <2>1, <2>2, <2>3, Owned, GoesOn DEF ListFile
<1>9. CASE OpenFails
  <2>1. stack # <<>> /\ Top.at = "loop" /\ Entry.name \in Seq(Chars)
    BY <1>0, <1>9, EntryFacts DEF OpenFails
  <2>2. SaveRomInfo(Entry.name)
    BY <1>9 DEF OpenFails
  <2>3. /\ rom_collection' \in [Room -> Chars \cup {Nul}]
        /\ total_roms' \in Nat /\ saved' \in Seq(Seq(Chars))
        /\ NameInv'
    BY <2>1, <2>2, NameSaved DEF ListInv
  <2> QED
    BY <1>9, <2>1, <2>3, Owned, Ends DEF OpenFails, Return
<1>10. CASE Descend
  <2> DEFINE f == [Top EXCEPT !.read = @ + 1, !.at = "call"]
             g == [dir |-> Entry.leads, read |-> 0, at |-> "start"]
  <2>1. /\ stack # <<>> /\ Top.at = "loop" /\ f \in Frame /\ f.dir = Top.dir /\ f.at = "call"
        /\ Entry.name \in Seq(Chars) /\ Entry.leads \in DOMAIN tree
        /\ \A depth \in Descent : depth[Entry.leads] > depth[Top.dir]
    BY <1>0, <1>10, EntryFacts DEF Descend
  <2>2. g \in Frame /\ g.dir = Entry.leads /\ g.at = "start"
    BY <2>1 DEF Frame
  <2>3. stack' = (Below \o <<f>>) \o <<g>> /\ SaveRomInfo(Entry.name)
    BY <1>10 DEF Descend, Reading
  <2>4. /\ rom_collection' \in [Room -> Chars \cup {Nul}]
        /\ total_roms' \in Nat /\ saved' \in Seq(Seq(Chars))
        /\ NameInv'
    BY <2>1, <2>3, NameSaved DEF ListInv
  <2>5. UNCHANGED <<tree, rc, crashed>>
    BY <1>10 DEF Descend
  <2> HIDE DEF f, g
  <2>6. /\ stack' \in Seq(Frame) /\ Len(stack') = Len(stack) + 1 /\ stack' # <<>>
        /\ Top' = g /\ NestInv'
    BY <1>0, <2>1, <2>2, <2>3, <2>5, TopPushed DEF ListInv
  <2>7. /\ Len(stack) \in Nat \ {0}
        /\ blocks' = 2 * (Len(stack) - 1) + 2 /\ handles' = Len(stack)
    BY <1>10, <2>1, Owned DEF Descend
  <2>8. OwnInv' /\ blocks' \in Nat /\ handles' \in Nat
    BY <2>2, <2>6, <2>7 DEF OwnInv
  <2> QED
    BY <1>0, <2>4, <2>5, <2>6, <2>8, StepInv DEF ListTypeOK
<1>11. CASE GoOn
  <2> DEFINE f == [Top EXCEPT !.at = "loop"]
  <2>1. stack # <<>> /\ Top.at = "call" /\ Top \in Frame
    BY <1>0, <1>11, TopFacts DEF GoOn, Running
  <2>2. f \in Frame /\ f.dir = Top.dir /\ f.at = "loop"
    BY <2>1 DEF Frame
  <2>3. blocks' = 2 * (Len(stack) - 1) + 1 /\ handles' = Len(stack) - 1
    BY <1>11, <2>1, Owned DEF GoOn
  <2> QED
    BY <1>11, <2>1, <2>2, <2>3, NamesKept, GoesOn DEF GoOn
<1>12. CASE GiveUp
  <2>1. stack # <<>> /\ Top.at = "call"
    BY <1>12 DEF GiveUp, Running
  <2>2. blocks' = 2 * (Len(stack) - 1) /\ handles' = Len(stack) - 1
    BY <1>12, <2>1, Owned DEF GiveUp, FreedBoth
  <2> QED
    BY <1>12, <2>1, <2>2, NamesKept, Ends DEF GiveUp, Return
<1>13. CASE UNCHANGED listVars
  BY <1>13 DEF listVars, walkVars, nameVars, ListInv, ListTypeOK, Frame, NestInv, Descent,
               OwnInv, Top, NameInv
<1> QED
  BY <1>1, <1>2, <1>3, <1>4, <1>5, <1>6, <1>7, <1>8, <1>9, <1>10, <1>11, <1>12, <1>13
  DEF ListNext

\* The list's variables keep to their types, however the firmware answers.
THEOREM ListTypeCorrect == ListSpec => []ListTypeOK
<1>1. ListInv => ListTypeOK
  BY DEF ListInv
<1> QED
  BY <1>1, ListInitInv, ListNextInv, PTL DEF ListSpec

\* Whichever call fails wherever, all is freed and closed when the walk is over.
THEOREM WalkLeavesNothing == ListSpec => []NothingLeaks
<1>1. ListInv => NothingLeaks
  BY DEF ListInv, OwnInv, NothingLeaks, Over
<1> QED
  BY <1>1, ListInitInv, ListNextInv, PTL DEF ListSpec

\* On any volume whose directories form a tree, the walk is in each of them
\* once at most, and never further down than the deepest.
THEOREM WalkStaysOnPath == ListSpec => []NeverInsideItself
<1>1. ListInv => NeverInsideItself
  <2> SUFFICES ASSUME ListInv PROVE NeverInsideItself
    OBVIOUS
  <2>1. tree \in Trees /\ stack \in Seq(Frame) /\ Len(stack) \in Nat
    BY LenProperties DEF ListInv, ListTypeOK
  <2>2. PICK depth \in [DOMAIN tree -> 0 .. MaxDepth] : Deeper(tree, depth)
    BY <2>1, TreesAssumption
  <2>3. depth \in Descent
    BY <2>2 DEF Descent
  <2>4. \A i \in 1 .. Len(stack) : depth[stack[i].dir] \in 0 .. MaxDepth
    <3>1. \A i \in 1 .. Len(stack) : stack[i] \in Frame
      BY <2>1, ElementOfSeq
    <3> QED
      BY <2>2, <3>1 DEF Frame
  <2>5. \A i, j \in 1 .. Len(stack) :
          i < j => depth[stack[i].dir] + (j - i) <= depth[stack[j].dir]
    BY <2>3 DEF ListInv, NestInv
  <2>6. ASSUME NEW i \in 1 .. Len(stack), NEW j \in 1 .. Len(stack),
               stack[i].dir = stack[j].dir
        PROVE  i = j
    <3>1. ~(i < j) /\ ~(j < i)
      BY <2>4, <2>5, <2>6
    <3> QED
      BY <2>1, <3>1
  <2>7. Len(stack) <= MaxDepth + 1
    <3>1. CASE Len(stack) > 1
      <4>1. 1 \in 1 .. Len(stack) /\ Len(stack) \in 1 .. Len(stack)
        BY <2>1, <3>1
      <4> QED
        BY <2>1, <2>4, <2>5, <3>1, <4>1, SizesAssumption, SMTT(30)
    <3>2. CASE ~(Len(stack) > 1)
      BY <2>1, <3>2, SizesAssumption
    <3> QED
      BY <3>1, <3>2
  <2> QED
    BY <2>6, <2>7 DEF NeverInsideItself
<1> QED
  BY <1>1, ListInitInv, ListNextInv, PTL DEF ListSpec

\* A string ends with the first character that ends it.
LEMMA ReadBackIs ==
  ASSUME ListTypeOK, NEW i \in Nat, NEW name \in Seq(Chars),
         Row(i) + Len(name) \in Room,
         \A k \in 1 .. Len(name) : rom_collection[Row(i) + k - 1] = name[k],
         rom_collection[Row(i) + Len(name)] = Nul
  PROVE  ReadBack(i) = name
<1> DEFINE from == Row(i)
           ends == {a \in Room : a >= from /\ rom_collection[a] = Nul}
           to == CHOOSE a \in ends : \A b \in ends : a <= b
<1>1. /\ from \in Nat /\ Len(name) \in Nat /\ \A b \in Room : b \in Nat
      /\ \A k \in 1 .. Len(name) : name[k] \in Chars
  BY RowFacts, LenProperties, ElementOfSeq DEF Room
<1>2. from + Len(name) \in ends
  BY <1>1
<1>3. ASSUME NEW b \in ends PROVE from + Len(name) <= b
  <2>1. b \in Nat /\ b >= from /\ rom_collection[b] = Nul
    BY <1>1
  <2>2. ASSUME b < from + Len(name) PROVE FALSE
    <3>1. b - from + 1 \in 1 .. Len(name) /\ from + (b - from + 1) - 1 = b
      BY <1>1, <2>1, <2>2
    <3>2. rom_collection[b] = name[b - from + 1]
      BY <3>1
    <3> QED
      BY <1>1, <2>1, <3>1, <3>2, TreesAssumption
  <2> QED
    BY <1>1, <2>1, <2>2
<1>4. to = from + Len(name)
  <2>1. \E a \in ends : \A b \in ends : a <= b
    BY <1>2, <1>3
  <2>2. to \in ends /\ \A b \in ends : to <= b
    BY <2>1
  <2>3. to \in Nat /\ to <= from + Len(name) /\ from + Len(name) <= to
    BY <1>1, <1>2, <1>3, <2>2
  <2> HIDE DEF to
  <2> QED
    BY <1>1, <2>3
<1>5. ReadBack(i) = [k \in 1 .. to - from |-> rom_collection[from + k - 1]]
  BY DEF ReadBack
<1> HIDE DEF to, from
<1>6. to - from = Len(name)
  BY <1>1, <1>4
<1>7. name = [k \in 1 .. Len(name) |-> name[k]]
  BY LenProperties
<1> QED
  BY <1>5, <1>6, <1>7 DEF from

\* For any names and any number of rows, each listed name for which there is
\* room is read back, unless it is longer than its row and another follows.
THEOREM NamesAreReadBack == ListSpec => []NamesReadBack
<1>1. ListInv => NamesReadBack
  <2> SUFFICES ASSUME ListInv, NEW i \in 1 .. Len(saved),
                      Row(i - 1) + Len(saved[i]) \in Room,
                      Len(saved[i]) < MAX_FILE_NAME_SIZE \/ i = Len(saved)
               PROVE  ReadBack(i - 1) = saved[i]
    BY DEF NamesReadBack
  <2>1. ListTypeOK /\ NameInv
    BY DEF ListInv
  <2>2. i - 1 \in Nat /\ saved[i] \in Seq(Chars)
    BY <2>1, NamesTyped
  <2> QED
    BY <2>1, <2>2, ReadBackIs DEF NameInv
<1> QED
  BY <1>1, ListInitInv, ListNextInv, PTL DEF ListSpec

-----------------------------------------------------------------------------
(* The list of games: the games of a volume.                               *)
(*                                                                         *)
(* Games is a recursive function over the places of the volume.  That      *)
(* there is such a function is shown directory by directory from the       *)
(* deepest up, and in each of them from the last entry back.               *)

NatLess == {ss \in Nat \X Nat : ss[1] < ss[2]}

\* A set of numbers has a smallest one.
LEMMA Smallest ==
  ASSUME NEW S \in SUBSET Nat, S # {}
  PROVE  \E n \in S : \A k \in S : n <= k
<1>1. IsWellFoundedOn(OpToRel(<, Nat), Nat)
  BY NatLessThanWellFounded
<1>2. OpToRel(<, Nat) = NatLess
  BY DEF OpToRel, NatLess
<1>3. PICK n \in S : \A k \in S : ~ (<<k, n>> \in NatLess)
  BY <1>1, <1>2, WFMin
<1>4. \A k \in S : ~ (k < n)
  BY <1>3 DEF NatLess
<1> QED
  BY <1>4

Names == Seq(Seq(Chars))

LEMMA JoinedType ==
  \A r, s \in Names : r \o s \in Names
BY ConcatProperties DEF Names

LEMMA Joined ==
  ASSUME NEW r \in Names, NEW s \in Names, NEW t \in Names
  PROVE  (r \o s) \o t = r \o (s \o t)
<1> DEFINE Strings == Seq(Chars)
<1>1. r \in Seq(Strings) /\ s \in Seq(Strings) /\ t \in Seq(Strings)
  BY DEF Names
<1> HIDE DEF Strings
<1> QED
  BY <1>1, ConcatAssociative

\* The same, for more than three.
Then(r, s) == r \o s

LEMMA ThenFacts ==
  \A r, s, t \in Names : Then(r, s) \in Names /\ Then(Then(r, s), t) = Then(r, Then(s, t))
<1>1. ASSUME NEW r \in Names, NEW s \in Names, NEW t \in Names
      PROVE  Then(Then(r, s), t) = Then(r, Then(s, t))
  BY Joined DEF Then
<1> QED
  BY <1>1, JoinedType DEF Then

Depths(volume) == {depth \in [DOMAIN volume -> 0 .. MaxDepth] : Deeper(volume, depth)}

Onward(place) == <<place[1], place[2] + 1>>

EntryAt(volume, place) == volume[place[1]][place[2]]

\* An entry behind which another directory is listed.
Opens(volume, place) ==
  /\ place[2] <= Len(volume[place[1]])
  /\ EntryAt(volume, place).name \notin {Here, Above}
  /\ EntryAt(volume, place).leads # File

Behind(volume, place) == <<EntryAt(volume, place).leads, 1>>

LEMMA PlaceFacts ==
  ASSUME NEW volume \in Trees, NEW place \in Places(volume)
  PROVE  /\ place[1] \in DOMAIN volume /\ place[2] \in Nat \ {0}
         /\ place = <<place[1], place[2]>>
         /\ Len(volume[place[1]]) \in Nat
         /\ Onward(place) \in Places(volume)
         /\ place[2] <= Len(volume[place[1]]) =>
              EntryAt(volume, place).name \in Seq(Chars)
         /\ Opens(volume, place) =>
              /\ Behind(volume, place) \in Places(volume)
              /\ EntryAt(volume, place).leads \in DOMAIN volume
              /\ \A depth \in Depths(volume) :
                   depth[EntryAt(volume, place).leads] > depth[place[1]]
<1> DEFINE E == [name : Seq(Chars) \ {<<>>}, leads : DOMAIN volume \cup {File}]
<1>1. /\ place[1] \in DOMAIN volume /\ place[2] \in Nat \ {0}
      /\ place = <<place[1], place[2]>>
  BY DEF Places
<1>2. volume[place[1]] \in Seq(E)
  BY <1>1, TreesAssumption
<1>3. Len(volume[place[1]]) \in Nat /\ DOMAIN volume[place[1]] = 1 .. Len(volume[place[1]])
  BY <1>2, LenProperties
<1>4. Onward(place) \in Places(volume)
  BY <1>1 DEF Onward, Places
<1>5. ASSUME place[2] <= Len(volume[place[1]])
      PROVE  EntryAt(volume, place) \in E /\ place[2] \in DOMAIN volume[place[1]]
  <2>1. place[2] \in 1 .. Len(volume[place[1]])
    BY <1>1, <1>3, <1>5
  <2> QED
    BY <1>2, <1>3, <2>1, ElementOfSeq DEF EntryAt
<1>6. ASSUME Opens(volume, place)
      PROVE  /\ Behind(volume, place) \in Places(volume)
             /\ EntryAt(volume, place).leads \in DOMAIN volume
             /\ \A depth \in Depths(volume) :
                  depth[EntryAt(volume, place).leads] > depth[place[1]]
  <2>1. /\ EntryAt(volume, place) \in E /\ place[2] \in DOMAIN volume[place[1]]
        /\ EntryAt(volume, place).leads # File
        /\ EntryAt(volume, place).name \notin {Here, Above}
    BY <1>5, <1>6 DEF Opens
  <2>2. EntryAt(volume, place).leads \in DOMAIN volume
    BY <2>1
  <2> QED
    BY <1>1, <2>1, <2>2 DEF Behind, Places, Depths, Deeper, EntryAt
<1> QED
  BY <1>1, <1>3, <1>4, <1>5, <1>6

\* The games from a place on, by what is there.
LEMMA GamesFromCases ==
  ASSUME NEW volume, NEW after, NEW place
  PROVE  LET own == IF IsGame(EntryAt(volume, place).name)
                    THEN <<EntryAt(volume, place).name>> ELSE <<>>
         IN  /\ place[2] > Len(volume[place[1]]) => GamesFrom(volume, after, place) = <<>>
             /\ ~ (place[2] > Len(volume[place[1]])) =>
                  /\ EntryAt(volume, place).name \in {Here, Above} =>
                       GamesFrom(volume, after, place) = <<>> \o after[Onward(place)]
                  /\ EntryAt(volume, place).name \notin {Here, Above} =>
                       GamesFrom(volume, after, place) =
                         (own \o (IF EntryAt(volume, place).leads = File THEN <<>>
                                  ELSE after[Behind(volume, place)]))
                         \o after[Onward(place)]
BY DEF GamesFrom, EntryAt, Onward, Behind

\* They depend on those from two places after it, at most.
LEMMA GamesFromSame ==
  ASSUME NEW volume \in Trees, NEW place \in Places(volume), NEW f, NEW g,
         place[2] <= Len(volume[place[1]]) => f[Onward(place)] = g[Onward(place)],
         Opens(volume, place) => f[Behind(volume, place)] = g[Behind(volume, place)]
  PROVE  GamesFrom(volume, f, place) = GamesFrom(volume, g, place)
<1>1. Len(volume[place[1]]) \in Nat /\ place[2] \in Nat
  BY PlaceFacts
<1>2. CASE place[2] > Len(volume[place[1]])
  BY <1>2, GamesFromCases
<1>3. CASE ~ (place[2] > Len(volume[place[1]]))
  <2>1. place[2] <= Len(volume[place[1]])
    BY <1>1, <1>3
  <2>2. CASE EntryAt(volume, place).name \in {Here, Above}
    BY <1>3, <2>1, <2>2, GamesFromCases
  <2>3. CASE EntryAt(volume, place).name \notin {Here, Above}
    BY <1>3, <2>1, <2>3, GamesFromCases DEF Opens
  <2> QED
    BY <2>2, <2>3
<1> QED
  BY <1>2, <1>3

LEMMA GamesFromTyped ==
  ASSUME NEW volume \in Trees, NEW place \in Places(volume), NEW f,
         place[2] <= Len(volume[place[1]]) => f[Onward(place)] \in Names,
         Opens(volume, place) => f[Behind(volume, place)] \in Names
  PROVE  GamesFrom(volume, f, place) \in Names
<1> DEFINE name == EntryAt(volume, place).name
           own == IF IsGame(name) THEN <<name>> ELSE <<>>
           inside == IF EntryAt(volume, place).leads = File THEN <<>>
                     ELSE f[Behind(volume, place)]
<1>1. Len(volume[place[1]]) \in Nat /\ place[2] \in Nat
  BY PlaceFacts
<1>2. CASE place[2] > Len(volume[place[1]])
  BY <1>2, GamesFromCases, EmptySeq DEF Names
<1>3. CASE ~ (place[2] > Len(volume[place[1]]))
  <2>1. place[2] <= Len(volume[place[1]])
    BY <1>1, <1>3
  <2>2. <<>> \in Names /\ f[Onward(place)] \in Names
    BY <2>1, EmptySeq DEF Names
  <2>3. CASE name \in {Here, Above}
    <3>1. GamesFrom(volume, f, place) = <<>> \o f[Onward(place)]
      BY <1>3, <2>3, GamesFromCases
    <3> QED
      BY <2>2, <3>1, ConcatProperties DEF Names
  <2>4. CASE name \notin {Here, Above}
    <3>1. GamesFrom(volume, f, place) = (own \o inside) \o f[Onward(place)]
      BY <1>3, <2>4, GamesFromCases
    <3>2. name \in Seq(Chars)
      BY <2>1, PlaceFacts
    <3> HIDE DEF name
    <3>3. own \in Names
      BY <2>2, <3>2 DEF Names
    <3>4. inside \in Names
      BY <2>1, <2>2, <2>4 DEF Opens, name
    <3> HIDE DEF own, inside
    <3>5. own \o inside \in Names
      BY <3>3, <3>4, ConcatProperties DEF Names
    <3> QED
      BY <2>2, <3>1, <3>5, ConcatProperties DEF Names
  <2> QED
    BY <2>3, <2>4
<1> QED
  BY <1>2, <1>3

\* f says what follows from each place of a directory that a call reads.
Says(volume, f, place) == f[place] = GamesFrom(volume, f, place)

\* In one directory, from its last entry back.
LEMMA OneDirectory ==
  ASSUME NEW volume \in Trees, NEW d \in DOMAIN volume,
         NEW f \in [Places(volume) -> Names]
  PROVE  \E g \in [Places(volume) -> Names] :
           \A place \in Places(volume) :
             IF place[1] = d THEN Says(volume, g, place) ELSE g[place] = f[place]
<1> DEFINE n == Len(volume[d])
           Right(g, k) == \A place \in Places(volume) :
                            /\ place[1] # d => g[place] = f[place]
                            /\ place[1] = d /\ place[2] + k > n => Says(volume, g, place)
           Bad == {k \in Nat : ~ \E g \in [Places(volume) -> Names] : Right(g, k)}
<1>0. n \in Nat
  <2>1. <<d, 1>> \in Places(volume)
    BY DEF Places
  <2> QED
    BY <2>1, PlaceFacts
<1>1. PICK depth \in [DOMAIN volume -> 0 .. MaxDepth] : Deeper(volume, depth)
  BY TreesAssumption
<1>2. depth \in Depths(volume) /\ depth[d] \in Nat
  BY <1>1, SizesAssumption DEF Depths
<1> HIDE DEF n
<1>3. \E g \in [Places(volume) -> Names] : Right(g, 0)
  <2> DEFINE g == [place \in Places(volume) |-> IF place[1] = d THEN <<>> ELSE f[place]]
  <2>1. g \in [Places(volume) -> Names]
    BY EmptySeq DEF Names
  <2>2. ASSUME NEW place \in Places(volume), place[1] = d, place[2] + 0 > n
        PROVE  Says(volume, g, place)
    <3>1. place[2] > Len(volume[place[1]])
      BY <1>0, <2>2, PlaceFacts DEF n
    <3>2. GamesFrom(volume, g, place) = <<>>
      BY <3>1, GamesFromCases
    <3> QED
      BY <2>2, <3>2 DEF Says
  <2>3. \A place \in Places(volume) : place[1] # d => g[place] = f[place]
    OBVIOUS
  <2> HIDE DEF g
  <2> QED
    BY <2>1, <2>2, <2>3
<1>4. ASSUME NEW k \in Nat, NEW g \in [Places(volume) -> Names], Right(g, k), k < n
      PROVE  \E h \in [Places(volume) -> Names] : Right(h, k + 1)
  <2> DEFINE last == <<d, n - k>>
             h == [g EXCEPT ![last] = GamesFrom(volume, g, last)]
  <2>1. last \in Places(volume) /\ n - k \in Nat /\ last[1] = d /\ last[2] = n - k
    BY <1>0, <1>4 DEF Places
  <2>2. GamesFrom(volume, g, last) \in Names
    <3>1. /\ Onward(last) \in Places(volume)
          /\ Opens(volume, last) => Behind(volume, last) \in Places(volume)
      BY <2>1, PlaceFacts
    <3> HIDE DEF last
    <3> QED
      BY <2>1, <3>1, GamesFromTyped
  <2>3. h \in [Places(volume) -> Names]
    BY <2>2
  <2>4. \A place \in Places(volume) : place # last => h[place] = g[place]
    OBVIOUS
  <2>5. h[last] = GamesFrom(volume, g, last)
    BY <2>1
  <2> HIDE DEF h
  <2>6. ASSUME NEW place \in Places(volume), place[1] = d, place[2] + (k + 1) > n
        PROVE  Says(volume, h, place)
    <3>1. /\ Onward(place) \in Places(volume) /\ Onward(place) # last
          /\ place = <<d, place[2]>> /\ place[2] \in Nat
      <4>1. /\ Onward(place) \in Places(volume) /\ place = <<d, place[2]>> /\ place[2] \in Nat
        BY <2>6, PlaceFacts
      <4>2. Onward(place)[2] = place[2] + 1 /\ place[2] + 1 # n - k
        BY <1>0, <2>6, <4>1 DEF Onward
      <4> QED
        BY <2>1, <4>1, <4>2
    <3>2. Opens(volume, place) =>
            Behind(volume, place) \in Places(volume) /\ Behind(volume, place) # last
      <4>1. ASSUME Opens(volume, place)
            PROVE  /\ Behind(volume, place) \in Places(volume)
                   /\ EntryAt(volume, place).leads # d
        <5>1. /\ Behind(volume, place) \in Places(volume)
              /\ depth[EntryAt(volume, place).leads] > depth[d]
          BY <1>2, <2>6, <4>1, PlaceFacts
        <5> QED
          BY <1>2, <5>1
      <4> QED
        BY <4>1 DEF Behind
    <3>3. GamesFrom(volume, h, place) = GamesFrom(volume, g, place)
      BY <2>4, <3>1, <3>2, GamesFromSame
    <3>4. CASE place = last
      BY <2>5, <3>3, <3>4 DEF Says
    <3>5. CASE place # last
      <4>1. place[2] + k > n
        BY <1>0, <2>6, <3>1, <3>5
      <4>2. Says(volume, g, place)
        BY <1>4, <2>6, <4>1
      <4> QED
        BY <2>4, <3>3, <3>5, <4>2 DEF Says
    <3> QED
      BY <3>4, <3>5
  <2>7. \A place \in Places(volume) : place[1] # d => h[place] = f[place]
    BY <1>4, <2>4
  <2> QED
    BY <2>3, <2>6, <2>7
<1>5. n \notin Bad
  <2> SUFFICES ASSUME n \in Bad PROVE FALSE
    OBVIOUS
  <2> HIDE DEF Right
  <2>1. PICK k \in Bad : \A j \in Bad : k <= j
    <3>1. Bad \in SUBSET Nat /\ Bad # {}
      OBVIOUS
    <3> HIDE DEF Bad
    <3> QED
      BY <3>1, Smallest
  <2>2. k \in Nat /\ k # 0 /\ k <= n
    BY <1>3, <2>1
  <2>3. k - 1 \in Nat /\ k - 1 < n /\ (k - 1) + 1 = k /\ k - 1 \notin Bad
    BY <1>0, <2>1, <2>2
  <2>4. PICK g \in [Places(volume) -> Names] : Right(g, k - 1)
    BY <2>3
  <2>5. \E h \in [Places(volume) -> Names] : Right(h, (k - 1) + 1)
    BY <1>4, <2>3, <2>4
  <2> QED
    BY <2>1, <2>3, <2>5
<1>6. PICK g \in [Places(volume) -> Names] : Right(g, n)
  BY <1>0, <1>5
<1>7. \A place \in Places(volume) : place[2] + n > n
  BY <1>0, PlaceFacts
<1> QED
  BY <1>6, <1>7

\* In every directory, from the deepest up: the list of games is defined.
LEMMA GamesExist ==
  ASSUME NEW volume \in Trees
  PROVE  \E f \in [Places(volume) -> Names] : \A place \in Places(volume) : Says(volume, f, place)
<1>1. PICK depth \in [DOMAIN volume -> 0 .. MaxDepth] : Deeper(volume, depth)
  BY TreesAssumption
<1>2. depth \in Depths(volume) /\ \A d \in DOMAIN volume : depth[d] \in Nat /\ depth[d] <= MaxDepth
  BY <1>1, SizesAssumption DEF Depths
<1> DEFINE Right(g, k) == \A place \in Places(volume) :
                            depth[place[1]] + k > MaxDepth => Says(volume, g, place)
           Bad == {k \in Nat : ~ \E g \in [Places(volume) -> Names] : Right(g, k)}
<1>0. \A place \in Places(volume) : place[1] \in DOMAIN volume
  BY DEF Places
<1>3. \E g \in [Places(volume) -> Names] : Right(g, 0)
  <2> DEFINE g == [place \in Places(volume) |-> <<>>]
  <2>1. g \in [Places(volume) -> Names]
    BY EmptySeq DEF Names
  <2>2. \A d \in DOMAIN volume : ~ (depth[d] + 0 > MaxDepth)
    BY <1>2, SizesAssumption
  <2> HIDE DEF g
  <2> QED
    BY <1>0, <2>1, <2>2
<1>4. ASSUME NEW k \in Nat, NEW f \in [Places(volume) -> Names], Right(f, k)
      PROVE  \E h \in [Places(volume) -> Names] : Right(h, k + 1)
  <2> DEFINE Fits(d, g) == \A place \in Places(volume) :
                             IF place[1] = d THEN Says(volume, g, place)
                                             ELSE g[place] = f[place]
             G == [d \in DOMAIN volume |->
                     CHOOSE g \in [Places(volume) -> Names] : Fits(d, g)]
             h == [place \in Places(volume) |->
                     IF depth[place[1]] + k = MaxDepth THEN G[place[1]][place] ELSE f[place]]
  <2>1. ASSUME NEW d \in DOMAIN volume
        PROVE  G[d] \in [Places(volume) -> Names] /\ Fits(d, G[d])
    <3>1. \E g \in [Places(volume) -> Names] : Fits(d, g)
      BY OneDirectory
    <3>2. G[d] = CHOOSE g \in [Places(volume) -> Names] : Fits(d, g)
      OBVIOUS
    <3> HIDE DEF Fits, G
    <3> QED
      BY <3>1, <3>2
  <2> HIDE DEF G
  <2>2. h \in [Places(volume) -> Names]
    BY <1>0, <2>1
  <2>3. \A place \in Places(volume) :
          h[place] = IF depth[place[1]] + k = MaxDepth THEN G[place[1]][place] ELSE f[place]
    OBVIOUS
  <2> HIDE DEF h
  <2>4. ASSUME NEW place \in Places(volume), depth[place[1]] + (k + 1) > MaxDepth
        PROVE  Says(volume, h, place)
    <3> DEFINE d == place[1]
               e == EntryAt(volume, place).leads
    <3>1. /\ d \in DOMAIN volume
          /\ Onward(place) \in Places(volume) /\ Onward(place)[1] = d
          /\ Opens(volume, place) =>
               /\ Behind(volume, place) \in Places(volume) /\ Behind(volume, place)[1] = e
               /\ e \in DOMAIN volume /\ depth[e] > depth[d]
      BY <1>2, PlaceFacts DEF Onward, Behind
    <3> HIDE DEF d, e
    <3>2. /\ depth[d] \in Nat /\ MaxDepth \in Nat
          /\ Opens(volume, place) => depth[e] \in Nat
      BY <1>2, <3>1, SizesAssumption
    <3>3. CASE depth[d] + k > MaxDepth
      <4>1. /\ h[place] = f[place] /\ h[Onward(place)] = f[Onward(place)]
        BY <2>3, <3>1, <3>2, <3>3 DEF d
      <4>2. Opens(volume, place) => h[Behind(volume, place)] = f[Behind(volume, place)]
        <5>1. Opens(volume, place) => ~ (depth[e] + k = MaxDepth)
          BY <3>1, <3>2, <3>3
        <5> QED
          BY <2>3, <3>1, <5>1
      <4>3. Says(volume, f, place)
        BY <1>4, <3>3 DEF d
      <4>4. GamesFrom(volume, h, place) = GamesFrom(volume, f, place)
        BY <4>1, <4>2, GamesFromSame
      <4> QED
        BY <4>1, <4>3, <4>4 DEF Says
    <3>4. CASE ~ (depth[d] + k > MaxDepth)
      <4>0. depth[d] + k = MaxDepth
        BY <2>4, <3>2, <3>4 DEF d
      <4>1. /\ h[place] = G[d][place] /\ h[Onward(place)] = G[d][Onward(place)]
        BY <2>3, <3>1, <4>0 DEF d
      <4>2. Opens(volume, place) => h[Behind(volume, place)] = G[d][Behind(volume, place)]
        <5>1. Opens(volume, place) => ~ (depth[e] + k = MaxDepth) /\ e # d
          BY <3>1, <3>2, <4>0
        <5>2. Opens(volume, place) => h[Behind(volume, place)] = f[Behind(volume, place)]
          BY <2>3, <3>1, <5>1
        <5>3. Opens(volume, place) => G[d][Behind(volume, place)] = f[Behind(volume, place)]
          BY <2>1, <3>1, <5>1
        <5> QED
          BY <5>2, <5>3
      <4>3. Says(volume, G[d], place)
        BY <2>1, <3>1 DEF d
      <4>4. GamesFrom(volume, h, place) = GamesFrom(volume, G[d], place)
        BY <4>1, <4>2, GamesFromSame
      <4> QED
        BY <4>1, <4>3, <4>4 DEF Says
    <3> QED
      BY <3>3, <3>4
  <2> QED
    BY <2>2, <2>4
<1>5. MaxDepth + 1 \notin Bad
  <2> SUFFICES ASSUME MaxDepth + 1 \in Bad PROVE FALSE
    OBVIOUS
  <2> HIDE DEF Right
  <2>1. PICK k \in Bad : \A j \in Bad : k <= j
    <3>1. Bad \in SUBSET Nat /\ Bad # {}
      OBVIOUS
    <3> HIDE DEF Bad
    <3> QED
      BY <3>1, Smallest
  <2>2. k \in Nat /\ k # 0
    BY <1>3, <2>1
  <2>3. k - 1 \in Nat /\ (k - 1) + 1 = k /\ k - 1 \notin Bad
    BY <2>1, <2>2
  <2>4. PICK g \in [Places(volume) -> Names] : Right(g, k - 1)
    BY <2>3
  <2>5. \E h \in [Places(volume) -> Names] : Right(h, (k - 1) + 1)
    BY <1>4, <2>3, <2>4
  <2> QED
    BY <2>1, <2>3, <2>5
<1>6. PICK g \in [Places(volume) -> Names] : Right(g, MaxDepth + 1)
  BY <1>5, SizesAssumption
<1>7. \A place \in Places(volume) : depth[place[1]] + (MaxDepth + 1) > MaxDepth
  BY <1>0, <1>2, SizesAssumption
<1> QED
  BY <1>6, <1>7

\* Whatever says what follows from each place says it in names.
LEMMA GamesTyped ==
  ASSUME NEW volume \in Trees, NEW f,
         \A place \in Places(volume) : Says(volume, f, place)
  PROVE  \A place \in Places(volume) : f[place] \in Names
<1> SUFFICES ASSUME NEW wrong \in Places(volume), f[wrong] \notin Names
             PROVE  FALSE
  OBVIOUS
<1>1. PICK depth \in [DOMAIN volume -> 0 .. MaxDepth] : Deeper(volume, depth)
  BY TreesAssumption
<1>2. depth \in Depths(volume) /\ \A d \in DOMAIN volume : depth[d] \in Nat /\ depth[d] <= MaxDepth
  BY <1>1, SizesAssumption DEF Depths
<1>0. \A place \in Places(volume) : place[1] \in DOMAIN volume
  BY DEF Places
<1> DEFINE Wrong == {place \in Places(volume) : f[place] \notin Names}
\* A wrong place in one of the deepest directories that have any ...
<1>3. PICK p \in Wrong : \A q \in Wrong : depth[q[1]] <= depth[p[1]]
  <2> DEFINE S == {MaxDepth - depth[q[1]] : q \in Wrong}
  <2>1. S \in SUBSET Nat
    BY <1>0, <1>2, SizesAssumption
  <2>2. MaxDepth - depth[wrong[1]] \in S
    OBVIOUS
  <2>3. PICK x \in S : \A y \in S : x <= y
    <3> HIDE DEF S
    <3> QED
      BY <2>1, <2>2, Smallest
  <2>4. PICK p \in Wrong : x = MaxDepth - depth[p[1]]
    OBVIOUS
  <2>5. ASSUME NEW q \in Wrong PROVE depth[q[1]] <= depth[p[1]]
    <3>1. MaxDepth - depth[p[1]] <= MaxDepth - depth[q[1]]
      BY <2>3, <2>4
    <3> QED
      BY <1>0, <1>2, <3>1, SizesAssumption
  <2> QED
    BY <2>5
<1> DEFINE d == p[1]
           n == Len(volume[d])
\* ... and the last of those in it.
<1>4. n \in Nat /\ d \in DOMAIN volume
  BY PlaceFacts
<1>5. ASSUME NEW q \in Wrong PROVE q[2] \in Nat /\ (q[1] = d => q[2] <= n)
  <2>1. q[2] \in Nat
    BY PlaceFacts
  <2>2. ASSUME q[1] = d, ~ (q[2] <= n) PROVE FALSE
    <3>1. q[2] > Len(volume[q[1]])
      BY <1>4, <2>1, <2>2
    <3>2. f[q] = <<>>
      BY <3>1, GamesFromCases DEF Says
    <3> QED
      BY <3>2, EmptySeq DEF Names
  <2> QED
    BY <2>1, <2>2
<1> HIDE DEF n
<1>6. PICK r \in Wrong : r[1] = d /\ \A q \in Wrong : q[1] = d => q[2] <= r[2]
  <2> DEFINE T == {q \in Wrong : q[1] = d}
             S == {n - q[2] : q \in T}
  <2>1. S \in SUBSET Nat
    BY <1>4, <1>5
  <2>2. n - p[2] \in S
    OBVIOUS
  <2>3. PICK x \in S : \A y \in S : x <= y
    <3> HIDE DEF S
    <3> QED
      BY <2>1, <2>2, Smallest
  <2>4. PICK r \in T : x = n - r[2]
    OBVIOUS
  <2>5. ASSUME NEW q \in Wrong, q[1] = d PROVE q[2] <= r[2]
    <3>1. n - r[2] <= n - q[2]
      BY <2>3, <2>4, <2>5
    <3> QED
      BY <1>4, <1>5, <3>1
  <2> QED
    BY <2>5
<1>7. Onward(r) \notin Wrong
  BY <1>5, <1>6 DEF Onward
<1>8. Opens(volume, r) => Behind(volume, r) \notin Wrong
  <2>1. Opens(volume, r) => /\ Behind(volume, r)[1] = EntryAt(volume, r).leads
                            /\ EntryAt(volume, r).leads \in DOMAIN volume
                            /\ depth[EntryAt(volume, r).leads] > depth[d]
    BY <1>2, <1>6, PlaceFacts DEF Behind
  <2> QED
    BY <1>2, <1>3, <1>4, <2>1
<1>9. GamesFrom(volume, f, r) \in Names
  BY <1>7, <1>8, PlaceFacts, GamesFromTyped
<1> QED
  BY <1>6, <1>9 DEF Says

\* The list of games is what its definition says.
LEMMA GamesDefined ==
  ASSUME NEW volume \in Trees, NEW place \in Places(volume)
  PROVE  /\ Games(volume)[place] = GamesFrom(volume, Games(volume), place)
         /\ Games(volume)[place] \in Names
<1> DEFINE Solves(f) == f = [p \in Places(volume) |-> GamesFrom(volume, f, p)]
<1>1. \E f : Solves(f)
  <2>1. PICK f \in [Places(volume) -> Names] : \A p \in Places(volume) : Says(volume, f, p)
    BY GamesExist
  <2>2. Solves(f)
    BY <2>1 DEF Says
  <2> QED
    BY <2>2
<1>2. Games(volume) = CHOOSE f : Solves(f)
  BY DEF Games
<1>3. Solves(Games(volume))
  <2> HIDE DEF Solves
  <2> QED
    BY <1>1, <1>2
<1>4. \A p \in Places(volume) : Says(volume, Games(volume), p)
  <2> DEFINE f == Games(volume)
  <2>1. f = [p \in Places(volume) |-> GamesFrom(volume, f, p)]
    BY <1>3
  <2> HIDE DEF f
  <2>2. \A p \in Places(volume) : f[p] = GamesFrom(volume, f, p)
    BY <2>1
  <2> QED
    BY <2>2 DEF Says, f
<1> QED
  BY <1>4, GamesTyped DEF Says

-----------------------------------------------------------------------------
(* What is listed.                                                         *)

\* strstr_16 finds a part where it is.
LEMMA WantedIsGame ==
  ASSUME NEW name \in Seq(Chars)
  PROVE  Wanted(name) <=> IsGame(name)
<1>0. Len(name) \in Nat /\ \A i \in 1 .. Len(name) : name[i] \in Chars
  BY LenProperties, ElementOfSeq
<1>1. ASSUME NEW part \in Parts
      PROVE  part \in Seq(Chars) /\ Len(part) \in Nat
  BY TreesAssumption, LenProperties
<1>2. ASSUME NEW part \in Parts, NEW i \in Len(part) .. Len(name)
      PROVE  part = SubSeq(name, i - Len(part) + 1, i) <=>
             \A j \in 1 .. Len(part) : name[(i - Len(part)) + j] = part[j]
  <2> DEFINE n == Len(part)
             k == i - n
             piece == SubSeq(name, k + 1, i)
  <2>1. n \in Nat /\ i \in Nat /\ k \in Nat /\ k + n = i /\ i <= Len(name)
    BY <1>0, <1>1
  <2>2. /\ piece \in Seq(Chars) /\ Len(piece) = IF k + 1 <= i THEN i - (k + 1) + 1 ELSE 0
        /\ \A j \in 1 .. i - (k + 1) + 1 : piece[j] = name[(k + 1) + j - 1]
    <3> HIDE DEF k
    <3>1. k + 1 \in Int /\ i \in Int /\ \A j \in k + 1 .. i : name[j] \in Chars
      BY <1>0, <2>1
    <3> QED
      BY <3>1, SubSeqProperties
  <2> HIDE DEF n, k, piece
  <2>3. Len(piece) = n /\ \A j \in 1 .. n : piece[j] = name[k + j]
    <3>1. i - (k + 1) + 1 = n /\ (IF k + 1 <= i THEN i - (k + 1) + 1 ELSE 0) = n
      BY <2>1
    <3>2. \A j \in 1 .. n : (k + 1) + j - 1 = k + j
      BY <2>1
    <3> QED
      BY <2>2, <3>1, <3>2
  <2>4. part \in Seq(Chars) /\ Len(part) = n
    BY <1>1 DEF n
  <2>5. part = piece <=> \A j \in 1 .. n : name[k + j] = part[j]
    BY <2>2, <2>3, <2>4, SeqEqual
  <2> QED
    BY <2>5 DEF n, k, piece
<1>3. ASSUME Wanted(name) PROVE IsGame(name)
  <2>0. PICK part \in Parts : HasPart(name, part)
    BY <1>3 DEF Wanted
  <2>1. PICK i \in Len(part) .. Len(name) : part = SubSeq(name, i - Len(part) + 1, i)
    BY <2>0 DEF HasPart
  <2>2. \A j \in 1 .. Len(part) : name[(i - Len(part)) + j] = part[j]
    BY <1>2, <2>1
  <2>3. /\ i - Len(part) \in 0 .. Len(name)
        /\ \A j \in 1 .. Len(part) : (i - Len(part)) + j <= Len(name)
    BY <1>0, <1>1
  <2> QED
    BY <2>2, <2>3 DEF IsGame
<1>4. ASSUME IsGame(name) PROVE Wanted(name)
  <2>1. PICK part \in Parts, k \in 0 .. Len(name) :
          \A j \in 1 .. Len(part) : k + j <= Len(name) /\ name[k + j] = part[j]
    BY <1>4 DEF IsGame
  <2> DEFINE n == Len(part)
             i == k + n
  <2>2. n \in Nat
    BY <1>1
  <2>3. i \in n .. Len(name) /\ i - n = k
    <3>1. CASE n = 0
      BY <1>0, <3>1
    <3>2. CASE n # 0
      <4>1. n \in 1 .. n
        BY <2>2, <3>2
      <4> QED
        BY <1>0, <2>1, <2>2, <4>1
    <3> QED
      BY <3>1, <3>2
  <2> HIDE DEF i
  <2>4. part = SubSeq(name, i - n + 1, i)
    BY <1>2, <2>1, <2>3
  <2> QED
    BY <2>3, <2>4 DEF Wanted, HasPart
<1> QED
  BY <1>3, <1>4

Own(name) == IF Wanted(name) THEN <<name>> ELSE <<>>

LEMMA SavesOwn ==
  ASSUME ListTypeOK, NEW name \in Seq(Chars), SaveRomInfo(name)
  PROVE  Own(name) \in Names /\ saved' = saved \o Own(name)
<1>1. saved \in Seq(Seq(Chars))
  BY DEF ListTypeOK
<1>2. Own(name) \in Names
  BY EmptySeq DEF Own, Names
<1>3. CASE Wanted(name)
  <2>1. saved' = Append(saved, name)
    BY <1>3 DEF SaveRomInfo
  <2> QED
    BY <1>1, <1>2, <1>3, <2>1, AppendIsConcat DEF Own
<1>4. CASE ~Wanted(name)
  <2>1. saved' = saved
    BY <1>4 DEF SaveRomInfo, nameVars
  <2> QED
    BY <1>1, <1>2, <1>4, <2>1, ConcatEmptySeq DEF Own
<1> QED
  BY <1>2, <1>3, <1>4

\* Where a call of the walk is.
At(frame) == <<frame.dir, frame.read + 1>>

\* What the calls have still to list, the running one first: todo holds it for
\* each call with those that wait for it.
Planned(volume, calls, rest) ==
  \E todo \in [0 .. Len(calls) -> Names] :
    /\ todo[0] = <<>> /\ todo[Len(calls)] = rest
    /\ \A k \in 1 .. Len(calls) : todo[k] = Games(volume)[At(calls[k])] \o todo[k - 1]

\* What is listed, and what the calls have still to list, are all the games.  A
\* call that has failed leaves no other running.
WalkInv ==
  /\ rc = "failed" => stack = <<>> \/ Top.at = "call"
  /\ \E rest \in Names : /\ saved \o rest = AllGames
                         /\ rc = "success" => Planned(tree, stack, rest)

LEMMA PlanEmpty ==
  ASSUME NEW volume, NEW rest, Planned(volume, <<>>, rest)
  PROVE  rest = <<>>
BY DEF Planned

LEMMA PlanMore ==
  ASSUME NEW volume, NEW S, NEW calls \in Seq(S), NEW frame \in S,
         NEW rest \in Names, Planned(volume, calls, rest),
         Games(volume)[At(frame)] \in Names
  PROVE  /\ Planned(volume, calls \o <<frame>>, Games(volume)[At(frame)] \o rest)
         /\ Games(volume)[At(frame)] \o rest \in Names
<1> DEFINE n == Len(calls)
           more == calls \o <<frame>>
           all == Games(volume)[At(frame)] \o rest
<1>1. /\ n \in Nat /\ Len(more) = n + 1 /\ more[n + 1] = frame
      /\ \A k \in 1 .. n : more[k] = calls[k]
  BY OneMore, LenProperties
<1>2. PICK todo \in [0 .. n -> Names] :
        /\ todo[0] = <<>> /\ todo[n] = rest
        /\ \A k \in 1 .. n : todo[k] = Games(volume)[At(calls[k])] \o todo[k - 1]
  BY DEF Planned
<1>3. all \in Names
  BY ConcatProperties DEF Names
<1> HIDE DEF n, more, all
<1> DEFINE plan == [k \in 0 .. n + 1 |-> IF k = n + 1 THEN all ELSE todo[k]]
<1>4. plan \in [0 .. n + 1 -> Names]
  <2>1. \A k \in 0 .. n + 1 : k = n + 1 \/ k \in 0 .. n
    BY <1>1
  <2> QED
    BY <1>2, <1>3, <2>1
<1>5. /\ \A k \in 0 .. n : plan[k] = todo[k]
      /\ plan[n + 1] = all
  BY <1>1
<1> HIDE DEF plan
<1>6. ASSUME NEW k \in 1 .. n + 1
      PROVE  plan[k] = Games(volume)[At(more[k])] \o plan[k - 1]
  <2>1. CASE k = n + 1
    <3>1. k - 1 = n /\ n \in 0 .. n
      BY <1>1, <2>1
    <3> QED
      BY <1>1, <1>2, <1>5, <2>1, <3>1 DEF all
  <2>2. CASE k # n + 1
    <3>1. k \in 1 .. n /\ k \in 0 .. n /\ k - 1 \in 0 .. n
      BY <1>1, <2>2
    <3> QED
      BY <1>1, <1>2, <1>5, <3>1
  <2> QED
    BY <2>1, <2>2
<1>7. plan[0] = <<>>
  BY <1>1, <1>2, <1>5
<1>8. Planned(volume, more, all)
  BY <1>1, <1>4, <1>5, <1>6, <1>7 DEF Planned
<1> QED
  BY <1>3, <1>8 DEF more, all

\* The same with frame for the call that runs.
PlannedFrom(volume, calls, frame, all) ==
  \E rest \in Names : Planned(volume, calls, rest) /\ all = Games(volume)[At(frame)] \o rest

LEMMA PlanLess ==
  ASSUME NEW volume, NEW S, NEW calls \in Seq(S), NEW frame \in S,
         NEW more, more = calls \o <<frame>>,
         NEW all, Planned(volume, more, all)
  PROVE  PlannedFrom(volume, calls, frame, all)
<1> DEFINE n == Len(calls)
<1>1. /\ n \in Nat /\ Len(more) = n + 1 /\ more[n + 1] = frame
      /\ \A k \in 1 .. n : more[k] = calls[k]
  BY OneMore, LenProperties
<1>2. PICK plan \in [0 .. n + 1 -> Names] :
        /\ plan[0] = <<>> /\ plan[n + 1] = all
        /\ \A k \in 1 .. n + 1 : plan[k] = Games(volume)[At(more[k])] \o plan[k - 1]
  BY <1>1 DEF Planned
<1> HIDE DEF n
<1> DEFINE todo == [k \in 0 .. n |-> plan[k]]
<1>3. todo \in [0 .. n -> Names] /\ \A k \in 0 .. n : todo[k] = plan[k]
  BY <1>1
<1> HIDE DEF todo
<1>4. todo[0] = <<>> /\ todo[n] \in Names /\ todo[n] = plan[n]
  BY <1>1, <1>2, <1>3
<1>5. ASSUME NEW k \in 1 .. n
      PROVE  todo[k] = Games(volume)[At(calls[k])] \o todo[k - 1]
  <2>1. k \in 1 .. n + 1 /\ k \in 0 .. n /\ k - 1 \in 0 .. n
    BY <1>1
  <2> QED
    BY <1>1, <1>2, <1>3, <2>1
<1>6. Planned(volume, calls, todo[n])
  BY <1>3, <1>4, <1>5 DEF Planned, n
<1>7. all = Games(volume)[At(frame)] \o todo[n]
  <2>1. n + 1 \in 1 .. n + 1 /\ (n + 1) - 1 = n
    BY <1>1
  <2> QED
    BY <1>1, <1>2, <1>4, <2>1
<1> QED
  BY <1>4, <1>6, <1>7 DEF PlannedFrom

\* A place of the running call's directory, and the games from it on.
LEMMA HereFacts ==
  ASSUME ListTypeOK, NEW frame \in Frame
  PROVE  At(frame) \in Places(tree) /\ Games(tree)[At(frame)] \in Names
<1>1. tree \in Trees /\ frame.dir \in DOMAIN tree /\ frame.read + 1 \in Nat \ {0}
  BY DEF ListTypeOK, Frame
<1>2. At(frame) \in Places(tree)
  BY <1>1 DEF At, Places
<1> QED
  BY <1>1, <1>2, GamesDefined

\* The stack is the running call on those below it.
LEMMA StackSplit ==
  ASSUME ListTypeOK, stack # <<>>
  PROVE  Below \in Seq(Frame) /\ Top \in Frame /\ stack = Below \o <<Top>>
<1>1. /\ stack \in Seq(Frame) /\ Len(stack) \in Nat \ {0} /\ Top \in Frame
      /\ Below \in Seq(Frame) /\ Len(Below) = Len(stack) - 1
      /\ \A k \in 1 .. Len(stack) - 1 : Below[k] = stack[k]
  BY TopFacts, BelowFacts DEF ListTypeOK
<1> DEFINE other == Below \o <<Top>>
<1>2. /\ other \in Seq(Frame) /\ Len(other) = Len(stack)
      /\ \A k \in 1 .. Len(stack) - 1 : other[k] = stack[k]
      /\ other[Len(stack)] = Top
  BY <1>1, OneMore
<1> HIDE DEF other
<1>3. \A k \in 1 .. Len(stack) : stack[k] = other[k]
  BY <1>1, <1>2 DEF Top
<1>4. stack = other
  BY <1>1, <1>2, <1>3, SeqEqual
<1> QED
  BY <1>1, <1>4 DEF other

\* What the entry that is read adds to the games.
LEMMA EntryGames ==
  ASSUME ListTypeOK, ReadsEntry
  PROVE  LET games == Games(tree)
             next == <<Top.dir, (Top.read + 1) + 1>>
         IN  /\ next \in Places(tree) /\ games[next] \in Names
             /\ IsDots(Entry.name) => games[At(Top)] = games[next]
             /\ ~IsDots(Entry.name) =>
                  /\ Entry.name \in Seq(Chars) /\ Own(Entry.name) \in Names
                  /\ Entry.leads = File =>
                       games[At(Top)] = Own(Entry.name) \o games[next]
                  /\ Entry.leads # File =>
                       /\ games[<<Entry.leads, 1>>] \in Names
                       /\ games[At(Top)] = (Own(Entry.name) \o games[<<Entry.leads, 1>>])
                                           \o games[next]
<1> DEFINE games == Games(tree)
           place == At(Top)
           next == <<Top.dir, (Top.read + 1) + 1>>
<1>1. /\ stack # <<>> /\ Top \in Frame /\ Top.read \in Nat /\ Top.read < Len(Entries)
  BY TopFacts DEF ReadsEntry, Running
<1>2. tree \in Trees /\ place \in Places(tree)
  BY <1>1, HereFacts DEF ListTypeOK
<1>3. /\ place[1] = Top.dir /\ place[2] = Top.read + 1
      /\ Entry = EntryAt(tree, place) /\ Onward(place) = next
  BY DEF At, Entry, Entries, EntryAt, Onward
<1>4. Len(tree[place[1]]) \in Nat /\ place[2] <= Len(tree[place[1]])
      /\ ~ (place[2] > Len(tree[place[1]]))
  <2>1. Len(tree[place[1]]) \in Nat
    BY <1>2, PlaceFacts
  <2>2. Len(Entries) = Len(tree[place[1]])
    BY <1>3 DEF Entries
  <2> QED
    BY <1>1, <1>3, <2>1, <2>2
<1>5. /\ next \in Places(tree) /\ games[next] \in Names
      /\ Entry.name \in Seq(Chars)
      /\ games[place] = GamesFrom(tree, games, place)
  BY <1>2, <1>3, <1>4, PlaceFacts, GamesDefined
<1>6. Own(Entry.name) \in Names
      /\ Own(Entry.name) = IF IsGame(Entry.name) THEN <<Entry.name>> ELSE <<>>
  BY <1>5, WantedIsGame, EmptySeq DEF Own, Names
<1> HIDE DEF place, next
<1>7. ASSUME IsDots(Entry.name) PROVE games[place] = games[next]
  <2>1. games[place] = <<>> \o games[next]
    BY <1>3, <1>4, <1>5, <1>7, GamesFromCases DEF IsDots
  <2> QED
    BY <1>5, <2>1, ConcatEmptySeq DEF Names
<1>8. ASSUME ~IsDots(Entry.name), Entry.leads = File
      PROVE  games[place] = Own(Entry.name) \o games[next]
  <2>1. games[place] = (Own(Entry.name) \o <<>>) \o games[next]
    BY <1>3, <1>4, <1>5, <1>6, <1>8, GamesFromCases DEF IsDots
  <2>2. Own(Entry.name) \o <<>> = Own(Entry.name)
    BY <1>6, ConcatEmptySeq DEF Names
  <2> QED
    BY <2>1, <2>2
<1>9. ASSUME ~IsDots(Entry.name), Entry.leads # File
      PROVE  /\ games[<<Entry.leads, 1>>] \in Names
             /\ games[place] = (Own(Entry.name) \o games[<<Entry.leads, 1>>]) \o games[next]
  <2>1. Opens(tree, place) /\ Behind(tree, place) = <<Entry.leads, 1>>
    BY <1>3, <1>4, <1>9 DEF Opens, Behind, IsDots
  <2>2. games[<<Entry.leads, 1>>] \in Names
    BY <1>2, <2>1, PlaceFacts, GamesDefined
  <2>3. games[place] = (Own(Entry.name) \o games[Behind(tree, place)]) \o games[next]
    BY <1>3, <1>4, <1>5, <1>6, <1>9, GamesFromCases DEF IsDots
  <2> QED
    BY <2>1, <2>2, <2>3
<1> QED
  BY <1>5, <1>6, <1>7, <1>8, <1>9 DEF place, next

\* What a step has to show: the games that were still to be listed are those that
\* it lists and those that are now.
LEMMA ListsSome ==
  ASSUME ListTypeOK, NEW rest \in Names, saved \o rest = AllGames, UNCHANGED tree,
         NEW own \in Names, NEW more \in Names, rest = own \o more,
         saved' = saved \o own,
         rc' = "failed" => stack' = <<>> \/ Top'.at = "call",
         rc' = "success" => Planned(tree, stack', more)
  PROVE  WalkInv'
<1>1. saved \in Names /\ AllGames' = AllGames
  BY DEF ListTypeOK, Names, AllGames
<1>2. saved' \o more = AllGames
  BY <1>1, Joined
<1> QED
  BY <1>1, <1>2 DEF WalkInv

\* A step that lists nothing, with the same still to be listed.
LEMMA ListsNone ==
  ASSUME ListTypeOK, NEW rest \in Names, saved \o rest = AllGames,
         UNCHANGED <<tree, saved>>,
         rc' = "failed" => stack' = <<>> \/ Top'.at = "call",
         rc' = "success" => Planned(tree, stack', rest)
  PROVE  WalkInv'
BY DEF WalkInv, AllGames

LEMMA ListInitWalk == ListInit => WalkInv
<1> SUFFICES ASSUME ListInit PROVE WalkInv
  OBVIOUS
<1> DEFINE f == [dir |-> Root, read |-> 0, at |-> "start"]
<1>1. ListTypeOK /\ stack = <<f>> /\ saved = <<>> /\ rc = "success"
  BY ListInitInv DEF ListInv, ListInit
<1>2. f \in Frame /\ At(f) = <<Root, 1>>
  BY <1>1, TreesAssumption DEF ListTypeOK, Frame, At
<1>3. AllGames = Games(tree)[At(f)] /\ AllGames \in Names
  BY <1>1, <1>2, HereFacts DEF AllGames
<1>4. Planned(tree, <<>>, <<>>) /\ <<>> \in Names
  <2> DEFINE todo == [k \in 0 .. 0 |-> <<>>]
  <2>1. <<>> \in Names /\ <<>> \in Seq(Frame) /\ Len(<<>>) = 0
    BY EmptySeq DEF Names
  <2>2. todo \in [0 .. 0 -> Names] /\ todo[0] = <<>>
    BY <2>1
  <2> HIDE DEF todo
  <2>3. \A k \in 1 .. 0 : FALSE
    OBVIOUS
  <2> QED
    BY <2>1, <2>2, <2>3 DEF Planned
<1> HIDE DEF f
<1>5. Planned(tree, <<>> \o <<f>>, Games(tree)[At(f)] \o <<>>)
  <2>1. <<>> \in Seq(Frame)
    BY EmptySeq
  <2> QED
    BY <1>2, <1>3, <1>4, <2>1, PlanMore
<1>6. <<>> \o <<f>> = <<f>> /\ Games(tree)[At(f)] \o <<>> = AllGames /\ saved \o AllGames = AllGames
  <2>1. <<f>> \in Seq(Frame)
    BY <1>2
  <2> QED
    BY <1>1, <1>3, <2>1, ConcatEmptySeq DEF Names
<1> QED
  BY <1>1, <1>3, <1>5, <1>6 DEF WalkInv

LEMMA ListNextWalk == ListInv /\ WalkInv /\ [ListNext]_listVars => WalkInv'
<1> SUFFICES ASSUME ListInv, WalkInv, [ListNext]_listVars PROVE WalkInv'
  OBVIOUS
<1>0. ListTypeOK /\ NestInv /\ rc \in {"success", "failed"} /\ saved \in Names
  BY DEF ListInv, ListTypeOK, Names
<1>1. PICK rest \in Names : /\ saved \o rest = AllGames
                            /\ rc = "success" => Planned(tree, stack, rest)
  BY DEF WalkInv
<1>2. \A at : Running(at) => stack # <<>> /\ Top.at = at
  BY DEF Running
\* A call that runs has something to list, and so have those below it.
<1>3. ASSUME stack # <<>>, rc = "success"
      PROVE  /\ Below \in Seq(Frame) /\ Top \in Frame
             /\ \E below \in Names : /\ Planned(tree, Below, below)
                                     /\ rest = Games(tree)[At(Top)] \o below
  <2>1. Below \in Seq(Frame) /\ Top \in Frame /\ stack = Below \o <<Top>>
    BY <1>0, <1>3, StackSplit
  <2>2. Planned(tree, stack, rest)
    BY <1>1, <1>3
  <2>3. PlannedFrom(tree, Below, Top, rest)
    BY <2>1, <2>2, PlanLess
  <2> QED
    BY <2>1, <2>3 DEF PlannedFrom
<1>4. \A at \in {"start", "loop"} : Running(at) => rc = "success"
  BY <1>0, <1>2 DEF WalkInv
\* The running call is over, having listed nothing of its own.
<1>5. ASSUME stack # <<>>, UNCHANGED <<tree, saved>>, stack' = Below, rc' = "failed"
      PROVE  WalkInv'
  <2>1. stack' # <<>> => Top'.at = "call"
    BY <1>0, <1>5, TopPopped
  <2> QED
    BY <1>0, <1>1, <1>5, <2>1, ListsNone
\* It goes on where it is.
<1>6. ASSUME stack # <<>>, rc = "success", UNCHANGED <<tree, saved, rc>>,
             NEW f \in Frame, At(f) = At(Top), stack' = Below \o <<f>>
      PROVE  WalkInv'
  <2>1. PICK below \in Names : /\ Planned(tree, Below, below)
                               /\ rest = Games(tree)[At(Top)] \o below
    BY <1>3, <1>6
  <2>2. Planned(tree, stack', rest)
    BY <1>0, <1>3, <1>6, <2>1, HereFacts, PlanMore
  <2> QED
    BY <1>0, <1>1, <1>6, <2>2, ListsNone
<1>7. CASE Start
  <2> DEFINE f == [Top EXCEPT !.at = "loop"]
  <2>1. stack # <<>> /\ rc = "success" /\ Top \in Frame
    BY <1>0, <1>2, <1>4, <1>7, TopFacts DEF Start
  <2>2. f \in Frame /\ At(f) = At(Top)
    BY <2>1 DEF Frame, At
  <2> QED
    BY <1>6, <1>7, <2>1, <2>2 DEF Start, nameVars
<1>8. CASE NoMemory
  BY <1>2, <1>5, <1>8 DEF NoMemory, Return, nameVars
<1>9. CASE ReadFails
  BY <1>2, <1>5, <1>9 DEF ReadFails, Return, nameVars
<1>10. CASE ReadsEnd
  <2>1. stack # <<>> /\ rc = "success" /\ Top.read = Len(Entries)
    BY <1>2, <1>4, <1>10 DEF ReadsEnd
  <2>2. PICK below \in Names : /\ Planned(tree, Below, below)
                               /\ rest = Games(tree)[At(Top)] \o below
    BY <1>3, <2>1
  <2>3. Games(tree)[At(Top)] = <<>>
    <3>1. tree \in Trees /\ At(Top) \in Places(tree) /\ Top.read \in Nat
      BY <1>0, <2>1, TopFacts, HereFacts DEF ListTypeOK
    <3>2. At(Top)[2] > Len(tree[At(Top)[1]])
      BY <2>1, <3>1 DEF At, Entries
    <3>3. GamesFrom(tree, Games(tree), At(Top)) = <<>>
      BY <3>2, GamesFromCases
    <3> QED
      BY <3>1, <3>3, GamesDefined
  <2>4. rest = below
    BY <2>2, <2>3, ConcatEmptySeq DEF Names
  <2>5. stack' = Below /\ UNCHANGED <<tree, saved>> /\ rc' = "success"
    BY <1>10 DEF ReadsEnd, Return, nameVars
  <2> QED
    BY <1>0, <1>1, <2>2, <2>4, <2>5, ListsNone
\* It has read an entry: what comes after the entry is at f.
<1>11. ASSUME ReadsEntry
       PROVE  /\ stack # <<>> /\ rc = "success"
              /\ \A at \in {"loop", "call"} :
                   LET f == [Top EXCEPT !.read = @ + 1, !.at = at]
                   IN  f \in Frame /\ At(f) = <<Top.dir, (Top.read + 1) + 1>>
  <2>1. stack # <<>> /\ rc = "success" /\ Top \in Frame
    BY <1>0, <1>2, <1>4, <1>11, TopFacts DEF ReadsEntry
  <2>2. ASSUME NEW at \in {"loop", "call"}
        PROVE  LET f == [Top EXCEPT !.read = Top.read + 1, !.at = at]
               IN  f \in Frame /\ At(f) = <<Top.dir, (Top.read + 1) + 1>>
    <3>1. Top.read + 1 \in Nat
      BY <2>1 DEF Frame
    <3> QED
      BY <2>1, <3>1 DEF Frame, At
  <2> QED
    BY <2>1, <2>2
<1>12. CASE SkipDots
  <2> DEFINE f == [Top EXCEPT !.read = @ + 1, !.at = "loop"]
             next == <<Top.dir, (Top.read + 1) + 1>>
  <2>1. /\ stack # <<>> /\ rc = "success" /\ f \in Frame /\ At(f) = next
        /\ ReadsEntry /\ IsDots(Entry.name)
    BY <1>11, <1>12 DEF SkipDots
  <2>2. stack' = Below \o <<f>> /\ UNCHANGED <<tree, saved, rc>>
    BY <1>12 DEF SkipDots, Reading, nameVars
  <2>3. Games(tree)[At(Top)] = Games(tree)[next] /\ Games(tree)[next] \in Names
    BY <1>0, <2>1, EntryGames
  <2>4. PICK below \in Names : /\ Planned(tree, Below, below)
                               /\ rest = Games(tree)[At(Top)] \o below
    BY <1>3, <2>1
  <2> HIDE DEF f, next
  <2>5. Planned(tree, stack', rest)
    BY <1>3, <2>1, <2>2, <2>3, <2>4, PlanMore
  <2> QED
    BY <1>0, <1>1, <2>1, <2>2, <2>5, ListsNone
<1>13. CASE NoPath
  BY <1>5, <1>11, <1>13 DEF NoPath, Return, nameVars
<1>14. CASE WildPath
  BY <1>14 DEF WildPath, nameVars, WalkInv, Top, AllGames
<1>15. CASE ListFile
  <2> DEFINE f == [Top EXCEPT !.read = @ + 1, !.at = "loop"]
             next == <<Top.dir, (Top.read + 1) + 1>>
             own == Own(Entry.name)
  <2>1. /\ stack # <<>> /\ rc = "success" /\ f \in Frame /\ At(f) = next
        /\ ReadsEntry /\ ~IsDots(Entry.name) /\ Entry.leads = File
    BY <1>11, <1>15 DEF ListFile
  <2>2. stack' = Below \o <<f>> /\ SaveRomInfo(Entry.name) /\ UNCHANGED <<tree, rc>>
    BY <1>15 DEF ListFile, Reading
  <2>3. /\ Games(tree)[At(Top)] = own \o Games(tree)[next] /\ Games(tree)[next] \in Names
        /\ own \in Names /\ Entry.name \in Seq(Chars)
    BY <1>0, <2>1, EntryGames
  <2>4. saved' = saved \o own
    BY <1>0, <2>2, <2>3, SavesOwn
  <2>5. PICK below \in Names : /\ Planned(tree, Below, below)
                               /\ rest = Games(tree)[At(Top)] \o below
    BY <1>3, <2>1
  <2> HIDE DEF f, next, own
  <2> DEFINE more == Games(tree)[next] \o below
  <2>6. Planned(tree, stack', more) /\ more \in Names
    BY <1>3, <2>1, <2>2, <2>3, <2>5, PlanMore
  <2>7. rest = own \o more
    <3>1. (own \o Games(tree)[next]) \o below = own \o (Games(tree)[next] \o below)
      BY <2>3, Joined
    <3> QED
      BY <2>3, <2>5, <3>1, Zenon
  <2> HIDE DEF more
  <2> QED
    BY <1>0, <1>1, <2>1, <2>2, <2>3, <2>4, <2>6, <2>7, ListsSome
\* A directory: what is behind it comes before what comes after it.
<1>16. ASSUME ReadsEntry, ~IsDots(Entry.name), Entry.leads # File, SaveRomInfo(Entry.name)
       PROVE  LET next == <<Top.dir, (Top.read + 1) + 1>>
                  inside == Games(tree)[<<Entry.leads, 1>>]
              IN  /\ Games(tree)[next] \in Names /\ inside \in Names
                  /\ Own(Entry.name) \in Names /\ saved' = saved \o Own(Entry.name)
                  /\ \E below \in Names :
                       /\ Planned(tree, Below, below)
                       /\ rest = Own(Entry.name) \o (inside \o (Games(tree)[next] \o below))
  <2> DEFINE own == Own(Entry.name)
             next == <<Top.dir, (Top.read + 1) + 1>>
             inside == Games(tree)[<<Entry.leads, 1>>]
             after == Games(tree)[next]
  <2>1. /\ after \in Names /\ inside \in Names /\ own \in Names /\ Entry.name \in Seq(Chars)
        /\ Games(tree)[At(Top)] = (own \o inside) \o after
    BY <1>0, <1>16, EntryGames
  <2>2. saved' = saved \o own
    BY <1>0, <1>16, <2>1, SavesOwn
  <2>3. PICK below \in Names : /\ Planned(tree, Below, below)
                               /\ rest = Games(tree)[At(Top)] \o below
    BY <1>3, <1>11, <1>16
  <2> HIDE DEF own, next, inside, after
  <2>4. rest = own \o (inside \o (after \o below))
    <3>1. rest = Then(Then(Then(own, inside), after), below)
      BY <2>1, <2>3 DEF Then
    <3>2. Then(Then(Then(own, inside), after), below)
            = Then(own, Then(inside, Then(after, below)))
      BY <2>1, ThenFacts
    <3> QED
      BY <3>1, <3>2 DEF Then
  <2> QED
    BY <2>1, <2>2, <2>3, <2>4 DEF own, inside, after, next
<1>17. CASE OpenFails
  <2> DEFINE next == <<Top.dir, (Top.read + 1) + 1>>
             own == Own(Entry.name)
             inside == Games(tree)[<<Entry.leads, 1>>]
             after == Games(tree)[next]
  <2>1. /\ stack # <<>> /\ stack' = Below /\ UNCHANGED tree /\ rc' = "failed"
        /\ ReadsEntry /\ ~IsDots(Entry.name) /\ Entry.leads # File /\ SaveRomInfo(Entry.name)
    BY <1>11, <1>17 DEF OpenFails, Return
  <2>2. /\ after \in Names /\ inside \in Names /\ own \in Names /\ saved' = saved \o own
        /\ \E below \in Names : rest = own \o (inside \o (after \o below))
    BY <1>16, <2>1
  <2> HIDE DEF own, inside, after
  <2>3. PICK below \in Names : rest = own \o (inside \o (after \o below))
    BY <2>2
  <2>4. inside \o (after \o below) \in Names
    BY <2>2, JoinedType
  <2>5. stack' # <<>> => Top'.at = "call"
    BY <1>0, <2>1, TopPopped
  <2> QED
    BY <1>0, <1>1, <2>1, <2>2, <2>3, <2>4, <2>5, ListsSome
<1>18. CASE Descend
  <2> DEFINE f == [Top EXCEPT !.read = @ + 1, !.at = "call"]
             g == [dir |-> Entry.leads, read |-> 0, at |-> "start"]
             next == <<Top.dir, (Top.read + 1) + 1>>
             own == Own(Entry.name)
             inside == Games(tree)[<<Entry.leads, 1>>]
             after == Games(tree)[next]
  <2>1. /\ rc = "success" /\ f \in Frame /\ At(f) = next /\ UNCHANGED <<tree, rc>>
        /\ ReadsEntry /\ ~IsDots(Entry.name) /\ Entry.leads # File /\ SaveRomInfo(Entry.name)
        /\ stack' = (Below \o <<f>>) \o <<g>> /\ Below \in Seq(Frame)
    BY <1>3, <1>11, <1>18 DEF Descend, Reading
  <2>2. g \in Frame /\ At(g) = <<Entry.leads, 1>>
    <3>1. Entry.leads \in DOMAIN tree
      BY <1>0, <2>1, EntryFacts
    <3> QED
      BY <3>1 DEF Frame, At
  <2>3. /\ after \in Names /\ inside \in Names /\ own \in Names /\ saved' = saved \o own
        /\ \E below \in Names : /\ Planned(tree, Below, below)
                                /\ rest = own \o (inside \o (after \o below))
    BY <1>16, <2>1
  <2>4. Games(tree)[At(f)] = after /\ Games(tree)[At(g)] = inside
    BY <2>1, <2>2
  <2> HIDE DEF f, g, next, own, inside, after
  <2>5. PICK below \in Names : /\ Planned(tree, Below, below)
                               /\ rest = own \o (inside \o (after \o below))
    BY <2>3
  <2>6. Planned(tree, Below \o <<f>>, after \o below) /\ after \o below \in Names
    BY <2>1, <2>3, <2>4, <2>5, PlanMore
  <2>7. Below \o <<f>> \in Seq(Frame)
    BY <2>1, OneMore
  <2>8. /\ Planned(tree, stack', inside \o (after \o below))
        /\ inside \o (after \o below) \in Names
    BY <2>1, <2>2, <2>3, <2>4, <2>6, <2>7, PlanMore
  <2> QED
    BY <1>0, <1>1, <2>1, <2>3, <2>5, <2>8, ListsSome
<1>19. CASE GoOn
  <2> DEFINE f == [Top EXCEPT !.at = "loop"]
  <2>1. stack # <<>> /\ rc = "success" /\ Top \in Frame
    BY <1>0, <1>2, <1>19, TopFacts DEF GoOn
  <2>2. f \in Frame /\ At(f) = At(Top)
    BY <2>1 DEF Frame, At
  <2> QED
    BY <1>6, <1>19, <2>1, <2>2 DEF GoOn, nameVars
<1>20. CASE GiveUp
  BY <1>2, <1>5, <1>20 DEF GiveUp, Return, nameVars
<1>21. CASE UNCHANGED listVars
  BY <1>21 DEF listVars, walkVars, nameVars, WalkInv, Top, AllGames
<1> QED
  BY <1>7, <1>8, <1>9, <1>10, <1>12, <1>13, <1>14, <1>15, <1>17, <1>18, <1>19, <1>20, <1>21
  DEF ListNext

\* On any volume, whichever call fails, the walk lists the games in their order
\* and no other name, and if it succeeds it has listed them all.
THEOREM AllGamesAreListed == ListSpec => []GamesListed
<1>1. ListInv /\ WalkInv => GamesListed
  <2> SUFFICES ASSUME ListInv, WalkInv PROVE GamesListed
    OBVIOUS
  <2>1. PICK rest \in Names : /\ saved \o rest = AllGames
                              /\ rc = "success" => Planned(tree, stack, rest)
    BY DEF WalkInv
  <2>2. saved \in Names /\ total_roms = Len(saved)
    BY DEF ListInv, ListTypeOK, NameInv, Names
  <2>3. Begins(saved, AllGames)
    <3>1. /\ Len(saved) \in Nat /\ Len(rest) \in Nat
          /\ Len(AllGames) = Len(saved) + Len(rest)
          /\ \A i \in 1 .. Len(saved) + Len(rest) :
               AllGames[i] = IF i <= Len(saved) THEN saved[i] ELSE rest[i - Len(saved)]
      BY <2>1, <2>2, ConcatProperties, LenProperties DEF Names
    <3> QED
      BY <3>1 DEF Begins
  <2>4. ASSUME Over, rc = "success" PROVE saved = AllGames
    <3>1. rest = <<>>
      BY <2>1, <2>4, PlanEmpty DEF Over
    <3> QED
      BY <2>1, <2>2, <3>1, ConcatEmptySeq DEF Names
  <2> QED
    BY <2>2, <2>3, <2>4 DEF GamesListed
<1> QED
  BY <1>1, ListInitInv, ListNextInv, ListInitWalk, ListNextWalk, PTL DEF ListSpec
=============================================================================

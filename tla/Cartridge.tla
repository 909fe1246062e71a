----------------------------- MODULE Cartridge -----------------------------
(***************************************************************************)
(* The cartridge: fce_load_rom and fce_init (emulator/fce.c) and the       *)
(* program and pattern memory behind them (emulator/mmc.c), over a session *)
(* in which the user plays one file after the other: only the power switch *)
(* clears what the last one left.  Once something was copied past the end  *)
(* of an array nothing can be said (broken), and the session ends.         *)
(*                                                                         *)
(* Contents are followed in pieces of 8 KB, the size of a page of          *)
(* patterns: half a block of program, a quarter of the program memory.     *)
(* What a piece holds is the file it was read from and its place there.    *)
(*                                                                         *)
(* MemoryCopiedOnce, LoadUnsupportedLate and FirstPageOfAll are faults, as *)
(* in Shell.                                                               *)
(***************************************************************************)
EXTENDS Naturals

CONSTANTS
  Files,                          \* what the user may pick
  BUF_PIECES,                     \* buf[1048576] holds 128 pieces
  MMC_MAX_PAGE_COUNT

\* signed: the first four bytes are those of an iNES header; pieces: how long
\* the file really is, in pieces after its header.
ASSUME FilesAssumption ==
  \A f \in Files :
    /\ f.signed \in BOOLEAN
    /\ f.mapper \in Nat /\ f.prg \in Nat /\ f.chr \in Nat /\ f.pieces \in Nat
    /\ f.mirroring \in {0, 1}

\* Four pieces are always there to copy, four pages to select from.
ASSUME SizeAssumption ==
  /\ BUF_PIECES \in Nat /\ BUF_PIECES >= 4
  /\ MMC_MAX_PAGE_COUNT \in Nat /\ MMC_MAX_PAGE_COUNT >= 4

Content == [of : {f.name : f \in Files} \cup {"zero", "beyond", "data"}, at : Nat]

Zero == [of |-> "zero", at |-> 0]        \* never written to
Beyond == [of |-> "beyond", at |-> 0]    \* read past the end of a file
Data == [of |-> "data", at |-> 0]        \* stored by the game

VARIABLES
  header,                         \* of the file whose header was read last
  mmc_id,
  buf,
  memory,                         \* the program memory, from 0x8000
  mmc_chr_pages,
  mmc_chr_pages_number,
  pattern,                        \* PPU_RAM below 0x2000
  mirroring,
  playing,
  broken,                         \* something was copied past an array's end
  stored,                         \* history: pieces stored to in this game
  first,                          \* history: the pages there before this game
  bank,                           \* history: the page selected last, in this game
  drawn,                          \* history: this game draws its own patterns
  pages                           \* history: pages of all games played so far

romVars == <<header, mmc_id, buf, memory, mmc_chr_pages, mmc_chr_pages_number>>
gameVars == <<stored, first, bank, drawn, pages>>
vars == <<romVars, pattern, mirroring, playing, broken, gameVars>>

Quarters == 0 .. 3
Pages == 0 .. MMC_MAX_PAGE_COUNT - 1

TypeOK ==
  /\ header \in Files \cup {Zero}
  /\ mmc_id \in 0 .. 15
  /\ buf \in [0 .. BUF_PIECES - 1 -> Content]
  /\ memory \in [Quarters -> Content]
  /\ mmc_chr_pages \in [Pages -> Content]
  /\ mmc_chr_pages_number \in 0 .. MMC_MAX_PAGE_COUNT
  /\ pattern \in Content
  /\ mirroring \in {0, 1}
  /\ playing \in BOOLEAN /\ broken \in BOOLEAN /\ drawn \in BOOLEAN
  /\ stored \subseteq Quarters
  /\ first \in Nat /\ pages \in Nat
  /\ bank \in 0 .. 3

Init ==
  /\ header = Zero
  /\ mmc_id = 0
  /\ buf = [i \in 0 .. BUF_PIECES - 1 |-> Zero]
  /\ memory = [q \in Quarters |-> Zero]
  /\ mmc_chr_pages = [n \in Pages |-> Zero]
  /\ mmc_chr_pages_number = 0
  /\ pattern = Zero
  /\ mirroring = 0
  /\ playing = FALSE /\ broken = FALSE
  /\ stored = {} /\ first = 0 /\ bank = 0 /\ drawn = FALSE /\ pages = 0

-----------------------------------------------------------------------------
(* fce_load_rom.                                                           *)

\* romread: what a piece of the file holds.  The length is never looked at.
Piece(f, i) == IF i < f.pieces THEN [of |-> f.name, at |-> i] ELSE Beyond

\* Half of the mapper's number is in the byte that is looked at.
MmcId(f) == f.mapper % 16

Supported(f) == MmcId(f) \in {0, 3}

\* buf after the program was read: what it does not reach stays.
ProgramRead(f) ==
  [i \in 0 .. BUF_PIECES - 1 |-> IF i < 2 * f.prg THEN Piece(f, i) ELSE buf[i]]

MemoryCopiedOnce(f) == [q \in Quarters |-> ProgramRead(f)[q]]

\* A single block fills both halves of the program memory.
MemoryCopied(f) ==
  [q \in Quarters |-> ProgramRead(f)[IF f.prg = 1 THEN q % 2 ELSE q]]

Page(f, n) == Piece(f, 2 * f.prg + n)

\* mmc_append_chr_rom_page, for each of the file's pages.
PagesAppended(f) ==
  [n \in Pages |->
     IF n >= mmc_chr_pages_number /\ n < mmc_chr_pages_number + f.chr
     THEN Page(f, n - mmc_chr_pages_number)
     ELSE mmc_chr_pages[n]]

Overruns(f) ==
  \/ 2 * f.prg > BUF_PIECES
  \/ Supported(f) /\ mmc_chr_pages_number + f.chr > MMC_MAX_PAGE_COUNT

Picked(f) == ~playing /\ ~broken /\ header' = f

\* Not an iNES file: only the header has been overwritten.
LoadUnsigned(f) ==
  /\ Picked(f)
  /\ ~f.signed
  /\ UNCHANGED <<mmc_id, buf, memory, mmc_chr_pages, mmc_chr_pages_number>>
  /\ UNCHANGED <<pattern, mirroring, playing, broken, gameVars>>

LoadUnsupportedLate(f) ==
  /\ Picked(f)
  /\ f.signed /\ ~Overruns(f) /\ ~Supported(f)
  /\ mmc_id' = MmcId(f)
  /\ buf' = ProgramRead(f)
  /\ mmc_chr_pages' = PagesAppended(f)
  /\ mmc_chr_pages_number' = mmc_chr_pages_number + f.chr
  /\ UNCHANGED <<memory, pattern, mirroring, playing, broken, gameVars>>

\* A mapper that is not emulated: found out after the program was read.
LoadUnsupported(f) ==
  /\ Picked(f)
  /\ f.signed /\ ~Overruns(f) /\ ~Supported(f)
  /\ mmc_id' = MmcId(f)
  /\ buf' = ProgramRead(f)
  /\ UNCHANGED <<memory, mmc_chr_pages, mmc_chr_pages_number>>
  /\ UNCHANGED <<pattern, mirroring, playing, broken, gameVars>>

FirstPageOfAll(f) == IF f.chr > 0 THEN PagesAppended(f)[0] ELSE pattern

FirstPageShown(f) == IF f.chr > 0 THEN Page(f, 0) ELSE pattern

\* The load succeeds, and fce_init sets the mirroring before the game starts.
LoadRom(f) ==
  /\ Picked(f)
  /\ f.signed /\ ~Overruns(f) /\ Supported(f)
  /\ mmc_id' = MmcId(f)
  /\ memory' = MemoryCopied(f)
  /\ mmc_chr_pages' = PagesAppended(f)
  /\ mmc_chr_pages_number' = mmc_chr_pages_number + f.chr
  /\ buf' = IF f.chr > 0 THEN [ProgramRead(f) EXCEPT ![0] = Page(f, f.chr - 1)]
                         ELSE ProgramRead(f)
  /\ pattern' = FirstPageShown(f)
  /\ mirroring' = f.mirroring
  /\ playing' = TRUE
  /\ stored' = {} /\ first' = mmc_chr_pages_number /\ bank' = 0 /\ drawn' = FALSE
  /\ pages' = pages + f.chr
  /\ UNCHANGED broken

\* More program than buf holds, or one page too many since the power came on.
LoadOverruns(f) ==
  /\ Picked(f)
  /\ f.signed /\ Overruns(f)
  /\ broken' = TRUE
  /\ pages' = IF Supported(f) THEN pages + f.chr ELSE pages
  /\ UNCHANGED <<mmc_id, buf, memory, mmc_chr_pages, mmc_chr_pages_number>>
  /\ UNCHANGED <<pattern, mirroring, playing, stored, first, bank, drawn>>

-----------------------------------------------------------------------------
(* The game and the user.                                                  *)

PageSelected(data) == mmc_chr_pages[data % 4]

\* mmc_write.  A store to the program memory changes it, also when it is meant
\* for the mapper's bank register.
MmcWrite(q, data) ==
  /\ playing
  /\ memory' = [memory EXCEPT ![q] = Data]
  /\ stored' = stored \cup {q}
  /\ IF mmc_id = 3
     THEN pattern' = PageSelected(data) /\ bank' = data % 4 /\ drawn' = FALSE
     ELSE UNCHANGED <<pattern, bank, drawn>>
  /\ UNCHANGED <<header, mmc_id, buf, mmc_chr_pages, mmc_chr_pages_number>>
  /\ UNCHANGED <<mirroring, playing, broken, first, pages>>

\* Stores through PPUDATA below 0x2000: patterns are never read-only.
DrawPattern ==
  /\ playing
  /\ pattern' = Data
  /\ drawn' = TRUE
  /\ UNCHANGED <<romVars, mirroring, playing, broken, stored, first, bank, pages>>

\* R: back to the menu, by way of the splash screen.
Reboot ==
  /\ playing
  /\ playing' = FALSE
  /\ UNCHANGED <<romVars, pattern, mirroring, broken, gameVars>>

LoadCurrentFile(f) ==
  LoadUnsigned(f) \/ LoadUnsupported(f) \/ LoadRom(f) \/ LoadOverruns(f)

Next ==
  \/ \E f \in Files : LoadCurrentFile(f)
  \/ \E q \in Quarters, data \in 0 .. 3 : MmcWrite(q, data)
  \/ DrawPattern
  \/ Reboot

Spec == Init /\ [][Next]_vars

-----------------------------------------------------------------------------
(* Properties.                                                             *)

\* A game runs with its own mapper and mirroring and finds its own program
\* where it expects it, except where it has itself stored: nothing of earlier
\* games, of refused files or of their stores is left, whatever was played
\* before.  (A header that announces no program gets what buf happened to
\* hold.)
GameIsWhole ==
  playing =>
    /\ mmc_id = MmcId(header)
    /\ mirroring = header.mirroring
    /\ header.prg > 0 =>
         \A q \in Quarters \ stored :
           memory[q] = Piece(header, IF header.prg = 1 THEN q % 2 ELSE q)

\* A game that has patterns and has not drawn over them shows the page of its
\* own that it selected: always with mapper 0, and with bank switching if no
\* game with patterns was loaded since the power came on.  (The pages of the
\* second one are appended to those of the first, and selected from the
\* beginning.)
PatternIsOwn ==
  playing /\ header.chr > 0 /\ ~drawn /\ (mmc_id = 3 => first = 0) =>
    pattern = IF bank < header.chr THEN Page(header, bank) ELSE Zero

\* Loading goes wrong only with a header that announces more program than buf
\* holds, or when the games played since the power came on have more pages
\* than there is room for.  Files that were refused do not count.
LoadsHold ==
  broken => \/ 2 * header.prg > BUF_PIECES
            \/ pages > MMC_MAX_PAGE_COUNT
=============================================================================

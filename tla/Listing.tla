------------------------------ MODULE Listing ------------------------------
(***************************************************************************)
(* The file browser: list_directory (driver/sfs.c), which walks the volume *)
(* and calls itself for every directory, and save_rom_info (ui/ui_gfx.c),  *)
(* which it calls for every entry, before main's loop begins.              *)
(*                                                                         *)
(* Each call to the firmware may fail.  The stack of C calls is a sequence *)
(* of frames; a name is a sequence of characters, since what the code does *)
(* with it depends on its length and its parts.                            *)
(*                                                                         *)
(* HereOnly, EndsWith, CopiedUnended and FreedOne are faults, as in Shell. *)
(***************************************************************************)
EXTENDS Naturals, Sequences

CONSTANTS
  Trees,                          \* volumes: per directory, its entries in order
  Root,                           \* the directory the walk starts in
  File,                           \* where an entry leads that is no directory
  Chars,
  Parts,                          \* ".nes" and ".NES"
  MaxDepth,                       \* how deep directories lie in one another
  MAX_FILE_NUMBER,                \* 1024
  MAX_FILE_NAME_SIZE              \* 64

Nul == "zero"                     \* the character that ends a string

Here == <<".">>
Above == <<".", ".">>

Room == 0 .. MAX_FILE_NUMBER * MAX_FILE_NAME_SIZE - 1

\* A directory that is not the one above lies deeper.
Deeper(volume, depth) ==
  \A d \in DOMAIN volume : \A i \in DOMAIN volume[d] :
    LET entry == volume[d][i]
    IN  entry.name \notin {Here, Above} /\ entry.leads # File =>
          depth[entry.leads] > depth[d]

ASSUME SizesAssumption ==
  MaxDepth \in Nat /\ MAX_FILE_NUMBER \in Nat \ {0} /\ MAX_FILE_NAME_SIZE \in Nat \ {0}

ASSUME TreesAssumption ==
  /\ File \notin UNION {DOMAIN tree : tree \in Trees}
  /\ Nul \notin Chars /\ "." \in Chars /\ Parts \subseteq Seq(Chars)
  /\ \A tree \in Trees :
       /\ Root \in DOMAIN tree
       /\ \A d \in DOMAIN tree :
            tree[d] \in Seq([name : Seq(Chars) \ {<<>>}, leads : DOMAIN tree \cup {File}])
       /\ \E depth \in [DOMAIN tree -> 0 .. MaxDepth] : Deeper(tree, depth)

VARIABLES
  tree,                           \* the volume that is there
  stack,                          \* calls of list_directory, the running one last
  rc,                             \* what the last of them to end has returned
  blocks,                         \* pool blocks allocated and not freed
  handles,                        \* directories opened and not closed
  rom_collection,
  total_roms,
  crashed,                        \* undefined behaviour that stops the machine
  saved                           \* history: the names given to StrCpy

walkVars == <<stack, rc, blocks, handles, crashed>>
nameVars == <<rom_collection, total_roms, saved>>
listVars == <<tree, walkVars, nameVars>>

Frame == [dir : DOMAIN tree, read : Nat, at : {"start", "loop", "call"}]

ListTypeOK ==
  /\ tree \in Trees
  /\ stack \in Seq(Frame)
  /\ rc \in {"success", "failed"}
  /\ blocks \in Nat /\ handles \in Nat
  /\ rom_collection \in [Room -> Chars \cup {Nul}]
  /\ total_roms \in Nat
  /\ crashed \in BOOLEAN
  /\ saved \in Seq(Seq(Chars))

\* list_file_browser calls list_directory for the root, which it never closes.
ListInit ==
  /\ tree \in Trees
  /\ stack = <<[dir |-> Root, read |-> 0, at |-> "start"]>>
  /\ rc = "success"
  /\ blocks = 0 /\ handles = 0
  /\ rom_collection = [a \in Room |-> Nul]
  /\ total_roms = 0
  /\ crashed = FALSE
  /\ saved = <<>>

-----------------------------------------------------------------------------
(* save_rom_info.                                                          *)

EndsWith(name, part) ==
  /\ Len(part) <= Len(name)
  /\ part = SubSeq(name, Len(name) - Len(part) + 1, Len(name))

\* strstr_16: the part may be anywhere.
HasPart(name, part) ==
  \E i \in Len(part) .. Len(name) : part = SubSeq(name, i - Len(part) + 1, i)

Wanted(name) == \E part \in Parts : HasPart(name, part)

\* Row i of rom_collection begins where the row before it ends.
Row(i) == i * MAX_FILE_NAME_SIZE

CopiedUnended(name, to) ==
  [a \in Room |-> IF a - to \in 0 .. Len(name) - 1 THEN name[a - to + 1]
                                                   ELSE rom_collection[a]]

\* StrCpy: the whole name and the zero, however long the row.
Copied(name, to) ==
  [a \in Room |-> IF a - to \in 0 .. Len(name) - 1 THEN name[a - to + 1]
                  ELSE IF a = to + Len(name) THEN Nul
                  ELSE rom_collection[a]]

SaveRomInfo(name) ==
  IF Wanted(name)
  THEN /\ rom_collection' = Copied(name, Row(total_roms))
       /\ total_roms' = total_roms + 1
       /\ saved' = Append(saved, name)
  ELSE UNCHANGED nameVars

-----------------------------------------------------------------------------
(* list_directory.                                                         *)

Top == stack[Len(stack)]
Below == SubSeq(stack, 1, Len(stack) - 1)
Entries == tree[Top.dir]
Entry == Entries[Top.read + 1]

Running(at) == stack # <<>> /\ Top.at = at /\ ~crashed

\* Another entry has been read, and what follows is at.
Reading(at) == Below \o <<[Top EXCEPT !.read = @ + 1, !.at = at]>>

Return(status) == stack' = Below /\ rc' = status

\* Nothing is allocated but file_info, which is not freed yet.
Start ==
  /\ Running("start")
  /\ stack' = Below \o <<[Top EXCEPT !.at = "loop"]>>
  /\ blocks' = blocks + 1
  /\ UNCHANGED <<tree, rc, handles, crashed, nameVars>>

NoMemory ==
  /\ Running("start")
  /\ Return("failed")
  /\ UNCHANGED <<tree, blocks, handles, crashed, nameVars>>

ReadFails ==
  /\ Running("loop")
  /\ Return("failed")
  /\ blocks' = blocks - 1
  /\ UNCHANGED <<tree, handles, crashed, nameVars>>

ReadsEnd ==
  /\ Running("loop")
  /\ Top.read = Len(Entries)
  /\ Return("success")
  /\ blocks' = blocks - 1
  /\ UNCHANGED <<tree, handles, crashed, nameVars>>

ReadsEntry == Running("loop") /\ Top.read < Len(Entries)

HereOnly(name) == name = Here

IsDots(name) == name \in {Here, Above}

SkipDots ==
  /\ ReadsEntry
  /\ IsDots(Entry.name)
  /\ stack' = Reading("loop")
  /\ UNCHANGED <<tree, rc, blocks, handles, crashed, nameVars>>

\* FileDevicePath returns NULL ...
NoPath ==
  /\ ReadsEntry
  /\ ~IsDots(Entry.name)
  /\ Return("failed")
  /\ blocks' = blocks - 1
  /\ UNCHANGED <<tree, handles, crashed, nameVars>>

\* ... or, in the root, follows the pointer it is given there: get_volume has
\* set its own copy of dp, list_file_browser's was never set.
WildPath ==
  /\ ReadsEntry /\ Len(stack) = 1
  /\ ~IsDots(Entry.name)
  /\ crashed' = TRUE
  /\ UNCHANGED <<tree, stack, rc, blocks, handles, nameVars>>

ListFile ==
  /\ ReadsEntry
  /\ ~IsDots(Entry.name) /\ Entry.leads = File
  /\ SaveRomInfo(Entry.name)
  /\ stack' = Reading("loop")
  /\ UNCHANGED <<tree, rc, blocks, handles, crashed>>

\* A directory is listed like a file before it is opened.
OpenFails ==
  /\ ReadsEntry
  /\ ~IsDots(Entry.name) /\ Entry.leads # File
  /\ SaveRomInfo(Entry.name)
  /\ Return("failed")
  /\ blocks' = blocks - 1
  /\ UNCHANGED <<tree, handles, crashed>>

Descend ==
  /\ ReadsEntry
  /\ ~IsDots(Entry.name) /\ Entry.leads # File
  /\ SaveRomInfo(Entry.name)
  /\ stack' = Reading("call") \o <<[dir |-> Entry.leads, read |-> 0, at |-> "start"]>>
  /\ blocks' = blocks + 1
  /\ handles' = handles + 1
  /\ UNCHANGED <<tree, rc, crashed>>

\* The call for a sub-directory is over, one way or the other.
GoOn ==
  /\ Running("call")
  /\ rc = "success"
  /\ stack' = Below \o <<[Top EXCEPT !.at = "loop"]>>
  /\ blocks' = blocks - 1
  /\ handles' = handles - 1
  /\ UNCHANGED <<tree, rc, crashed, nameVars>>

FreedOne == blocks - 1

\* file_info and dp.
FreedBoth == blocks - 2

GiveUp ==
  /\ Running("call")
  /\ rc = "failed"
  /\ Return("failed")
  /\ blocks' = FreedBoth
  /\ handles' = handles - 1
  /\ UNCHANGED <<tree, crashed, nameVars>>

ListNext ==
  \/ Start \/ NoMemory
  \/ ReadFails \/ ReadsEnd \/ SkipDots
  \/ NoPath \/ WildPath \/ ListFile
  \/ OpenFails \/ Descend \/ GoOn \/ GiveUp

ListSpec == ListInit /\ [][ListNext]_listVars

-----------------------------------------------------------------------------
(* Properties.                                                             *)

Over == stack = <<>>

\* Whichever call fails in whichever directory, when the walk is over all that
\* it allocated is freed, and every directory that it opened is closed.
NothingLeaks == Over => blocks = 0 /\ handles = 0

\* The string that begins with row i.
ReadBack(i) ==
  LET from == Row(i)
      ends == {a \in Room : a >= from /\ rom_collection[a] = Nul}
      to == CHOOSE a \in ends : \A b \in ends : a <= b
  IN  [k \in 1 .. to - from |-> rom_collection[from + k - 1]]

\* What the menu shows and opens for a row is the name that was found, if the
\* name fits in a row, or is the last one: a name that does not runs into the
\* next row, and the next name is written over its end, never over another.
\* (Nobody checks that there is a row left.)
NamesReadBack ==
  \A i \in 1 .. Len(saved) :
    /\ Row(i - 1) + Len(saved[i]) \in Room
    /\ Len(saved[i]) < MAX_FILE_NAME_SIZE \/ i = Len(saved)
    => ReadBack(i - 1) = saved[i]

\* A name with one of the parts somewhere in it.
IsGame(name) ==
  \E part \in Parts, k \in 0 .. Len(name) :
    \A j \in 1 .. Len(part) : k + j <= Len(name) /\ name[k + j] = part[j]

\* Places <<d, i>>: directory d from its i-th entry on.
Places(volume) == (DOMAIN volume) \X (Nat \ {0})

\* The games from a place on, if after gives those from the places after it.
GamesFrom(volume, after, place) ==
  IF place[2] > Len(volume[place[1]]) THEN <<>> ELSE
  LET e == volume[place[1]][place[2]]
      own == IF IsGame(e.name) THEN <<e.name>> ELSE <<>>
      inside == IF e.leads = File THEN <<>> ELSE after[<<e.leads, 1>>]
  IN  (IF e.name \in {Here, Above} THEN <<>> ELSE own \o inside)
      \o after[<<place[1], place[2] + 1>>]

\* The games of a volume from each place on, depth first; a directory with a
\* game's name is one.
Games(volume) ==
  LET games[place \in Places(volume)] == GamesFrom(volume, games, place)
  IN  games

AllGames == Games(tree)[<<Root, 1>>]

Begins(names, all) ==
  Len(names) <= Len(all) /\ \A i \in 1 .. Len(names) : names[i] = all[i]

\* What is listed is, in the order of the volume, every game of every directory
\* up to where the walk is; all of them if no call failed; and nothing else.
GamesListed ==
  /\ Begins(saved, AllGames)
  /\ total_roms = Len(saved)
  /\ Over /\ rc = "success" => saved = AllGames

\* No directory is listed inside its own listing, although on the volume every
\* directory leads to itself and to the one above it: the walk comes to an end,
\* and the C stack needs room for the volume's depth only.
NeverInsideItself ==
  /\ \A i, j \in 1 .. Len(stack) : stack[i].dir = stack[j].dir => i = j
  /\ Len(stack) <= MaxDepth + 1
=============================================================================

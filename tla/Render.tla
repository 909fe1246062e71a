------------------------------- MODULE Render -------------------------------
(***************************************************************************)
(* The renderer: what ppu_cycle draws into the three buffers of pending    *)
(* pixels, line by line (emulator/ppu.c), what fce_update_screen makes of  *)
(* them (emulator/fce.c, hal/), and the sprite table (DMA of memory.c).    *)
(* Between two lines the game may write to the registers.                  *)
(*                                                                         *)
(* Sizes are constants; the code's are beside them.  Nametables, the two   *)
(* pattern tables and the palette's colours are data that do not change;   *)
(* PPUCTRL chooses among the tables.  A colour is its place in the         *)
(* palette; 0 is the backdrop's.  Of a buffer the model keeps how many    *)
(* pixels it holds and what is drawn last at every place of the screen:    *)
(* pixels left of it are held too, but nes_set_pixel ignores them.         *)
(*                                                                         *)
(* PartlyVisibleSkipped, AddedOnAnyLine and HitColumnsAny are faults, as   *)
(* in Shell.                                                               *)
(***************************************************************************)
EXTENDS Integers, FiniteSets

CONSTANTS
  TILE,                           \* 8
  COLUMNS,                        \* 32 tiles in a line
  HEIGHT,                         \* NES_SCREEN_HEIGHT, 240
  LAST_LINE,                      \* 262
  ROWS,                           \* of ppu_screen_background, 248
  CAPACITY,                       \* of a buffer, 264 * 264
  SPRITES,                        \* 64
  Names,                          \* per nametable: [tile, attr] by column, row
  Pattern,                        \* per table, tile: 0 .. 3 by column, row
  Scrolls, Masks, Ctrls,          \* what the game writes to PPUSCROLL, ...
  OamAddrs, OamPages,             \* ... to OAMADDR, and copies by DMA
  MAX_WRITES                      \* bound: writes while a picture is drawn

WIDTH == TILE * COLUMNS

OamBytes == 0 .. 4 * SPRITES - 1

ASSUME SizesAssumption ==
  /\ TILE \in Nat \ {0} /\ COLUMNS \in Nat \ {0} /\ WIDTH \in Nat
  /\ HEIGHT \in Nat /\ HEIGHT > 1
  /\ LAST_LINE \in Nat /\ LAST_LINE >= HEIGHT /\ LAST_LINE >= HEIGHT + TILE - 3
  /\ ROWS \in Nat /\ LAST_LINE + TILE <= 2 * ROWS /\ SPRITES \in Nat \ {0} /\ MAX_WRITES \in Nat
  /\ CAPACITY \in Nat /\ WIDTH * (HEIGHT - 1) <= CAPACITY
  /\ SPRITES * (2 * TILE + 1) * TILE <= CAPACITY

ASSUME GameAssumption ==
  /\ Scrolls \subseteq 0 .. WIDTH - 1 /\ 0 \in Scrolls
  /\ Masks \subseteq [background : BOOLEAN, sprites : BOOLEAN, left : BOOLEAN]
  /\ \A c \in Ctrls : /\ c.base \in 0 .. 3 /\ c.height \in {TILE, 2 * TILE}
                       /\ c.playfield \in {0, 1} /\ c.sprites \in {0, 1}
  /\ OamAddrs \subseteq OamBytes
  /\ OamPages \subseteq [OamBytes -> 0 .. 255]
  \* an X is a byte, a line 256 pixels
  /\ \A page \in OamPages, a \in OamAddrs \cup {0}, n \in 0 .. SPRITES - 1 :
       page[(4 * n + 3 - a) % (4 * SPRITES)] < WIDTH

VARIABLES
  scanline,
  mask, ctrl, scroll,             \* PPUMASK, PPUCTRL, PPUSCROLL_X
  oamaddr, oam,                   \* OAMADDR, PPU_SPRRAM
  bbg, bg, fg,                    \* sprites behind, playfield, sprites in front
  seen,                           \* ppu_screen_background, as it lies in memory
  hit,                            \* ppu_sprite_hit_occured
  sprite0,                        \* PPUSTATUS, bit 6: what the game sees of it
  spilled,                        \* the buffer that ran over, if any did
  rows,                           \* history: how each line of this picture was drawn
  tables,                         \* history: the sprites' table on each line of it
  moved,                          \* history: sprites were changed in this picture
  writes                          \* bound

registers == <<mask, ctrl, scroll, oamaddr, oam>>
buffers == <<bbg, bg, fg>>
history == <<rows, tables, moved>>
vars == <<scanline, registers, buffers, seen, hit, sprite0, spilled, history, writes>>

Lines == 0 .. HEIGHT - 2          \* the lines that have a row on the screen
Screen == (0 .. WIDTH - 1) \X (0 .. HEIGHT - 1)
Clear == -1
NotDrawn == [scroll |-> 0, base |-> -1, table |-> 0, left |-> FALSE]
NoTables == [l \in 0 .. LAST_LINE - 1 |-> 0]
Empty == [size |-> 0, layer |-> [p \in Screen |-> Clear]]

MaskOff == [background |-> FALSE, sprites |-> FALSE, left |-> FALSE]
CtrlOff == [base |-> 0, height |-> TILE, playfield |-> 0, sprites |-> 0]

Buffer == [size : Nat, layer : [Screen -> Clear .. 31]]
Drawn == [scroll : Scrolls, base : 0 .. 3, table : {0, 1}, left : BOOLEAN] \cup {NotDrawn}

TypeOK ==
  /\ scanline \in -1 .. LAST_LINE - 1
  /\ mask \in Masks \cup {MaskOff}
  /\ ctrl \in Ctrls \cup {CtrlOff}
  /\ scroll \in Scrolls
  /\ oamaddr \in OamBytes /\ oam \in [OamBytes -> 0 .. 255]
  /\ bbg \in Buffer /\ bg \in Buffer /\ fg \in Buffer
  /\ seen \in [0 .. (WIDTH + TILE) * ROWS - 1 -> 0 .. 3]
  /\ hit \in BOOLEAN /\ sprite0 \in BOOLEAN /\ moved \in BOOLEAN
  /\ spilled \in {"none", "background", "sprites"}
  /\ rows \in [Lines -> Drawn] /\ tables \in [0 .. LAST_LINE - 1 -> {0, 1}]
  /\ writes \in 0 .. MAX_WRITES

\* Nothing initialises the picture: the first one starts with line 1.
Init ==
  /\ scanline = 0
  /\ mask = MaskOff /\ ctrl = CtrlOff /\ scroll = 0
  /\ oamaddr = 0 /\ oam = [i \in OamBytes |-> 0]
  /\ bbg = Empty /\ bg = Empty /\ fg = Empty
  /\ seen = [i \in 0 .. (WIDTH + TILE) * ROWS - 1 |-> 0]
  /\ hit = FALSE /\ sprite0 = FALSE /\ spilled = "none"
  /\ rows = [l \in Lines |-> NotDrawn] /\ tables = NoTables
  /\ moved = FALSE /\ writes = 0

-----------------------------------------------------------------------------
(* ppu_draw_background_scanline, for m = 0 (the nametable at the base) and *)
(* m = 1 (the next one, from the right edge of the first).                 *)

\* In nametable t, with the patterns of table k.
Cell(t, u, l) == Names[t][<<u \div TILE, l \div TILE>>]
ColorAt(k, t, u, l) == Pattern[k][Cell(t, u, l).tile][<<u % TILE, l % TILE>>]
IndexAt(k, t, u, l) == 4 * Cell(t, u, l).attr + ColorAt(k, t, u, l)

ASSUME DataAssumption ==
  /\ \A k \in {0, 1}, t \in 0 .. 4, u \in 0 .. WIDTH - 1, l \in 0 .. LAST_LINE :
       Cell(t, u, l).attr \in 0 .. 3 /\ ColorAt(k, t, u, l) \in 0 .. 3
  /\ \A k \in {0, 1}, tile \in 0 .. 255, u, v \in 0 .. TILE - 1 :
       Pattern[k][tile][<<u, v>>] \in 0 .. 3

Color(m, u, l) == ColorAt(ctrl.playfield, ctrl.base + m, u, l)

PartlyVisibleSkipped(m, tile) == TILE * (tile + 1) - scroll + WIDTH * m > WIDTH

OffScreen(m, tile) == TILE * tile - scroll + WIDTH * m > WIDTH

\* The columns of the nametable with a pixel that is drawn.  PPUMASK's bit for
\* the leftmost eight pixels leaves out the first tile, wherever it is.
DrawnColumns(m, l) ==
  { u \in 0 .. WIDTH - 1 :
      /\ u \div TILE > 0 \/ mask.left
      /\ ~OffScreen(m, u \div TILE)
      /\ Color(m, u, l) # 0 }

AddedOnAnyLine(m, l) ==
  { u \in DrawnColumns(m, l) : u - scroll + WIDTH * m < WIDTH }

\* pixbuf_add: those of them that get into the buffer.
AddedColumns(m, l) ==
  { u \in DrawnColumns(m, l) : u - scroll + WIDTH * m < WIDTH /\ l + 1 < HEIGHT }

\* Both passes.  A line appears one row further down.
BackgroundDrawn(l) ==
  LET added == [m \in {0, 1} |-> AddedColumns(m, l)]
      column(p) == p[1] + scroll
      pass(p) == IF column(p) < WIDTH THEN 0 ELSE 1
      u(p) == column(p) - WIDTH * pass(p)
  IN  IF ~mask.background THEN bg ELSE
      [ size |-> bg.size + Cardinality(added[0]) + Cardinality(added[1]),
        layer |-> [ p \in Screen |->
          IF p[2] = l + 1 /\ u(p) \in added[pass(p)]
          THEN IndexAt(ctrl.playfield, ctrl.base + pass(p), u(p), l)
          ELSE bg.layer[p] ] ]

\* The playfield's colours are also noted for sprite 0, by their column in the
\* nametable: scrolled or not, on the screen or not, and never cleared.
SeenDrawn(l) ==
  LET drawn == [m \in {0, 1} |-> DrawnColumns(m, l)]
  IN  IF ~mask.background THEN seen ELSE
      [ i \in DOMAIN seen |->
          LET u == (i - l) \div ROWS IN
          IF i < l \/ (i - l) % ROWS # 0 THEN seen[i]
          ELSE IF u \in drawn[1] THEN Color(1, u, l)
          ELSE IF u \in drawn[0] THEN Color(0, u, l)
          ELSE seen[i] ]

-----------------------------------------------------------------------------
(* ppu_draw_sprite_scanline.                                               *)

SpriteY(n) == oam[4 * n]
SpriteTile(n) == oam[4 * n + 1]
SpriteX(n) == oam[4 * n + 3]
Bit(n, weight) == (oam[4 * n + 2] \div weight) % 2 = 1
VFlip(n) == Bit(n, 128)
HFlip(n) == Bit(n, 64)
Behind(n) == Bit(n, 32)

\* All of them are drawn, also the ninth.
OnLine(l) == { n \in 0 .. SPRITES - 1 : SpriteY(n) <= l /\ l <= SpriteY(n) + ctrl.height }

\* The pattern of table k in the sprite's own coordinates.
SpriteColor(k, n, u, v) ==
  LET column == IF HFlip(n) THEN TILE - 1 - u ELSE u
      row == IF VFlip(n) THEN TILE - 1 - v ELSE v
  IN  Pattern[k][SpriteTile(n)][<<column, row>>]

SpriteIndex(k, n, u, v) == 16 + 4 * (oam[4 * n + 2] % 4) + SpriteColor(k, n, u, v)

\* Which row of its pattern a sprite shows depends on the line alone.
RowDrawn(n, l) == l % TILE

SpritePixels(l, behind) ==
  { s \in OnLine(l) \X (0 .. TILE - 1) :
      /\ SpriteColor(ctrl.sprites, s[1], s[2], RowDrawn(s[1], l)) # 0
      /\ Behind(s[1]) = behind
      /\ SpriteX(s[1]) + s[2] < WIDTH
      /\ SpriteY(s[1]) + RowDrawn(s[1], l) + 1 < HEIGHT }

\* Of the sprites of one line, the last one in the table is drawn last.
SpritesDrawn(buf, l, behind) ==
  LET pixels == SpritePixels(l, behind)
      there(p) == { n \in OnLine(l) : /\ <<n, p[1] - SpriteX(n)>> \in pixels
                                      /\ p[2] = SpriteY(n) + RowDrawn(n, l) + 1 }
      last(p) == CHOOSE n \in there(p) : \A k \in there(p) : k <= n
  IN  IF ~mask.sprites THEN buf ELSE
      [ size |-> buf.size + Cardinality(pixels),
        layer |-> [ p \in Screen |->
          IF there(p) = {} THEN buf.layer[p]
          ELSE SpriteIndex(ctrl.sprites, last(p), p[1] - SpriteX(last(p)), RowDrawn(last(p), l)) ] ]

HitColumnsAny(l, noted) ==
  { u \in 0 .. TILE - 1 :
      noted[(SpriteX(0) + u) * ROWS + SpriteY(0) + RowDrawn(0, l)]
        = SpriteColor(ctrl.sprites, 0, u, RowDrawn(0, l)) }

\* Where the noted colour is that of sprite 0.
HitColumns(l, noted) ==
  { u \in 0 .. TILE - 1 :
      /\ SpriteColor(ctrl.sprites, 0, u, RowDrawn(0, l)) # 0
      /\ noted[(SpriteX(0) + u) * ROWS + SpriteY(0) + RowDrawn(0, l)]
           = SpriteColor(ctrl.sprites, 0, u, RowDrawn(0, l)) }

Hit(l, noted) ==
  /\ ~hit
  /\ mask.background /\ mask.sprites
  /\ 0 \in OnLine(l)
  /\ HitColumns(l, noted) # {}

-----------------------------------------------------------------------------
(* ppu_cycle: one line, and after the last one fce_update_screen.          *)

\* What fce_update_screen draws at p: the backdrop, then the three buffers, as
\* far as PPUMASK wants them now.
Composed(p, behind, playfield, front) ==
  LET shown == << IF mask.sprites THEN front.layer[p] ELSE Clear,
                  IF mask.background THEN playfield.layer[p] ELSE Clear,
                  IF mask.sprites THEN behind.layer[p] ELSE Clear, 0 >>
  IN  shown[CHOOSE i \in 1 .. 4 : shown[i] # Clear /\ \A j \in 1 .. i - 1 : shown[j] = Clear]

Overfull(buf) == buf.size > CAPACITY

DrawnAs == IF mask.background
           THEN [scroll |-> scroll, base |-> ctrl.base, table |-> ctrl.playfield,
                 left |-> mask.left]
           ELSE NotDrawn

\* Past a buffer's end lies its own size: the model goes no further then.
Spill(behind, playfield, front) ==
  spilled' = IF Overfull(playfield) THEN "background"
             ELSE IF Overfull(behind) \/ Overfull(front) THEN "sprites" ELSE "none"

Line ==
  /\ spilled = "none"
  /\ scanline + 1 < LAST_LINE
  /\ scanline' = scanline + 1
  /\ bg' = BackgroundDrawn(scanline')
  /\ bbg' = SpritesDrawn(bbg, scanline', TRUE)
  /\ fg' = SpritesDrawn(fg, scanline', FALSE)
  /\ seen' = SeenDrawn(scanline')
  /\ hit' = (hit \/ Hit(scanline', seen'))
  \* the line after the screen's, with which the vertical blank begins
  /\ sprite0' = (scanline' # HEIGHT + 1 /\ (sprite0 \/ Hit(scanline', seen')))
  /\ Spill(bbg', bg', fg')
  /\ rows' = IF scanline' \in Lines THEN [rows EXCEPT ![scanline'] = DrawnAs] ELSE rows
  /\ tables' = IF mask.sprites THEN [tables EXCEPT ![scanline'] = ctrl.sprites] ELSE tables
  /\ UNCHANGED <<registers, moved, writes>>

LastLine ==
  /\ spilled = "none"
  /\ scanline + 1 = LAST_LINE
  /\ scanline' = -1
  /\ bbg' = Empty /\ bg' = Empty /\ fg' = Empty
  /\ seen' = SeenDrawn(LAST_LINE)
  /\ hit' = FALSE
  /\ sprite0' = (sprite0 \/ Hit(LAST_LINE, seen'))
  /\ Spill(SpritesDrawn(bbg, LAST_LINE, TRUE), BackgroundDrawn(LAST_LINE),
           SpritesDrawn(fg, LAST_LINE, FALSE))
  /\ rows' = [l \in Lines |-> NotDrawn] /\ tables' = NoTables
  /\ moved' = (moved /\ spilled' # "none")
  /\ writes' = 0
  /\ UNCHANGED registers

-----------------------------------------------------------------------------
(* The game.                                                               *)

Write ==
  /\ spilled = "none" /\ writes < MAX_WRITES
  /\ writes' = writes + 1
  /\ UNCHANGED <<scanline, buffers, seen, hit, spilled, rows, tables>>

WriteScroll ==
  /\ Write
  /\ scroll' \in Scrolls
  /\ UNCHANGED <<mask, ctrl, oamaddr, oam, moved, sprite0>>

WriteMask ==
  /\ Write
  /\ mask' \in Masks
  /\ moved' = (moved \/ mask'.sprites # mask.sprites)
  /\ UNCHANGED <<ctrl, scroll, oamaddr, oam, sprite0>>

WriteCtrl ==
  /\ Write
  /\ ctrl' \in Ctrls
  /\ moved' = (moved \/ ctrl'.height # ctrl.height)
  /\ UNCHANGED <<mask, scroll, oamaddr, oam, sprite0>>

WriteOamAddr ==
  /\ Write
  /\ oamaddr' \in OamAddrs
  /\ UNCHANGED <<mask, ctrl, scroll, oam, moved, sprite0>>

\* memory_writeb(0x4014): as many bytes as there are, from OAMADDR on, which
\* ends where it began.
Dma(page) ==
  /\ Write
  /\ oam' = [i \in OamBytes |-> page[(i - oamaddr) % (4 * SPRITES)]]
  /\ moved' = TRUE
  /\ UNCHANGED <<mask, ctrl, scroll, oamaddr, sprite0>>

\* fce_init: the registers are reset; the picture goes on where it was.
Insert ==
  /\ Write
  /\ mask' = MaskOff /\ ctrl' = CtrlOff /\ scroll' = 0 /\ oamaddr' = 0
  /\ sprite0' = FALSE
  /\ moved' = TRUE
  /\ UNCHANGED oam

\* ppu_io_read(0x2002).
ReadStatus ==
  /\ spilled = "none"
  /\ sprite0' = FALSE
  /\ UNCHANGED <<scanline, registers, buffers, seen, hit, spilled, history, writes>>

Next ==
  \/ Line \/ LastLine
  \/ WriteScroll \/ WriteMask \/ WriteCtrl \/ WriteOamAddr
  \/ \E page \in OamPages : Dma(page)
  \/ Insert
  \/ ReadStatus

Spec == Init /\ [][Next]_vars

-----------------------------------------------------------------------------
(* Properties.                                                             *)

\* What the playfield has at p, read off the nametables: the column that is
\* scrolled there, of the line above, in the patterns that line was drawn with.
PlayfieldAt(p) ==
  IF p[2] = 0 THEN Clear ELSE
  LET line == rows[p[2] - 1]
      column == p[1] + line.scroll
      t == line.base + column \div WIDTH
      u == column % WIDTH
  IN  IF \/ line = NotDrawn \/ (~line.left /\ u < TILE)
         \/ ColorAt(line.table, t, u, p[2] - 1) = 0
      THEN Clear
      ELSE IndexAt(line.table, t, u, p[2] - 1)

\* The sprites' table on a line; on a line to come, the one that is set.
TableOn(l) == IF l <= scanline THEN tables[l] ELSE ctrl.sprites

\* The tables in which a sprite's row v is drawn: on the first line from its Y
\* on that draws this row, and on those after it that reach that far.
TablesOf(n, v) ==
  LET first == SpriteY(n) + ((v - SpriteY(n)) % TILE)
      again == { l \in SpriteY(n) .. SpriteY(n) + ctrl.height : l <= LAST_LINE /\ l % TILE = v }
  IN  { TableOn(l) : l \in {first} \cup again }

\* The colours of the sprites that have one at p.
SpritesAt(p, behind) ==
  LET u(n) == p[1] - SpriteX(n)
      v(n) == p[2] - SpriteY(n) - 1
  IN  { SpriteIndex(s[1], s[2], u(s[2]), v(s[2])) :
          s \in { x \in {0, 1} \X (0 .. SPRITES - 1) :
                  /\ Behind(x[2]) = behind
                  /\ u(x[2]) \in 0 .. TILE - 1 /\ v(x[2]) \in 0 .. TILE - 1
                  /\ x[1] \in TablesOf(x[2], v(x[2]))
                  /\ SpriteColor(x[1], x[2], u(x[2]), v(x[2])) # 0 } }

Expected(p) ==
  IF mask.sprites /\ SpritesAt(p, FALSE) # {} THEN SpritesAt(p, FALSE)
  ELSE IF mask.background /\ PlayfieldAt(p) # Clear THEN {PlayfieldAt(p)}
  ELSE IF mask.sprites /\ SpritesAt(p, TRUE) # {} THEN SpritesAt(p, TRUE)
  ELSE {0}

\* If the game left its sprites where they are, and as high, while the picture
\* was drawn, however it scrolled and changed nametables and the patterns of
\* playfield and sprites, and whatever the pictures before were, what is put on
\* the screen is, everywhere: a sprite in front; else the playfield, scrolled
\* and with the patterns as they were for that line; else a sprite behind; else
\* the backdrop.  All rows of a sprite are there although they are drawn in
\* another order than the lines; one drawn from both tables shows pixels of both.
PictureIsRight ==
  scanline = LAST_LINE - 1 /\ ~moved /\ spilled = "none" =>
    \A p \in Screen :
      Composed(p, SpritesDrawn(bbg, LAST_LINE, TRUE), BackgroundDrawn(LAST_LINE),
               SpritesDrawn(fg, LAST_LINE, FALSE)) \in Expected(p)

\* The buffers, whose room is not checked, hold every picture but one in which
\* the playfield is scrolled far to the left (in the code by more than 35
\* pixels), or one whose sprites are moved while it is drawn.
BuffersHold ==
  /\ spilled = "background" =>
       \E l \in Lines : (WIDTH + rows[l].scroll) * (HEIGHT - 1) > CAPACITY
  /\ spilled = "sprites" => moved

\* A sprite-0 hit, noted or seen by the game, is that of a pixel of sprite 0, of
\* the row this line draws, and a pixel of the playfield of the same colour at
\* the same place, in one of the nametables and of the pattern tables (in which
\* is unknown, and whether it is shown); or at the place that shares its memory,
\* for the array has fewer rows than lines are drawn: in the column before for
\* the first rows, in the column after for a sprite that is below the screen.
HitIsReal ==
  [][(hit' /\ ~hit) \/ (sprite0' /\ ~sprite0) =>
       \E u \in 0 .. TILE - 1, k \in {0, 1}, t \in 0 .. 4, c \in -1 .. 1 :
         LET v == RowDrawn(0, scanline + 1)
             x == SpriteX(0) + u + c
             y == SpriteY(0) + v - c * ROWS
             color == SpriteColor(ctrl.sprites, 0, u, v)
         IN  /\ color # 0
             /\ x \in 0 .. WIDTH - 1 /\ y \in 0 .. LAST_LINE
             /\ ColorAt(k, t, x, y) = color]_vars
=============================================================================

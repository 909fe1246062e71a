---------------------------- MODULE RenderProofs ----------------------------
(***************************************************************************)
(* Proofs about Render, for any sizes, nametables, patterns and writes.    *)
(*                                                                         *)
(* That the buffers hold is a question of counting.  PlayfieldCount bounds *)
(* the playfield by any bound on the width of the lines drawn so far,      *)
(* times their number.  SpriteCount compares the sprites' pixels with the  *)
(* set of all places that sprites have had on the lines so far (Painted),  *)
(* which, while the sprites stay where they are, is part of a box.         *)
(*                                                                         *)
(* That a hit is real rests on what the noted colours are (SeenInv): of    *)
(* each, a place of a nametable that lies in memory where it does, and a   *)
(* pattern table in which it has this colour.                              *)
(*                                                                         *)
(* That the picture is right rests on what each buffer holds half-way: of  *)
(* the playfield, what the lines drawn so far show (PlayfieldInv); at each *)
(* place, one of the sprites that had a pixel there on a line drawn so     *)
(* far, in the table of that line (SpriteInv); after the last line these   *)
(* are all that have one, for every row has its line (RowIsDrawn).         *)
(***************************************************************************)
EXTENDS Render, FiniteSetTheorems, WellFoundedInduction, TLAPS

NatLess == {ss \in Nat \X Nat : ss[1] < ss[2]}

\* A set of small numbers has a largest one.
LEMMA Largest ==
  ASSUME NEW N \in Nat, NEW S \in SUBSET (0 .. N), S # {}
  PROVE  \E n \in S : \A k \in S : k <= n
<1>1. IsWellFoundedOn(OpToRel(<, Nat), Nat)
  BY NatLessThanWellFounded
<1>2. OpToRel(<, Nat) = NatLess
  BY DEF OpToRel, NatLess
<1> DEFINE T == {N - n : n \in S}
<1>3. T \subseteq Nat /\ T # {}
  <2>1. \A n \in S : N - n \in Nat
    OBVIOUS
  <2>2. PICK n \in S : TRUE
    OBVIOUS
  <2>3. N - n \in T
    BY <2>2
  <2> QED
    BY <2>1, <2>3
<1>4. PICK x \in T : \A y \in T : ~ (<<y, x>> \in NatLess)
  BY <1>1, <1>2, <1>3, WFMin
<1>5. PICK n \in S : x = N - n
  OBVIOUS
<1>6. ASSUME NEW k \in S PROVE k <= n
  <2>1. ~ (<<N - k, x>> \in NatLess)
    BY <1>4
  <2>2. ~ (N - k < x)
    BY <2>1, <1>3 DEF NatLess
  <2> QED
    BY <2>2, <1>5
<1> QED
  BY <1>6

-----------------------------------------------------------------------------
(* Types.                                                                  *)

RegTypeOK ==
  /\ scanline \in -1 .. LAST_LINE - 1
  /\ mask \in Masks \cup {MaskOff}
  /\ ctrl \in Ctrls \cup {CtrlOff}
  /\ scroll \in Scrolls
  /\ oamaddr \in OamBytes /\ oam \in [OamBytes -> 0 .. 255]

Seen == [0 .. (WIDTH + TILE) * ROWS - 1 -> 0 .. 3]

PictureTypeOK ==
  /\ bbg \in Buffer /\ bg \in Buffer /\ fg \in Buffer
  /\ seen \in Seen
  /\ hit \in BOOLEAN /\ sprite0 \in BOOLEAN

HistoryTypeOK ==
  /\ moved \in BOOLEAN
  /\ spilled \in {"none", "background", "sprites"}
  /\ rows \in [Lines -> Drawn] /\ tables \in [0 .. LAST_LINE - 1 -> {0, 1}]
  /\ writes \in 0 .. MAX_WRITES

LEMMA TypeParts == TypeOK <=> RegTypeOK /\ PictureTypeOK /\ HistoryTypeOK
BY DEF TypeOK, RegTypeOK, PictureTypeOK, HistoryTypeOK, Seen

LEMMA RegFacts ==
  ASSUME RegTypeOK
  PROVE  /\ ctrl.base \in 0 .. 3 /\ ctrl.height \in {TILE, 2 * TILE}
         /\ ctrl.playfield \in {0, 1} /\ ctrl.sprites \in {0, 1}
         /\ mask.background \in BOOLEAN /\ mask.sprites \in BOOLEAN /\ mask.left \in BOOLEAN
         /\ scroll \in 0 .. WIDTH - 1
         /\ DrawnAs \in Drawn
<1>1. /\ ctrl.base \in 0 .. 3 /\ ctrl.height \in {TILE, 2 * TILE}
      /\ ctrl.playfield \in {0, 1} /\ ctrl.sprites \in {0, 1}
  BY GameAssumption DEF RegTypeOK, CtrlOff
<1>2. mask.background \in BOOLEAN /\ mask.sprites \in BOOLEAN /\ mask.left \in BOOLEAN
  <2>1. mask \in [background : BOOLEAN, sprites : BOOLEAN, left : BOOLEAN]
    <3>1. MaskOff \in [background : BOOLEAN, sprites : BOOLEAN, left : BOOLEAN]
      BY Zenon DEF MaskOff
    <3>2. Masks \subseteq [background : BOOLEAN, sprites : BOOLEAN, left : BOOLEAN]
      BY GameAssumption
    <3> QED
      BY <3>1, <3>2 DEF RegTypeOK
  <2> QED
    BY <2>1
<1>3. scroll \in 0 .. WIDTH - 1
  BY GameAssumption DEF RegTypeOK
<1>4. DrawnAs \in Drawn
  BY <1>1, <1>2 DEF DrawnAs, Drawn, NotDrawn, RegTypeOK
<1> QED
  BY <1>1, <1>2, <1>3, <1>4

\* A subset of an interval is finite, and no larger.
LEMMA SmallSet ==
  ASSUME NEW n \in Nat, NEW S \in SUBSET (0 .. n - 1)
  PROVE  IsFiniteSet(S) /\ Cardinality(S) \in Nat /\ Cardinality(S) <= n
<1>1. IsFiniteSet(0 .. n - 1) /\ Cardinality(0 .. n - 1) = n
  BY FS_Interval
<1> QED
  BY <1>1, FS_Subset, FS_CardinalityType

\* What one line adds to the playfield: no more than the screen is wide, and
\* what was scrolled off.
LEMMA AddedBound ==
  ASSUME RegTypeOK, NEW l \in 0 .. LAST_LINE
  PROVE  /\ Cardinality(AddedColumns(0, l)) \in Nat
         /\ Cardinality(AddedColumns(1, l)) \in Nat
         /\ Cardinality(AddedColumns(0, l)) + Cardinality(AddedColumns(1, l)) <= WIDTH + scroll
         /\ l + 1 >= HEIGHT => /\ Cardinality(AddedColumns(0, l)) = 0
                               /\ Cardinality(AddedColumns(1, l)) = 0
<1>1. scroll \in 0 .. WIDTH - 1 /\ WIDTH \in Nat /\ HEIGHT \in Nat
  BY RegFacts, SizesAssumption
<1>2. AddedColumns(0, l) \in SUBSET (0 .. WIDTH - 1)
  BY DEF AddedColumns, DrawnColumns
<1>3. AddedColumns(1, l) \in SUBSET (0 .. scroll - 1)
  <2> SUFFICES ASSUME NEW u \in AddedColumns(1, l) PROVE u \in 0 .. scroll - 1
    OBVIOUS
  <2>1. u \in 0 .. WIDTH - 1 /\ u - scroll + WIDTH * 1 < WIDTH
    <3>1. u \in DrawnColumns(1, l) /\ u - scroll + WIDTH * 1 < WIDTH
      BY DEF AddedColumns
    <3> QED
      BY <3>1 DEF DrawnColumns
  <2> QED
    BY <1>1, <2>1
<1>4. ASSUME l + 1 >= HEIGHT PROVE AddedColumns(0, l) = {} /\ AddedColumns(1, l) = {}
  BY <1>1, <1>4 DEF AddedColumns
<1>5. /\ Cardinality(AddedColumns(0, l)) \in Nat
      /\ Cardinality(AddedColumns(0, l)) <= WIDTH
  BY <1>1, <1>2, SmallSet
<1>6. /\ Cardinality(AddedColumns(1, l)) \in Nat
      /\ Cardinality(AddedColumns(1, l)) <= scroll
  BY <1>1, <1>3, SmallSet
<1>7. ASSUME l + 1 >= HEIGHT
      PROVE  Cardinality(AddedColumns(0, l)) = 0 /\ Cardinality(AddedColumns(1, l)) = 0
  BY <1>4, <1>7, FS_EmptySet
<1> QED
  BY <1>1, <1>5, <1>6, <1>7

\* The playfield's buffer after a line.
LEMMA BackgroundType ==
  ASSUME RegTypeOK, bg \in Buffer, NEW l \in 0 .. LAST_LINE
  PROVE  /\ BackgroundDrawn(l) \in Buffer
         /\ \E added \in Nat : /\ BackgroundDrawn(l).size = bg.size + added
                               /\ added <= WIDTH + scroll
         /\ l + 1 >= HEIGHT => BackgroundDrawn(l).size = bg.size
<1>0. bg.size \in Nat /\ bg.layer \in [Screen -> Clear .. 31]
  BY DEF Buffer
<1>1. CASE ~mask.background
  <2>1. BackgroundDrawn(l) = bg
    BY <1>1 DEF BackgroundDrawn
  <2>2. BackgroundDrawn(l).size = bg.size + 0 /\ 0 \in Nat /\ 0 <= WIDTH + scroll
    BY <1>0, <2>1, RegFacts, SizesAssumption
  <2> QED
    BY <2>1, <2>2
<1>2. CASE mask.background
  <2> DEFINE added == [m \in {0, 1} |-> AddedColumns(m, l)]
             column(p) == p[1] + scroll
             pass(p) == IF column(p) < WIDTH THEN 0 ELSE 1
             u(p) == column(p) - WIDTH * pass(p)
             layer == [ p \in Screen |->
                          IF p[2] = l + 1 /\ u(p) \in added[pass(p)]
                          THEN IndexAt(ctrl.playfield, ctrl.base + pass(p), u(p), l)
                          ELSE bg.layer[p] ]
             size == bg.size + Cardinality(added[0]) + Cardinality(added[1])
  <2>1. BackgroundDrawn(l) = [size |-> size, layer |-> layer]
    BY <1>2 DEF BackgroundDrawn
  <2>2. added[0] = AddedColumns(0, l) /\ added[1] = AddedColumns(1, l)
    OBVIOUS
  <2>3. /\ size \in Nat
        /\ \E more \in Nat : size = bg.size + more /\ more <= WIDTH + scroll
        /\ l + 1 >= HEIGHT => size = bg.size
    BY <1>0, <2>2, AddedBound, RegFacts, SizesAssumption
  <2>4. layer \in [Screen -> Clear .. 31]
    <3> SUFFICES ASSUME NEW p \in Screen, u(p) \in added[pass(p)]
                 PROVE  IndexAt(ctrl.playfield, ctrl.base + pass(p), u(p), l) \in Clear .. 31
      BY <1>0
    <3>1. pass(p) \in {0, 1}
      OBVIOUS
    <3>2. u(p) \in 0 .. WIDTH - 1
      BY <3>1 DEF AddedColumns, DrawnColumns
    <3>3. ctrl.base + pass(p) \in 0 .. 4 /\ ctrl.playfield \in {0, 1}
      BY <3>1, RegFacts
    <3> HIDE DEF pass, u
    <3>4. /\ Cell(ctrl.base + pass(p), u(p), l).attr \in 0 .. 3
          /\ ColorAt(ctrl.playfield, ctrl.base + pass(p), u(p), l) \in 0 .. 3
      BY <3>2, <3>3, DataAssumption
    <3> QED
      BY <3>4 DEF IndexAt, Clear
  <2> HIDE DEF size, layer
  <2> QED
    BY <2>1, <2>3, <2>4 DEF Buffer
<1> QED
  BY <1>1, <1>2

LEMMA RowType == \A l \in 0 .. LAST_LINE, n \in Nat : RowDrawn(n, l) \in 0 .. TILE - 1
BY SizesAssumption DEF RowDrawn

LEMMA SpriteBytes ==
  ASSUME RegTypeOK, NEW n \in 0 .. SPRITES - 1
  PROVE  /\ SpriteY(n) \in 0 .. 255 /\ SpriteTile(n) \in 0 .. 255 /\ SpriteX(n) \in 0 .. 255
         /\ oam[4 * n + 2] \in 0 .. 255
<1>1. /\ 4 * n \in OamBytes /\ 4 * n + 1 \in OamBytes /\ 4 * n + 2 \in OamBytes
      /\ 4 * n + 3 \in OamBytes
  BY SizesAssumption DEF OamBytes
<1> QED
  BY <1>1 DEF RegTypeOK, SpriteY, SpriteTile, SpriteX

LEMMA PatternType ==
  ASSUME NEW k \in {0, 1}, NEW tile \in 0 .. 255, NEW a \in 0 .. TILE - 1, NEW b \in 0 .. TILE - 1
  PROVE  Pattern[k][tile][<<a, b>>] \in 0 .. 3
BY DataAssumption

LEMMA SpriteIndexType ==
  ASSUME RegTypeOK, NEW k \in {0, 1}, NEW n \in 0 .. SPRITES - 1,
         NEW u \in 0 .. TILE - 1, NEW v \in 0 .. TILE - 1
  PROVE  SpriteColor(k, n, u, v) \in 0 .. 3 /\ SpriteIndex(k, n, u, v) \in Clear .. 31
<1>1. SpriteColor(k, n, u, v) \in 0 .. 3
  <2> DEFINE x == IF HFlip(n) THEN TILE - 1 - u ELSE u
             y == IF VFlip(n) THEN TILE - 1 - v ELSE v
  <2>1. x \in 0 .. TILE - 1 /\ y \in 0 .. TILE - 1
    BY SizesAssumption
  <2>2. SpriteColor(k, n, u, v) = Pattern[k][SpriteTile(n)][<<x, y>>]
    BY DEF SpriteColor
  <2>3. SpriteTile(n) \in 0 .. 255
    BY SpriteBytes
  <2> HIDE DEF x, y
  <2>4. Pattern[k][SpriteTile(n)][<<x, y>>] \in 0 .. 3
    BY <2>1, <2>3, PatternType
  <2> QED
    BY <2>2, <2>4
<1>2. oam[4 * n + 2] % 4 \in 0 .. 3
  BY SpriteBytes
<1> QED
  BY <1>1, <1>2 DEF SpriteIndex, Clear

LEMMA PixelsFinite ==
  ASSUME RegTypeOK, NEW l \in 0 .. LAST_LINE, NEW behind \in BOOLEAN
  PROVE  IsFiniteSet(SpritePixels(l, behind)) /\ Cardinality(SpritePixels(l, behind)) \in Nat
<1>1. IsFiniteSet((0 .. SPRITES - 1) \X (0 .. TILE - 1))
  <2>1. IsFiniteSet(0 .. SPRITES - 1) /\ IsFiniteSet(0 .. TILE - 1)
    BY SizesAssumption, FS_Interval
  <2> QED
    BY <2>1, FS_Product
<1>2. SpritePixels(l, behind) \in SUBSET ((0 .. SPRITES - 1) \X (0 .. TILE - 1))
  BY DEF SpritePixels, OnLine
<1> QED
  BY <1>1, <1>2, FS_Subset, FS_CardinalityType

\* A buffer of sprites after a line.
LEMMA SpritesType ==
  ASSUME RegTypeOK, NEW buf \in Buffer, NEW l \in 0 .. LAST_LINE, NEW behind \in BOOLEAN
  PROVE  /\ SpritesDrawn(buf, l, behind) \in Buffer
         /\ SpritesDrawn(buf, l, behind).size <=
              buf.size + Cardinality(SpritePixels(l, behind))
<1>0. buf.size \in Nat /\ buf.layer \in [Screen -> Clear .. 31]
  BY DEF Buffer
<1>1. CASE ~mask.sprites
  <2>1. SpritesDrawn(buf, l, behind) = buf
    BY <1>1 DEF SpritesDrawn
  <2> QED
    BY <1>0, <2>1, PixelsFinite
<1>2. CASE mask.sprites
  <2> DEFINE pixels == SpritePixels(l, behind)
             there(p) == { n \in OnLine(l) : /\ <<n, p[1] - SpriteX(n)>> \in pixels
                                             /\ p[2] = SpriteY(n) + RowDrawn(n, l) + 1 }
             last(p) == CHOOSE n \in there(p) : \A k \in there(p) : k <= n
             layer == [ p \in Screen |->
                          IF there(p) = {} THEN buf.layer[p]
                          ELSE SpriteIndex(ctrl.sprites, last(p), p[1] - SpriteX(last(p)),
                                           RowDrawn(last(p), l)) ]
             size == buf.size + Cardinality(pixels)
  <2>1. SpritesDrawn(buf, l, behind) = [size |-> size, layer |-> layer]
    BY <1>2 DEF SpritesDrawn
  <2>2. layer \in [Screen -> Clear .. 31]
    <3> SUFFICES ASSUME NEW p \in Screen, there(p) # {}
                 PROVE  SpriteIndex(ctrl.sprites, last(p), p[1] - SpriteX(last(p)),
                                    RowDrawn(last(p), l))
                          \in Clear .. 31
      BY <1>0
    <3>1. there(p) \in SUBSET (0 .. SPRITES - 1)
      BY DEF OnLine
    <3>2. there(p) \in SUBSET (0 .. SPRITES)
      BY <3>1, SizesAssumption
    <3>3. \E n \in there(p) : \A k \in there(p) : k <= n
      <4> HIDE DEF there
      <4> QED
        BY <3>2, Largest, SizesAssumption
    <3>4. last(p) \in there(p)
      <4> HIDE DEF there
      <4> QED
        BY <3>3
    <3>5. last(p) \in 0 .. SPRITES - 1 /\ <<last(p), p[1] - SpriteX(last(p))>> \in pixels
      <4> HIDE DEF pixels, last
      <4> QED
        BY <3>1, <3>4
    <3>6. p[1] - SpriteX(last(p)) \in 0 .. TILE - 1
      <4> HIDE DEF last
      <4> QED
        BY <3>5 DEF SpritePixels
    <3>7. RowDrawn(last(p), l) \in 0 .. TILE - 1
      BY <3>5, RowType
    <3> HIDE DEF last
    <3> QED
      BY <3>5, <3>6, <3>7, SpriteIndexType, RegFacts
  <2> HIDE DEF layer
  <2>3. size \in Nat
    BY <1>0, PixelsFinite
  <2> HIDE DEF size
  <2>4. [size |-> size, layer |-> layer] \in Buffer
    BY <2>2, <2>3 DEF Buffer
  <2>5. size <= buf.size + Cardinality(pixels)
    BY <1>0, PixelsFinite DEF size
  <2> QED
    BY <2>1, <2>4, <2>5
<1> QED
  BY <1>1, <1>2

LEMMA SeenType ==
  ASSUME RegTypeOK, seen \in Seen, NEW l \in 0 .. LAST_LINE
  PROVE  SeenDrawn(l) \in Seen
<1>1. CASE ~mask.background
  BY <1>1 DEF SeenDrawn
<1>2. CASE mask.background
  <2> DEFINE drawn == [m \in {0, 1} |-> DrawnColumns(m, l)]
             u(i) == (i - l) \div ROWS
             value(i) == IF i < l \/ (i - l) % ROWS # 0 THEN seen[i]
                         ELSE IF u(i) \in drawn[1] THEN Color(1, u(i), l)
                         ELSE IF u(i) \in drawn[0] THEN Color(0, u(i), l)
                         ELSE seen[i]
  <2>1. SeenDrawn(l) = [i \in DOMAIN seen |-> value(i)]
    BY <1>2 DEF SeenDrawn
  <2>2. ASSUME NEW m \in {0, 1}, NEW w \in drawn[m] PROVE Color(m, w, l) \in 0 .. 3
    <3>1. w \in 0 .. WIDTH - 1 /\ ctrl.base + m \in 0 .. 4 /\ ctrl.playfield \in {0, 1}
      BY RegFacts DEF DrawnColumns
    <3> QED
      BY <3>1, DataAssumption DEF Color
  <2>3. ASSUME NEW i \in DOMAIN seen PROVE value(i) \in 0 .. 3
    <3>1. seen[i] \in 0 .. 3
      BY DEF Seen
    <3> HIDE DEF u, drawn
    <3> QED
      BY <2>2, <3>1
  <2> HIDE DEF value
  <2> QED
    BY <2>1, <2>3 DEF Seen
<1> QED
  BY <1>1, <1>2

-----------------------------------------------------------------------------
(* Every step keeps the types.                                             *)

LEMMA InitTypes == Init => TypeOK
<1> SUFFICES ASSUME Init PROVE TypeOK
  OBVIOUS
<1>1. RegTypeOK
  <2>1. 0 \in OamBytes
    BY SizesAssumption DEF OamBytes
  <2>2. oam \in [OamBytes -> 0 .. 255]
    BY DEF Init
  <2>3. scanline \in -1 .. LAST_LINE - 1
    BY SizesAssumption DEF Init
  <2> QED
    BY <2>1, <2>2, <2>3, GameAssumption DEF Init, RegTypeOK
<1>2. Empty \in Buffer
  BY DEF Empty, Buffer, Clear
<1>3. PictureTypeOK
  <2>1. seen \in Seen
    BY DEF Init, Seen
  <2> QED
    BY <1>2, <2>1 DEF Init, PictureTypeOK
<1>4. HistoryTypeOK
  <2>1. rows \in [Lines -> Drawn]
    BY DEF Init, Drawn
  <2>2. 0 \in 0 .. MAX_WRITES
    BY SizesAssumption
  <2>3. tables \in [0 .. LAST_LINE - 1 -> {0, 1}]
    BY DEF Init, NoTables
  <2> QED
    BY <2>1, <2>2, <2>3 DEF Init, HistoryTypeOK
<1> QED
  BY <1>1, <1>3, <1>4, TypeParts

LEMMA RegStep ==
  ASSUME RegTypeOK, [Next]_vars
  PROVE  RegTypeOK'
<1>1. CASE Line
  <2>1. scanline' = scanline + 1 /\ scanline + 1 < LAST_LINE /\ UNCHANGED registers
    BY <1>1 DEF Line
  <2>2. scanline' \in -1 .. LAST_LINE - 1
    BY <2>1, SizesAssumption DEF RegTypeOK
  <2> QED
    BY <2>1, <2>2 DEF registers, RegTypeOK
<1>2. CASE LastLine
  BY <1>2, SizesAssumption DEF LastLine, registers, RegTypeOK
<1>3. CASE WriteScroll
  BY <1>3 DEF WriteScroll, Write, RegTypeOK
<1>4. CASE WriteMask
  BY <1>4 DEF WriteMask, Write, RegTypeOK
<1>5. CASE WriteCtrl
  BY <1>5 DEF WriteCtrl, Write, RegTypeOK
<1>6. CASE WriteOamAddr
  BY <1>6, GameAssumption DEF WriteOamAddr, Write, RegTypeOK
<1>7. ASSUME NEW page \in OamPages, Dma(page) PROVE RegTypeOK'
  <2>1. page \in [OamBytes -> 0 .. 255]
    BY GameAssumption
  <2>2. ASSUME NEW i \in OamBytes PROVE (i - oamaddr) % (4 * SPRITES) \in OamBytes
    BY SizesAssumption DEF OamBytes, RegTypeOK
  <2>3. oam' \in [OamBytes -> 0 .. 255]
    BY <1>7, <2>1, <2>2 DEF Dma
  <2> QED
    BY <1>7, <2>3 DEF Dma, Write, RegTypeOK
<1>8. CASE Insert
  <2>1. 0 \in OamBytes
    BY SizesAssumption DEF OamBytes, RegTypeOK
  <2> QED
    BY <1>8, <2>1, GameAssumption DEF Insert, Write, RegTypeOK
<1>9. CASE ReadStatus \/ UNCHANGED vars
  BY <1>9 DEF ReadStatus, vars, registers, RegTypeOK
<1> QED
  BY <1>1, <1>2, <1>3, <1>4, <1>5, <1>6, <1>7, <1>8, <1>9 DEF Next

\* The line that is drawn next.
LEMMA NextLine ==
  ASSUME RegTypeOK
  PROVE  /\ Line => scanline' = scanline + 1 /\ scanline' \in 0 .. LAST_LINE
         /\ LAST_LINE \in 0 .. LAST_LINE
<1>1. scanline \in -1 .. LAST_LINE - 1 /\ LAST_LINE \in Nat
  BY SizesAssumption DEF RegTypeOK
<1>2. Line => scanline' = scanline + 1 /\ scanline + 1 < LAST_LINE
  BY DEF Line
<1> QED
  BY <1>1, <1>2

LEMMA PictureStep ==
  ASSUME RegTypeOK, PictureTypeOK, [Next]_vars
  PROVE  PictureTypeOK'
<1>1. CASE Line
  <2>1. scanline' \in 0 .. LAST_LINE
    BY <1>1, NextLine
  <2>2. bg' \in Buffer
    BY <1>1, <2>1, BackgroundType DEF Line, PictureTypeOK
  <2>3. bbg' \in Buffer /\ fg' \in Buffer
    BY <1>1, <2>1, SpritesType DEF Line, PictureTypeOK
  <2>4. seen' \in Seen
    BY <1>1, <2>1, SeenType DEF Line, PictureTypeOK
  <2>5. hit' \in BOOLEAN /\ sprite0' \in BOOLEAN
    BY <1>1, Zenon DEF Line
  <2> QED
    BY <2>2, <2>3, <2>4, <2>5 DEF PictureTypeOK
<1>2. CASE LastLine
  <2>1. Empty \in Buffer
    BY DEF Empty, Buffer, Clear
  <2>2. seen' \in Seen
    BY <1>2, NextLine, SeenType DEF LastLine, PictureTypeOK
  <2>3. hit' \in BOOLEAN /\ sprite0' \in BOOLEAN
    BY <1>2, Zenon DEF LastLine
  <2> QED
    BY <1>2, <2>1, <2>2, <2>3 DEF LastLine, PictureTypeOK
<1>3. CASE UNCHANGED <<buffers, seen, hit>> /\ (UNCHANGED sprite0 \/ sprite0' = FALSE)
  BY <1>3 DEF buffers, PictureTypeOK
<1> QED
  BY <1>1, <1>2, <1>3
     DEF Next, Write, WriteScroll, WriteMask, WriteCtrl, WriteOamAddr, Dma, Insert,
         ReadStatus, vars

LEMMA HistoryStep ==
  ASSUME RegTypeOK, HistoryTypeOK, [Next]_vars
  PROVE  HistoryTypeOK'
<1>1. CASE Line
  <2>1. rows' \in [Lines -> Drawn]
    BY <1>1, RegFacts DEF Line, HistoryTypeOK
  <2>2. spilled' \in {"none", "background", "sprites"}
    BY <1>1 DEF Line, Spill
  <2>3. tables' \in [0 .. LAST_LINE - 1 -> {0, 1}]
    BY <1>1, RegFacts DEF Line, HistoryTypeOK
  <2> QED
    BY <1>1, <2>1, <2>2, <2>3 DEF Line, HistoryTypeOK
<1>2. CASE LastLine
  <2>1. rows' \in [Lines -> Drawn]
    BY <1>2 DEF LastLine, Drawn
  <2>2. spilled' \in {"none", "background", "sprites"}
    BY <1>2 DEF LastLine, Spill
  <2>3. moved' \in BOOLEAN
    BY <1>2, Zenon DEF LastLine, HistoryTypeOK
  <2>4. tables' \in [0 .. LAST_LINE - 1 -> {0, 1}]
    BY <1>2 DEF LastLine, NoTables
  <2> QED
    BY <1>2, <2>1, <2>2, <2>3, <2>4, SizesAssumption DEF LastLine, HistoryTypeOK
<1>3. CASE Write
  <2>1. writes' \in 0 .. MAX_WRITES /\ UNCHANGED <<spilled, rows, tables>>
    BY <1>3, SizesAssumption DEF Write, HistoryTypeOK
  <2>2. CASE UNCHANGED moved \/ moved' = TRUE
    BY <2>1, <2>2 DEF HistoryTypeOK
  <2>3. CASE WriteMask
    <3>1. moved' \in BOOLEAN
      BY <2>3, Zenon DEF WriteMask, HistoryTypeOK
    <3> QED
      BY <2>1, <3>1 DEF HistoryTypeOK
  <2>4. CASE WriteCtrl
    <3>1. moved' \in BOOLEAN
      BY <2>4, Zenon DEF WriteCtrl, HistoryTypeOK
    <3> QED
      BY <2>1, <3>1 DEF HistoryTypeOK
  <2>5. \/ Line \/ LastLine \/ WriteMask \/ WriteCtrl
        \/ UNCHANGED moved \/ moved' = TRUE
    BY DEF Next, WriteScroll, WriteOamAddr, Dma, Insert, ReadStatus, history, vars
  <2> QED
    BY <1>1, <1>2, <2>2, <2>3, <2>4, <2>5
<1>4. CASE ReadStatus \/ UNCHANGED vars
  BY <1>4 DEF ReadStatus, vars, history, HistoryTypeOK
<1> QED
  BY <1>1, <1>2, <1>3, <1>4
     DEF Next, WriteScroll, WriteMask, WriteCtrl, WriteOamAddr, Dma, Insert

LEMMA TypeStep == TypeOK /\ [Next]_vars => TypeOK'
<1>1. TypeOK' <=> RegTypeOK' /\ PictureTypeOK' /\ HistoryTypeOK'
  BY DEF TypeOK, RegTypeOK, PictureTypeOK, HistoryTypeOK, Seen
<1> QED
  BY <1>1, TypeParts, RegStep, PictureStep, HistoryStep

\* Type correctness: lines, registers, the sprite table, buffers, the colours
\* noted for sprite 0 and the history are what their declarations say.
THEOREM TypeCorrect == Spec => []TypeOK
<1>1. Init => TypeOK
  BY InitTypes
<1>2. TypeOK /\ [Next]_vars => TypeOK'
  BY TypeStep
<1> QED
  BY <1>1, <1>2, PTL DEF Spec

-----------------------------------------------------------------------------
(* Counting.                                                               *)

\* The lines of this picture that can have added to the playfield.
Done == IF scanline < HEIGHT - 1 THEN scanline + 1 ELSE HEIGHT - 1

\* If no line so far was too wide, the playfield has its share of the room.
PlayfieldCount ==
  (\A l \in Lines : l <= scanline => (WIDTH + rows[l].scroll) * (HEIGHT - 1) <= CAPACITY)
    => bg.size * (HEIGHT - 1) <= Done * CAPACITY

Box == ((0 .. SPRITES - 1) \X (0 .. ctrl.height)) \X (0 .. TILE - 1)

\* The places sprites can have had a pixel on the lines so far.
Painted(l) == {x \in Box : SpriteY(x[1][1]) + x[1][2] <= l}
PaintedOn(l) == {x \in Box : SpriteY(x[1][1]) + x[1][2] = l}

SpriteCount ==
  ~moved => /\ bbg.size <= Cardinality(Painted(scanline))
            /\ fg.size <= Cardinality(Painted(scanline))

NoOverfull == spilled = "none" => ~Overfull(bbg) /\ ~Overfull(bg) /\ ~Overfull(fg)

IInv == TypeOK /\ PlayfieldCount /\ SpriteCount /\ NoOverfull /\ BuffersHold

LEMMA Share ==
  ASSUME NEW size \in Nat, NEW added \in Nat, NEW done \in Nat, NEW h \in Nat, NEW c \in Nat,
         NEW width \in Nat, added <= width, width * h <= c, size * h <= done * c
  PROVE  (size + added) * h <= (done + 1) * c
<1>1. added * h <= width * h
  OBVIOUS
<1>2. (size + added) * h = size * h + added * h
  OBVIOUS
<1>3. (done + 1) * c = done * c + c
  OBVIOUS
<1> QED
  BY <1>1, <1>2, <1>3

LEMMA Fits ==
  ASSUME NEW size \in Nat, NEW done \in Nat, NEW h \in Nat \ {0}, NEW c \in Nat,
         done <= h, size * h <= done * c
  PROVE  size <= c
<1>1. done * c <= h * c
  OBVIOUS
<1>2. size * h <= c * h
  BY <1>1
<1> QED
  BY <1>2

LEMMA Scaled ==
  ASSUME NEW a \in Nat, NEW b \in Nat, NEW c \in Nat, a <= b
  PROVE  a * c <= b * c /\ c * a <= c * b
OBVIOUS

LEMMA BoxSize ==
  ASSUME RegTypeOK
  PROVE  IsFiniteSet(Box) /\ Cardinality(Box) \in Nat /\ Cardinality(Box) <= CAPACITY
<1>1. TILE \in Nat /\ SPRITES \in Nat /\ SPRITES * (2 * TILE + 1) * TILE <= CAPACITY
  BY SizesAssumption
<1>2. ctrl.height \in {TILE, 2 * TILE}
  BY RegFacts
<1>3. IsFiniteSet(0 .. SPRITES - 1) /\ Cardinality(0 .. SPRITES - 1) = SPRITES
  BY <1>1, FS_Interval
<1>4. IsFiniteSet(0 .. ctrl.height) /\ Cardinality(0 .. ctrl.height) = ctrl.height + 1
  <2>1. ctrl.height \in Nat
    BY <1>1, <1>2
  <2> QED
    BY <2>1, FS_Interval
<1>5. IsFiniteSet(0 .. TILE - 1) /\ Cardinality(0 .. TILE - 1) = TILE
  BY <1>1, FS_Interval
<1>6. /\ IsFiniteSet((0 .. SPRITES - 1) \X (0 .. ctrl.height))
      /\ Cardinality((0 .. SPRITES - 1) \X (0 .. ctrl.height)) = SPRITES * (ctrl.height + 1)
  BY <1>3, <1>4, FS_Product
<1>7. IsFiniteSet(Box) /\ Cardinality(Box) = (SPRITES * (ctrl.height + 1)) * TILE
  <2> DEFINE places == (0 .. SPRITES - 1) \X (0 .. ctrl.height)
             columns == 0 .. TILE - 1
  <2>1. /\ IsFiniteSet(places) /\ Cardinality(places) = SPRITES * (ctrl.height + 1)
        /\ IsFiniteSet(columns) /\ Cardinality(columns) = TILE
    BY <1>5, <1>6
  <2>2. Box = places \X columns
    BY DEF Box
  <2> HIDE DEF places, columns
  <2>3. /\ IsFiniteSet(places \X columns)
        /\ Cardinality(places \X columns) = Cardinality(places) * Cardinality(columns)
    BY <2>1, FS_Product
  <2> QED
    BY <2>1, <2>2, <2>3
<1>8. (SPRITES * (ctrl.height + 1)) * TILE <= SPRITES * (2 * TILE + 1) * TILE
  <2>1. ctrl.height + 1 \in Nat /\ ctrl.height + 1 <= 2 * TILE + 1
    BY <1>1, <1>2
  <2>2. SPRITES * (ctrl.height + 1) <= SPRITES * (2 * TILE + 1)
    BY <1>1, <2>1, Scaled
  <2> QED
    BY <1>1, <2>1, <2>2, Scaled
<1>9. Cardinality(Box) \in Nat
  BY <1>7, FS_CardinalityType
<1> HIDE DEF Box
<1> QED
  BY <1>1, <1>7, <1>8, <1>9, SizesAssumption

LEMMA PaintedGrows ==
  ASSUME RegTypeOK, NEW l \in -1 .. LAST_LINE
  PROVE  /\ IsFiniteSet(Painted(l)) /\ IsFiniteSet(PaintedOn(l + 1))
         /\ Cardinality(Painted(l)) \in Nat /\ Cardinality(PaintedOn(l + 1)) \in Nat
         /\ Cardinality(Painted(l + 1)) =
              Cardinality(Painted(l)) + Cardinality(PaintedOn(l + 1))
         /\ Cardinality(Painted(l)) <= CAPACITY
<1>1. Painted(l) \in SUBSET Box /\ PaintedOn(l + 1) \in SUBSET Box
  BY DEF Painted, PaintedOn
<1>2. IsFiniteSet(Painted(l)) /\ Cardinality(Painted(l)) <= Cardinality(Box)
  BY <1>1, BoxSize, FS_Subset
<1>3. IsFiniteSet(PaintedOn(l + 1))
  BY <1>1, BoxSize, FS_Subset
<1>4. Cardinality(Painted(l)) \in Nat /\ Cardinality(PaintedOn(l + 1)) \in Nat
  BY <1>2, <1>3, FS_CardinalityType
<1>5. ASSUME NEW x \in Box
      PROVE  SpriteY(x[1][1]) + x[1][2] \in Int
  <2>1. x[1][1] \in 0 .. SPRITES - 1 /\ x[1][2] \in 0 .. ctrl.height
    BY DEF Box
  <2>2. SpriteY(x[1][1]) \in 0 .. 255
    BY <2>1, SpriteBytes
  <2>3. x[1][2] \in Int
    BY <2>1
  <2> QED
    BY <2>2, <2>3
<1>6. Painted(l + 1) = Painted(l) \cup PaintedOn(l + 1)
  BY <1>5 DEF Painted, PaintedOn
<1>7. Painted(l) \cap PaintedOn(l + 1) = {}
  BY <1>5 DEF Painted, PaintedOn
<1>8. Cardinality(Painted(l) \cap PaintedOn(l + 1)) = 0
  BY <1>7, FS_EmptySet
<1>9. Cardinality(Painted(l + 1)) =
        Cardinality(Painted(l)) + Cardinality(PaintedOn(l + 1))
          - Cardinality(Painted(l) \cap PaintedOn(l + 1))
  BY <1>2, <1>3, <1>6, FS_Union
<1> QED
  BY <1>2, <1>3, <1>4, <1>8, <1>9, BoxSize, SizesAssumption

\* The pixels of the sprites on a line have a place each.
LEMMA PixelsPainted ==
  ASSUME RegTypeOK, NEW l \in 0 .. LAST_LINE, NEW behind \in BOOLEAN
  PROVE  Cardinality(SpritePixels(l, behind)) <= Cardinality(PaintedOn(l))
<1> DEFINE P == SpritePixels(l, behind)
           place(s) == <<<<s[1], l - SpriteY(s[1])>>, s[2]>>
           f == [s \in P |-> place(s)]
<1>1. ASSUME NEW s \in P
      PROVE  /\ s = <<s[1], s[2]>> /\ s[1] \in 0 .. SPRITES - 1 /\ s[2] \in 0 .. TILE - 1
             /\ SpriteY(s[1]) <= l /\ l <= SpriteY(s[1]) + ctrl.height
  BY DEF SpritePixels, OnLine
<1>2. ASSUME NEW s \in P PROVE place(s) \in PaintedOn(l)
  <2>1. SpriteY(s[1]) \in 0 .. 255 /\ ctrl.height \in Int
    BY <1>1, SpriteBytes, RegFacts, SizesAssumption
  <2>2. l - SpriteY(s[1]) \in 0 .. ctrl.height /\ SpriteY(s[1]) + (l - SpriteY(s[1])) = l
    BY <1>1, <2>1
  <2> HIDE DEF P
  <2> QED
    BY <1>1, <2>2 DEF PaintedOn, Box
<1>3. ASSUME NEW s \in P, NEW t \in P, place(s) = place(t) PROVE s = t
  <2>1. s[1] = t[1] /\ s[2] = t[2]
    BY <1>3
  <2> HIDE DEF P, place
  <2> QED
    BY <1>1, <2>1
<1>4. f \in Injection(P, PaintedOn(l))
  <2> HIDE DEF P, place
  <2>1. f \in [P -> PaintedOn(l)]
    BY <1>2
  <2>2. IsInjective(f)
    BY <1>3 DEF IsInjective
  <2> HIDE DEF f
  <2> QED
    BY <2>1, <2>2 DEF Injection
<1>5. IsFiniteSet(PaintedOn(l))
  <2>1. PaintedOn(l) \in SUBSET Box
    BY DEF PaintedOn
  <2> QED
    BY <2>1, BoxSize, FS_Subset
<1> QED
  <2> HIDE DEF P, f
  <2>1. Cardinality(P) <= Cardinality(PaintedOn(l))
    BY <1>4, <1>5, FS_Injection
  <2> QED
    BY <2>1 DEF P

-----------------------------------------------------------------------------
(* The buffers hold.                                                       *)

LEMMA InitCounts == Init => IInv
<1> SUFFICES ASSUME Init PROVE IInv
  OBVIOUS
<1>1. TypeOK /\ RegTypeOK
  BY InitTypes, TypeParts
<1>2. bg.size = 0 /\ bbg.size = 0 /\ fg.size = 0 /\ scanline = 0 /\ spilled = "none"
  BY DEF Init, Empty
<1>3. PlayfieldCount
  BY <1>2, SizesAssumption DEF PlayfieldCount, Done
<1>4. SpriteCount
  BY <1>1, <1>2, PaintedGrows, SizesAssumption DEF SpriteCount
<1>5. NoOverfull /\ BuffersHold
  BY <1>2, SizesAssumption DEF NoOverfull, Overfull, BuffersHold
<1> QED
  BY <1>1, <1>3, <1>4, <1>5 DEF IInv

LEMMA DrawnScroll ==
  ASSUME NEW row \in Drawn
  PROVE  row.scroll \in Nat
<1>1. CASE row = NotDrawn
  BY <1>1 DEF NotDrawn
<1>2. CASE row.scroll \in Scrolls
  <2>1. \A x \in 0 .. WIDTH - 1 : x \in Nat
    BY SizesAssumption
  <2>2. Scrolls \subseteq 0 .. WIDTH - 1
    BY GameAssumption
  <2> QED
    BY <1>2, <2>1, <2>2
<1> QED
  BY <1>1, <1>2 DEF Drawn

LEMMA PlayfieldStep ==
  ASSUME TypeOK, PlayfieldCount, [Next]_vars
  PROVE  PlayfieldCount'
<1>0. RegTypeOK /\ bg \in Buffer /\ rows \in [Lines -> Drawn] /\ bg.size \in Nat
  BY TypeParts DEF PictureTypeOK, HistoryTypeOK, Buffer
<1>1. CASE Line
  <2> DEFINE Narrow(l) == (WIDTH + rows[l].scroll) * (HEIGHT - 1) <= CAPACITY
  <2> SUFFICES ASSUME \A l \in Lines : l <= scanline' =>
                        (WIDTH + rows'[l].scroll) * (HEIGHT - 1) <= CAPACITY
               PROVE  bg'.size * (HEIGHT - 1) <= Done' * CAPACITY
    BY DEF PlayfieldCount
  <2>1. /\ scanline' = scanline + 1 /\ scanline' \in 0 .. LAST_LINE
        /\ scanline \in -1 .. LAST_LINE - 1
    BY <1>0, <1>1, NextLine DEF RegTypeOK
  <2>2. bg' = BackgroundDrawn(scanline')
    BY <1>1 DEF Line
  <2>3. /\ bg'.size \in Nat
        /\ scanline' + 1 >= HEIGHT => bg'.size = bg.size
    BY <1>0, <2>1, <2>2, BackgroundType DEF Buffer
  <2>4. ASSUME NEW l \in Lines, l <= scanline PROVE rows'[l] = rows[l] /\ l <= scanline'
    BY <1>0, <1>1, <2>1, <2>4 DEF Line, Lines
  <2>5. bg.size * (HEIGHT - 1) <= Done * CAPACITY
    BY <2>4 DEF PlayfieldCount
  <2>6. Done \in Nat /\ HEIGHT - 1 \in Nat /\ CAPACITY \in Nat /\ WIDTH \in Nat
    BY <2>1, SizesAssumption DEF Done
  <2>7. CASE scanline' + 1 >= HEIGHT
    <3>1. Done' = Done \/ Done' = Done + 1
      BY <2>1, SizesAssumption DEF Done
    <3>2. Done * CAPACITY <= Done' * CAPACITY
      BY <2>6, <3>1, Scaled
    <3> QED
      BY <2>3, <2>5, <2>6, <2>7, <3>1, <3>2
  <2>8. CASE scanline' + 1 < HEIGHT
    <3>1. Done' = Done + 1 /\ scanline' \in Lines
      BY <2>1, <2>8, SizesAssumption DEF Done, Lines
    <3>2. rows'[scanline'] = DrawnAs
      BY <1>0, <1>1, <3>1 DEF Line
    <3>3. (WIDTH + DrawnAs.scroll) * (HEIGHT - 1) <= CAPACITY
      BY <2>1, <3>1, <3>2
    <3>4. CASE mask.background
      <4>1. DrawnAs.scroll = scroll /\ scroll \in Nat
        BY <1>0, <3>4, RegFacts, SizesAssumption DEF DrawnAs
      <4>2. (WIDTH + scroll) * (HEIGHT - 1) <= CAPACITY
        BY <3>3, <4>1
      <4>3. PICK added \in Nat : bg'.size = bg.size + added /\ added <= WIDTH + scroll
        BY <1>0, <2>1, <2>2, BackgroundType
      <4>4. (bg.size + added) * (HEIGHT - 1) <= (Done + 1) * CAPACITY
        BY <1>0, <2>5, <2>6, <4>1, <4>2, <4>3, Share
      <4> QED
        BY <3>1, <4>3, <4>4
    <3>5. CASE ~mask.background
      <4>1. bg' = bg
        BY <2>2, <3>5 DEF BackgroundDrawn
      <4>2. Done * CAPACITY <= (Done + 1) * CAPACITY
        BY <2>6, Scaled
      <4> QED
        BY <1>0, <2>5, <2>6, <3>1, <4>1, <4>2
    <3> QED
      BY <3>4, <3>5
  <2> QED
    BY <2>1, <2>7, <2>8, SizesAssumption
<1>2. CASE LastLine
  <2>1. bg'.size = 0 /\ scanline' = -1
    BY <1>2 DEF LastLine, Empty
  <2>2. Done' = 0
    BY <2>1, SizesAssumption DEF Done
  <2> QED
    BY <2>1, <2>2, SizesAssumption DEF PlayfieldCount
<1>3. CASE UNCHANGED <<bg, scanline, rows>>
  BY <1>3 DEF PlayfieldCount, Done
<1> QED
  BY <1>1, <1>2, <1>3
     DEF Next, Write, WriteScroll, WriteMask, WriteCtrl, WriteOamAddr, Dma, Insert,
         ReadStatus, buffers, history, vars

\* A line adds no more sprite pixels than it adds places.
LEMMA SpriteShare ==
  ASSUME RegTypeOK, NEW buf \in Buffer, NEW l \in -1 .. LAST_LINE - 1, NEW behind \in BOOLEAN,
         buf.size <= Cardinality(Painted(l))
  PROVE  /\ SpritesDrawn(buf, l + 1, behind).size \in Nat
         /\ SpritesDrawn(buf, l + 1, behind).size <= Cardinality(Painted(l + 1))
         /\ SpritesDrawn(buf, l + 1, behind).size <= CAPACITY
<1>1. l + 1 \in 0 .. LAST_LINE /\ l \in -1 .. LAST_LINE /\ l + 1 \in -1 .. LAST_LINE
  BY SizesAssumption
<1>2. /\ SpritesDrawn(buf, l + 1, behind) \in Buffer
      /\ SpritesDrawn(buf, l + 1, behind).size <=
           buf.size + Cardinality(SpritePixels(l + 1, behind))
  BY <1>1, SpritesType
<1>3. /\ SpritesDrawn(buf, l + 1, behind).size \in Nat
      /\ buf.size \in Nat
  BY <1>2 DEF Buffer
<1>4. /\ Cardinality(SpritePixels(l + 1, behind)) \in Nat
      /\ Cardinality(SpritePixels(l + 1, behind)) <= Cardinality(PaintedOn(l + 1))
  BY <1>1, PixelsFinite, PixelsPainted
<1>5. /\ Cardinality(Painted(l)) \in Nat /\ Cardinality(PaintedOn(l + 1)) \in Nat
      /\ Cardinality(Painted(l + 1)) =
           Cardinality(Painted(l)) + Cardinality(PaintedOn(l + 1))
  BY <1>1, PaintedGrows
<1>6. Cardinality(Painted(l + 1)) <= CAPACITY
  BY <1>1, PaintedGrows
<1> QED
  BY <1>2, <1>3, <1>4, <1>5, <1>6, SizesAssumption

LEMMA SpriteStep ==
  ASSUME TypeOK, SpriteCount, [Next]_vars
  PROVE  SpriteCount'
<1>0. RegTypeOK /\ bbg \in Buffer /\ fg \in Buffer /\ moved \in BOOLEAN
  BY TypeParts DEF PictureTypeOK, HistoryTypeOK
<1> SUFFICES ASSUME ~moved'
             PROVE  /\ bbg'.size <= Cardinality(Painted(scanline)')
                    /\ fg'.size <= Cardinality(Painted(scanline)')
  BY DEF SpriteCount
<1>1. CASE Line
  <2>1. scanline' = scanline + 1 /\ scanline \in -1 .. LAST_LINE - 1 /\ UNCHANGED <<oam, ctrl>>
    BY <1>0, <1>1 DEF Line, registers, RegTypeOK
  <2>2. ~moved
    BY <1>1 DEF Line
  <2>3. bbg' = SpritesDrawn(bbg, scanline + 1, TRUE) /\ fg' = SpritesDrawn(fg, scanline + 1, FALSE)
    BY <1>1, <2>1 DEF Line
  <2>4. Painted(scanline)' = Painted(scanline + 1)
    BY <2>1 DEF Painted, Box, SpriteY
  <2>5. /\ bbg.size <= Cardinality(Painted(scanline))
        /\ fg.size <= Cardinality(Painted(scanline))
    BY <2>2 DEF SpriteCount
  <2>6. bbg'.size <= Cardinality(Painted(scanline + 1))
    BY <1>0, <2>1, <2>3, <2>5, SpriteShare
  <2>7. fg'.size <= Cardinality(Painted(scanline + 1))
    BY <1>0, <2>1, <2>3, <2>5, SpriteShare
  <2> QED
    BY <2>4, <2>6, <2>7
<1>2. CASE LastLine
  <2>1. bbg'.size = 0 /\ fg'.size = 0 /\ scanline' = -1 /\ UNCHANGED <<oam, ctrl>>
    BY <1>2 DEF LastLine, Empty, registers
  <2>2. Painted(scanline)' = Painted(-1)
    BY <2>1 DEF Painted, Box, SpriteY
  <2>3. Cardinality(Painted(-1)) \in Nat
    BY <1>0, PaintedGrows, SizesAssumption
  <2> QED
    BY <2>1, <2>2, <2>3
<1>3. CASE UNCHANGED <<bbg, fg, scanline, oam, ctrl, moved>>
  <2>1. Painted(scanline)' = Painted(scanline)
    BY <1>3 DEF Painted, Box, SpriteY
  <2> QED
    BY <1>3, <2>1 DEF SpriteCount
<1>4. CASE WriteCtrl
  <2>1. ~moved /\ ctrl'.height = ctrl.height
    BY <1>0, <1>4, Zenon DEF WriteCtrl
  <2>2. Painted(scanline)' = Painted(scanline)
    BY <1>4, <2>1 DEF WriteCtrl, Write, Painted, Box, SpriteY
  <2> QED
    BY <1>4, <2>1, <2>2 DEF WriteCtrl, Write, buffers, SpriteCount
<1>5. CASE WriteMask
  <2>1. ~moved
    BY <1>0, <1>5, Zenon DEF WriteMask
  <2>2. Painted(scanline)' = Painted(scanline)
    BY <1>5 DEF WriteMask, Write, Painted, Box, SpriteY
  <2> QED
    BY <1>5, <2>1, <2>2 DEF WriteMask, Write, buffers, SpriteCount
<1>6. CASE WriteScroll \/ WriteOamAddr \/ ReadStatus \/ UNCHANGED vars
  BY <1>3, <1>6 DEF WriteScroll, WriteOamAddr, ReadStatus, Write, buffers, history, vars, registers
<1> QED
  BY <1>1, <1>2, <1>4, <1>5, <1>6 DEF Next, Dma, Insert

\* Nothing runs over without the reason BuffersHold gives.
LEMMA HoldStep ==
  ASSUME IInv, [Next]_vars, PlayfieldCount', SpriteCount', TypeOK'
  PROVE  NoOverfull' /\ BuffersHold'
<1>0. /\ RegTypeOK /\ bg \in Buffer /\ bbg \in Buffer /\ fg \in Buffer
      /\ moved \in BOOLEAN /\ scanline \in -1 .. LAST_LINE - 1
  BY TypeParts DEF IInv, PictureTypeOK, HistoryTypeOK, RegTypeOK
<1>1. CASE Line
  <2>1. /\ scanline' = scanline + 1 /\ moved' = moved
        /\ bbg' = SpritesDrawn(bbg, scanline + 1, TRUE)
        /\ fg' = SpritesDrawn(fg, scanline + 1, FALSE)
        /\ spilled' = IF Overfull(bg)' THEN "background"
                      ELSE IF Overfull(bbg)' \/ Overfull(fg)' THEN "sprites" ELSE "none"
    BY <1>1 DEF Line, Spill, Overfull
  <2>2. NoOverfull'
    BY <2>1 DEF NoOverfull
  <2>3. ASSUME spilled' = "background"
        PROVE  \E l \in Lines : (WIDTH + rows'[l].scroll) * (HEIGHT - 1) > CAPACITY
    <3> SUFFICES ASSUME \A l \in Lines :
                          ~ ((WIDTH + rows'[l].scroll) * (HEIGHT - 1) > CAPACITY)
                 PROVE  FALSE
      OBVIOUS
    <3>1. ASSUME NEW l \in Lines PROVE (WIDTH + rows'[l].scroll) * (HEIGHT - 1) <= CAPACITY
      <4>1. rows'[l].scroll \in Nat
        <5>1. rows'[l] \in Drawn
          BY DEF TypeOK
        <5> QED
          BY <5>1, DrawnScroll
      <4>2. (WIDTH + rows'[l].scroll) * (HEIGHT - 1) \in Int
        BY <4>1, SizesAssumption
      <4> QED
        BY <4>2, SizesAssumption
    <3>2. bg'.size * (HEIGHT - 1) <= Done' * CAPACITY
      BY <3>1 DEF PlayfieldCount
    <3>3. bg'.size \in Nat
      BY DEF TypeOK, Buffer
    <3>4. Done' \in Nat /\ Done' <= HEIGHT - 1 /\ HEIGHT - 1 \in Nat \ {0} /\ CAPACITY \in Nat
      BY <1>0, <2>1, SizesAssumption DEF Done
    <3>5. bg'.size <= CAPACITY
      BY <3>2, <3>3, <3>4, Fits
    <3> QED
      BY <2>1, <2>3, <3>3, <3>4, <3>5 DEF Overfull
  <2>4. ASSUME spilled' = "sprites" PROVE moved'
    <3>1. SUFFICES ASSUME ~moved PROVE FALSE
      BY <2>1
    <3>2. /\ bbg.size <= Cardinality(Painted(scanline))
          /\ fg.size <= Cardinality(Painted(scanline))
      BY <3>1 DEF IInv, SpriteCount
    <3>3. bbg'.size \in Nat /\ bbg'.size <= CAPACITY
      BY <1>0, <2>1, <3>2, SpriteShare
    <3>4. fg'.size \in Nat /\ fg'.size <= CAPACITY
      BY <1>0, <2>1, <3>2, SpriteShare
    <3>5. ~Overfull(bbg)' /\ ~Overfull(fg)'
      BY <3>3, <3>4, SizesAssumption DEF Overfull
    <3> QED
      BY <2>1, <2>4, <3>5, Zenon
  <2> QED
    BY <2>2, <2>3, <2>4 DEF BuffersHold
<1>2. CASE LastLine
  <2>1. bbg'.size = 0 /\ bg'.size = 0 /\ fg'.size = 0
    BY <1>2 DEF LastLine, Empty
  <2>2. NoOverfull'
    BY <2>1, SizesAssumption DEF NoOverfull, Overfull
  <2>3. BackgroundDrawn(LAST_LINE).size = bg.size /\ bg.size \in Nat
    BY <1>0, BackgroundType, SizesAssumption DEF Buffer
  <2>4. spilled' # "background"
    BY <1>2, <2>3 DEF LastLine, Spill, IInv, NoOverfull, Overfull
  <2>5. ASSUME spilled' = "sprites" PROVE moved'
    <3>1. SUFFICES ASSUME ~moved PROVE FALSE
      BY <1>0, <1>2, <2>5, Zenon DEF LastLine
    <3>2. /\ bbg.size <= Cardinality(Painted(scanline))
          /\ fg.size <= Cardinality(Painted(scanline))
      BY <3>1 DEF IInv, SpriteCount
    <3>3. scanline + 1 = LAST_LINE
      BY <1>2 DEF LastLine
    <3>4. /\ SpritesDrawn(bbg, LAST_LINE, TRUE).size \in Nat
          /\ SpritesDrawn(bbg, LAST_LINE, TRUE).size <= CAPACITY
      BY <1>0, <3>2, <3>3, SpriteShare
    <3>5. /\ SpritesDrawn(fg, LAST_LINE, FALSE).size \in Nat
          /\ SpritesDrawn(fg, LAST_LINE, FALSE).size <= CAPACITY
      BY <1>0, <3>2, <3>3, SpriteShare
    <3> DEFINE behind == SpritesDrawn(bbg, LAST_LINE, TRUE)
               front == SpritesDrawn(fg, LAST_LINE, FALSE)
    <3>6. ~Overfull(behind) /\ ~Overfull(front)
      <4>1. /\ behind.size \in Nat /\ behind.size <= CAPACITY
            /\ front.size \in Nat /\ front.size <= CAPACITY
        BY <3>4, <3>5
      <4> HIDE DEF behind, front
      <4> QED
        BY <4>1, SizesAssumption DEF Overfull
    <3>7. spilled' \in {"background", "none"}
      BY <1>2, <3>6 DEF LastLine, Spill
    <3> QED
      BY <2>4, <2>5, <3>7
  <2> QED
    BY <2>2, <2>4, <2>5 DEF BuffersHold
<1>3. CASE Write
  <2>1. UNCHANGED <<bbg, bg, fg, spilled, rows>> /\ spilled = "none"
    BY <1>3 DEF Write, buffers
  <2> QED
    BY <2>1 DEF IInv, NoOverfull, Overfull, BuffersHold
<1>4. CASE ReadStatus \/ UNCHANGED vars
  BY <1>4 DEF ReadStatus, vars, history, buffers, IInv, NoOverfull, Overfull, BuffersHold
<1> QED
  BY <1>1, <1>2, <1>3, <1>4
     DEF Next, WriteScroll, WriteMask, WriteCtrl, WriteOamAddr, Dma, Insert

\* The inductive invariant: types, counts, and what follows from them.
THEOREM Invariance == Spec => []IInv
<1>1. Init => IInv
  BY InitCounts
<1>2. IInv /\ [Next]_vars => IInv'
  <2> SUFFICES ASSUME IInv, [Next]_vars PROVE IInv'
    OBVIOUS
  <2>1. TypeOK'
    BY TypeStep DEF IInv
  <2>2. PlayfieldCount' /\ SpriteCount'
    BY PlayfieldStep, SpriteStep DEF IInv
  <2>3. NoOverfull' /\ BuffersHold'
    BY <2>1, <2>2, HoldStep
  <2> QED
    BY <2>1, <2>2, <2>3 DEF IInv
<1> QED
  BY <1>1, <1>2, PTL DEF Spec

\* For every size of the screen and the buffers, every game and every way it
\* writes to the registers: the playfield's buffer runs over only in a picture
\* scrolled too far to the left, the sprites' only in one that moves them.
THEOREM RoomSuffices == Spec => []BuffersHold
<1>1. IInv => BuffersHold
  BY DEF IInv
<1> QED
  BY <1>1, Invariance, PTL
-----------------------------------------------------------------------------
(* Quotients and remainders.                                               *)

LEMMA RowsPositive == ROWS \in Nat \ {0} /\ WIDTH \in Nat \ {0} /\ LAST_LINE \in Nat /\ TILE \in Nat \ {0}
BY SizesAssumption, GameAssumption

LEMMA IntDivision ==
  ASSUME NEW a \in Int, NEW b \in Nat \ {0}
  PROVE  /\ a \div b \in Int /\ a % b \in 0 .. b - 1
         /\ a = (a \div b) * b + (a % b)
<1>1. a \div b \in Int /\ a = b * (a \div b) + (a % b) /\ a % b \in 0 .. b - 1
  OBVIOUS
<1> QED
  BY <1>1

LEMMA Division ==
  ASSUME NEW a \in Nat, NEW b \in Nat \ {0}
  PROVE  /\ a \div b \in Nat /\ a % b \in 0 .. b - 1
         /\ a = (a \div b) * b + (a % b)
<1>1. a \div b \in Int /\ a = b * (a \div b) + (a % b) /\ a % b \in 0 .. b - 1
  OBVIOUS
<1>2. a \div b >= 0
  OBVIOUS
<1> QED
  BY <1>1, <1>2

\* Quotient and remainder are determined.
LEMMA Remainder ==
  ASSUME NEW b \in Nat \ {0}, NEW q \in Int, NEW r \in 0 .. b - 1,
         NEW q2 \in Int, NEW r2 \in 0 .. b - 1, q * b + r = q2 * b + r2
  PROVE  q = q2 /\ r = r2
<1> DEFINE d == q - q2
<1>1. d \in Int /\ q = q2 + d /\ q * b = q2 * b + d * b
  OBVIOUS
<1>2. q * b \in Int /\ q2 * b \in Int /\ d * b \in Int
  OBVIOUS
<1> HIDE DEF d
<1>3. d * b = r2 - r
  BY <1>1, <1>2
<1>4. d < 1
  <2>1. d >= 1 => d * b >= b
    BY <1>1
  <2> QED
    BY <1>1, <1>3, <2>1
<1>5. d > -1
  <2>1. d <= -1 => d * b <= -b
    BY <1>1
  <2> QED
    BY <1>1, <1>3, <2>1
<1>6. d = 0
  BY <1>1, <1>4, <1>5
<1> QED
  BY <1>1, <1>3, <1>6

LEMMA Divided ==
  ASSUME NEW b \in Nat \ {0}, NEW q \in Nat, NEW r \in 0 .. b - 1
  PROVE  (q * b + r) \div b = q /\ (q * b + r) % b = r
<1> DEFINE a == q * b + r
<1>1. a \in Nat
  OBVIOUS
<1> HIDE DEF a
<1>2. a \div b \in Nat /\ a % b \in 0 .. b - 1 /\ a = (a \div b) * b + (a % b)
  BY <1>1, Division
<1>3. q * b + r = (a \div b) * b + (a % b)
  BY <1>2 DEF a
<1> DEFINE q2 == a \div b
           r2 == a % b
<1>4. q2 \in Int /\ r2 \in 0 .. b - 1 /\ q * b + r = q2 * b + r2
  BY <1>2, <1>3
<1> HIDE DEF q2, r2
<1>5. q = q2 /\ r = r2
  BY <1>4, Remainder
<1> QED
  BY <1>5 DEF a, q2, r2

-----------------------------------------------------------------------------
(* A sprite-0 hit is real.                                                 *)

\* c is no colour, or the playfield has it where it lies in memory.
Noted(i, c) ==
  \/ c = 0
  \/ \E k \in {0, 1}, t \in 0 .. 4, u \in 0 .. WIDTH - 1, l \in 0 .. LAST_LINE :
       i = u * ROWS + l /\ ColorAt(k, t, u, l) = c

SeenInv == \A i \in 0 .. (WIDTH + TILE) * ROWS - 1 : Noted(i, seen[i])

\* Sprite 0 begins on the line, for the game's tables say so.
PlaceInv == oamaddr \in OamAddrs \cup {0} /\ SpriteX(0) < WIDTH

HitInv == RegTypeOK /\ PictureTypeOK /\ SeenInv /\ PlaceInv

LEMMA SeenDrawnNoted ==
  ASSUME RegTypeOK, seen \in Seen, SeenInv, NEW l \in 0 .. LAST_LINE,
         NEW i \in 0 .. (WIDTH + TILE) * ROWS - 1
  PROVE  Noted(i, SeenDrawn(l)[i])
<1>0. i \in Nat /\ l \in Nat /\ i \in DOMAIN seen /\ Noted(i, seen[i])
  BY RowsPositive DEF SeenInv, Seen
<1>1. CASE ~mask.background
  BY <1>0, <1>1 DEF SeenDrawn
<1>2. CASE mask.background
  <2> DEFINE drawn == [m \in {0, 1} |-> DrawnColumns(m, l)]
             column(j) == (j - l) \div ROWS
             value(j) == IF j < l \/ (j - l) % ROWS # 0 THEN seen[j]
                         ELSE IF column(j) \in drawn[1] THEN Color(1, column(j), l)
                         ELSE IF column(j) \in drawn[0] THEN Color(0, column(j), l)
                         ELSE seen[j]
  <2>1. SeenDrawn(l) = [j \in DOMAIN seen |-> value(j)]
    BY <1>2 DEF SeenDrawn
  <2>2. SeenDrawn(l)[i] = value(i)
    <3> HIDE DEF value
    <3> QED
      BY <1>0, <2>1
  <2>3. ASSUME NEW m \in {0, 1}, column(i) \in drawn[m], ~ (i < l), (i - l) % ROWS = 0
        PROVE  Noted(i, Color(m, column(i), l))
    <3>1. column(i) \in 0 .. WIDTH - 1 /\ ctrl.base + m \in 0 .. 4 /\ ctrl.playfield \in {0, 1}
      BY <2>3, RegFacts DEF DrawnColumns
    <3>2. i - l = column(i) * ROWS
      <4> DEFINE d == i - l
      <4>1. d \in Nat /\ d % ROWS = 0
        BY <1>0, <2>3
      <4> HIDE DEF d
      <4>2. d \div ROWS \in Nat /\ d = (d \div ROWS) * ROWS + (d % ROWS)
        BY <4>1, RowsPositive, Division
      <4>3. d = (d \div ROWS) * ROWS
        BY <4>1, <4>2, RowsPositive
      <4> QED
        BY <4>3 DEF d
    <3>3. i = column(i) * ROWS + l
      <4> HIDE DEF column
      <4>1. column(i) * ROWS \in Int
        BY <3>1, RowsPositive
      <4> QED
        BY <1>0, <3>2, <4>1
    <3> HIDE DEF column
    <3> QED
      BY <3>1, <3>3 DEF Noted, Color
  <2>4. CASE i < l \/ (i - l) % ROWS # 0
    BY <1>0, <2>2, <2>4
  <2>5. CASE ~ (i < l) /\ (i - l) % ROWS = 0
    <3> HIDE DEF column, drawn
    <3> QED
      BY <1>0, <2>2, <2>3, <2>5
  <2> QED
    BY <2>4, <2>5
<1> QED
  BY <1>1, <1>2

LEMMA InitHit == Init => HitInv
<1> SUFFICES ASSUME Init PROVE HitInv
  OBVIOUS
<1>1. RegTypeOK /\ PictureTypeOK
  BY InitTypes, TypeParts
<1>2. \A i \in 0 .. (WIDTH + TILE) * ROWS - 1 : seen[i] = 0
  BY DEF Init
<1>3. SeenInv
  BY <1>2 DEF SeenInv, Noted
<1>4. 4 * 0 + 3 \in OamBytes
  BY SizesAssumption DEF OamBytes
<1>5. PlaceInv
  BY <1>4, RowsPositive DEF Init, PlaceInv, SpriteX
<1> QED
  BY <1>1, <1>3, <1>5 DEF HitInv

LEMMA SeenStep ==
  ASSUME RegTypeOK, seen \in Seen, SeenInv, [Next]_vars
  PROVE  SeenInv'
<1> DEFINE Places == 0 .. (WIDTH + TILE) * ROWS - 1
<1>1. CASE Line
  <2>1. scanline' \in 0 .. LAST_LINE /\ seen' = SeenDrawn(scanline')
    BY <1>1, NextLine DEF Line
  <2> SUFFICES ASSUME NEW i \in Places PROVE Noted(i, seen'[i])
    BY DEF SeenInv, Noted, ColorAt, Cell
  <2> QED
    BY <2>1, SeenDrawnNoted
<1>2. CASE LastLine
  <2>1. LAST_LINE \in 0 .. LAST_LINE /\ seen' = SeenDrawn(LAST_LINE)
    BY <1>2, NextLine DEF LastLine
  <2> SUFFICES ASSUME NEW i \in Places PROVE Noted(i, seen'[i])
    BY DEF SeenInv, Noted, ColorAt, Cell
  <2> QED
    BY <2>1, SeenDrawnNoted
<1>3. CASE UNCHANGED seen
  BY <1>3 DEF SeenInv
<1> QED
  BY <1>1, <1>2, <1>3
     DEF Next, Write, WriteScroll, WriteMask, WriteCtrl, WriteOamAddr, Dma, Insert,
         ReadStatus, vars

LEMMA PlaceStep ==
  ASSUME RegTypeOK, PlaceInv, [Next]_vars
  PROVE  PlaceInv'
<1>1. CASE UNCHANGED <<oamaddr, oam>>
  BY <1>1 DEF PlaceInv, SpriteX
<1>2. CASE WriteOamAddr
  BY <1>2 DEF WriteOamAddr, PlaceInv, SpriteX
<1>3. CASE Insert
  BY <1>3 DEF Insert, PlaceInv, SpriteX
<1>4. ASSUME NEW page \in OamPages, Dma(page) PROVE PlaceInv'
  <2> DEFINE source(i) == page[(i - oamaddr) % (4 * SPRITES)]
  <2>1. 3 \in OamBytes
    BY SizesAssumption DEF OamBytes
  <2>2. oam'[3] = source(3)
    <3>1. oam' = [i \in OamBytes |-> source(i)]
      BY <1>4 DEF Dma
    <3> HIDE DEF source
    <3> QED
      BY <2>1, <3>1
  <2>3. source(3) < WIDTH
    <3>1. 0 \in 0 .. SPRITES - 1 /\ oamaddr \in OamAddrs \cup {0}
      BY SizesAssumption DEF PlaceInv
    <3>2. page[(4 * 0 + 3 - oamaddr) % (4 * SPRITES)] < WIDTH
      BY <3>1, GameAssumption
    <3>3. 4 * 0 + 3 - oamaddr = 3 - oamaddr
      BY DEF RegTypeOK, OamBytes
    <3> QED
      BY <3>2, <3>3
  <2>4. SpriteX(0)' < WIDTH
    <3> HIDE DEF source
    <3>1. SpriteX(0)' = oam'[4 * 0 + 3] /\ 4 * 0 + 3 = 3
      BY DEF SpriteX
    <3> QED
      BY <2>2, <2>3, <3>1
  <2> QED
    BY <1>4, <2>2, <2>4 DEF Dma, PlaceInv
<1> QED
  BY <1>1, <1>2, <1>3, <1>4
     DEF Next, Line, LastLine, WriteScroll, WriteMask, WriteCtrl, ReadStatus, vars, registers

LEMMA HitInvariance == Spec => []HitInv
<1>1. HitInv /\ [Next]_vars => HitInv'
  <2>1. HitInv /\ [Next]_vars => RegTypeOK' /\ PictureTypeOK'
    BY RegStep, PictureStep DEF HitInv
  <2>2. HitInv /\ [Next]_vars => SeenInv' /\ PlaceInv'
    BY SeenStep, PlaceStep DEF HitInv, PictureTypeOK
  <2> QED
    BY <2>1, <2>2 DEF HitInv
<1> QED
  BY <1>1, InitHit, PTL DEF Spec

\* Two places that share their memory are in the same column or in adjacent
\* ones.
LEMMA Shared ==
  ASSUME NEW x \in Int, NEW y \in Int, NEW a \in Int, NEW b \in Int,
         x * ROWS + y = a * ROWS + b,
         y >= 0, b >= 0, y < 2 * ROWS, b < 2 * ROWS
  PROVE  a - x \in -1 .. 1 /\ b = y - (a - x) * ROWS
<1> DEFINE c == a - x
<1>0. ROWS \in Nat \ {0} /\ c \in Int
  BY RowsPositive
<1>1. a = x + c /\ a * ROWS = x * ROWS + c * ROWS
  BY <1>0
<1>2. c * ROWS \in Int /\ x * ROWS \in Int
  BY <1>0
<1>3. c * ROWS = y - b
  BY <1>1, <1>2
<1> HIDE DEF c
<1>4. c < 2
  <2>1. c >= 2 => c * ROWS >= 2 * ROWS
    BY <1>0
  <2> QED
    BY <1>0, <1>3, <2>1
<1>5. c > -2
  <2>1. c <= -2 => c * ROWS <= -2 * ROWS
    BY <1>0
  <2> QED
    BY <1>0, <1>3, <2>1
<1> QED
  BY <1>0, <1>2, <1>3, <1>4, <1>5 DEF c

\* For every size, game and sequence of writes, a hit is due to a pixel of
\* sprite 0 and one of the playfield, at the places HitIsReal says; also one on
\* the last line, which only the game's flag shows.
THEOREM HitsAreReal == Spec => HitIsReal
<1> DEFINE Real ==
      \E u \in 0 .. TILE - 1, k \in {0, 1}, t \in 0 .. 4, c \in -1 .. 1 :
         LET v == RowDrawn(0, scanline + 1)
             x == SpriteX(0) + u + c
             y == SpriteY(0) + v - c * ROWS
             color == SpriteColor(ctrl.sprites, 0, u, v)
         IN  /\ color # 0
             /\ x \in 0 .. WIDTH - 1 /\ y \in 0 .. LAST_LINE
             /\ ColorAt(k, t, x, y) = color
<1>1. ASSUME HitInv, scanline + 1 \in 0 .. LAST_LINE, Hit(scanline + 1, SeenDrawn(scanline + 1))
      PROVE  Real
  <2> DEFINE l == scanline + 1
             v == RowDrawn(0, l)
             noted == SeenDrawn(l)
  <2>1. l \in 0 .. LAST_LINE
    BY <1>1
  <2>2. v \in 0 .. TILE - 1
    BY <2>1, RowType
  <2>3. \A i \in 0 .. (WIDTH + TILE) * ROWS - 1 : Noted(i, noted[i])
    BY <1>1, <2>1, SeenDrawnNoted DEF HitInv, PictureTypeOK
  <2>4. 0 \in OnLine(l) /\ HitColumns(l, noted) # {}
    BY <1>1 DEF Hit
  <2>5. PICK u \in HitColumns(l, noted) : TRUE
    BY <2>4
  <2> DEFINE color == SpriteColor(ctrl.sprites, 0, u, v)
             x0 == SpriteX(0) + u
             y0 == SpriteY(0) + v
             i == x0 * ROWS + y0
  <2>6. u \in 0 .. TILE - 1 /\ color # 0
    BY <2>5 DEF HitColumns
  <2>7. noted[i] = color
    <3>1. noted[(SpriteX(0) + u) * ROWS + SpriteY(0) + RowDrawn(0, l)] = color
      BY <2>5 DEF HitColumns
    <3>2. (SpriteX(0) + u) * ROWS + SpriteY(0) + RowDrawn(0, l) = i
      <4>1. 0 \in 0 .. SPRITES - 1
        BY SizesAssumption
      <4>2. SpriteX(0) \in 0 .. 255 /\ SpriteY(0) \in 0 .. 255
        BY <1>1, <4>1, SpriteBytes DEF HitInv
      <4>3. v \in Int /\ u \in Int
        BY <2>2, <2>6, RowsPositive
      <4>4. x0 * ROWS \in Int
        BY <4>2, <4>3, RowsPositive
      <4> HIDE DEF l, v
      <4> QED
        BY <4>2, <4>3, <4>4 DEF v
    <3> QED
      BY <3>1, <3>2
  <2>8. x0 \in 0 .. WIDTH + TILE - 2 /\ y0 \in 0 .. 2 * ROWS - 1
    <3>1. 0 \in 0 .. SPRITES - 1
      BY SizesAssumption
    <3>2. SpriteX(0) \in 0 .. 255 /\ SpriteY(0) \in 0 .. 255
      BY <1>1, <3>1, SpriteBytes DEF HitInv
    <3>3. SpriteX(0) < WIDTH /\ SpriteY(0) <= l
      BY <1>1, <2>4 DEF HitInv, PlaceInv, OnLine
    <3>4. LAST_LINE + TILE <= 2 * ROWS
      BY SizesAssumption
    <3> HIDE DEF l, v
    <3> QED
      BY <2>1, <2>2, <2>6, <3>2, <3>3, <3>4, RowsPositive
  <2> HIDE DEF l, v, color, x0, y0
  <2>9. i \in 0 .. (WIDTH + TILE) * ROWS - 1
    <3>1. x0 * ROWS >= 0 /\ x0 * ROWS <= (WIDTH + TILE - 2) * ROWS
      BY <2>8, RowsPositive, Scaled
    <3>2. (WIDTH + TILE - 2) * ROWS = (WIDTH + TILE) * ROWS - 2 * ROWS
      BY RowsPositive
    <3> QED
      BY <2>8, <3>1, <3>2, RowsPositive
  <2>10. Noted(i, color)
    <3> HIDE DEF i, noted
    <3> QED
      BY <2>3, <2>7, <2>9
  <2>11. PICK k \in {0, 1}, t \in 0 .. 4, x \in 0 .. WIDTH - 1, y \in 0 .. LAST_LINE :
           i = x * ROWS + y /\ ColorAt(k, t, x, y) = color
    BY <2>6, <2>10 DEF Noted
  <2>12. x - x0 \in -1 .. 1 /\ y = y0 - (x - x0) * ROWS
    <3>1. y < 2 * ROWS /\ y \in Int /\ x \in Int /\ y >= 0
      BY <2>11, RowsPositive, SizesAssumption
    <3>2. x0 \in Int /\ y0 \in Int /\ y0 >= 0 /\ y0 < 2 * ROWS
      BY <2>8, RowsPositive
    <3> QED
      BY <2>11, <3>1, <3>2, Shared
  <2>13. x = x0 + (x - x0)
    BY <2>8, <2>11, RowsPositive
  <2> DEFINE c == x - x0
  <2>14. c \in -1 .. 1 /\ x = x0 + c /\ y = y0 - c * ROWS
    BY <2>12, <2>13
  <2> HIDE DEF c
  <2> QED
    <3>1. /\ color # 0 /\ x0 + c \in 0 .. WIDTH - 1 /\ y0 - c * ROWS \in 0 .. LAST_LINE
          /\ ColorAt(k, t, x0 + c, y0 - c * ROWS) = color
      BY <2>6, <2>11, <2>14
    <3>2. /\ color # 0 /\ SpriteX(0) + u + c \in 0 .. WIDTH - 1
          /\ SpriteY(0) + v - c * ROWS \in 0 .. LAST_LINE
          /\ ColorAt(k, t, SpriteX(0) + u + c, SpriteY(0) + v - c * ROWS) = color
      <4>1. 0 \in 0 .. SPRITES - 1
        BY SizesAssumption
      <4>2. SpriteX(0) \in 0 .. 255 /\ SpriteY(0) \in 0 .. 255
        BY <1>1, <4>1, SpriteBytes DEF HitInv
      <4>3. c * ROWS \in Int /\ c \in Int /\ u \in Int /\ v \in Int
        BY <2>2, <2>6, <2>14, RowsPositive DEF v
      <4>4. x0 + c = SpriteX(0) + u + c /\ y0 - c * ROWS = SpriteY(0) + v - c * ROWS
        BY <4>2, <4>3 DEF x0, y0
      <4> QED
        BY <3>1, <4>4
    <3> u \in 0 .. TILE - 1 /\ c \in -1 .. 1
      BY <2>6, <2>14
    <3> USE DEF l, v, color
    <3> WITNESS u \in 0 .. TILE - 1, k \in {0, 1}, t \in 0 .. 4, c \in -1 .. 1
    <3> QED
      BY <3>2
<1> DEFINE Raised == (hit' /\ ~hit) \/ (sprite0' /\ ~sprite0)
<1>2. HitInv /\ Next /\ Raised => Real
  <2> SUFFICES ASSUME HitInv, Next, Raised PROVE Real
    OBVIOUS
  <2> HIDE DEF Real
  <2>1. CASE Line
    <3>1. scanline' = scanline + 1 /\ scanline' \in 0 .. LAST_LINE
      BY <2>1, NextLine DEF HitInv
    <3>2. Hit(scanline', SeenDrawn(scanline'))
      <4>1. /\ hit' = (hit \/ Hit(scanline', seen'))
            /\ sprite0' = (scanline' # HEIGHT + 1 /\ (sprite0 \/ Hit(scanline', seen')))
            /\ seen' = SeenDrawn(scanline')
        BY <2>1 DEF Line
      <4> QED
        BY <4>1, Zenon
    <3> QED
      BY <1>1, <3>1, <3>2
  <2>2. CASE LastLine
    <3>1. scanline + 1 = LAST_LINE /\ LAST_LINE \in 0 .. LAST_LINE
      BY <2>2, NextLine DEF LastLine, HitInv
    <3>2. Hit(LAST_LINE, SeenDrawn(LAST_LINE))
      <4>1. /\ hit' = FALSE /\ sprite0' = (sprite0 \/ Hit(LAST_LINE, seen'))
            /\ seen' = SeenDrawn(LAST_LINE)
        BY <2>2 DEF LastLine
      <4> QED
        BY <4>1, Zenon
    <3> QED
      BY <1>1, <3>1, <3>2
  <2>3. CASE UNCHANGED hit /\ (UNCHANGED sprite0 \/ sprite0' = FALSE)
    BY <2>3, Zenon
  <2> QED
    BY <2>1, <2>2, <2>3
       DEF Next, Write, WriteScroll, WriteMask, WriteCtrl, WriteOamAddr, Dma, Insert, ReadStatus
<1>3. HitInv /\ [Next]_vars => [Raised => Real]_vars
  BY <1>2
<1> QED
  BY <1>3, HitInvariance, PTL DEF Spec, HitIsReal

-----------------------------------------------------------------------------
(* The picture is right: its playfield.                                    *)

\* What a line drawn so has at p.
PlayfieldOf(line, p) ==
  LET column == p[1] + line.scroll
      t == line.base + column \div WIDTH
      u == column % WIDTH
  IN  IF \/ line = NotDrawn \/ (~line.left /\ u < TILE)
         \/ ColorAt(line.table, t, u, p[2] - 1) = 0
      THEN Clear
      ELSE IndexAt(line.table, t, u, p[2] - 1)

\* The lines to come are not drawn; the buffer holds what the others show.
PlayfieldInv ==
  /\ \A l \in Lines : l > scanline => rows[l] = NotDrawn
  /\ \A p \in Screen : bg.layer[p] = PlayfieldAt(p)

LEMMA PlayfieldCases ==
  ASSUME NEW p \in Screen
  PROVE  PlayfieldAt(p) = IF p[2] = 0 THEN Clear ELSE PlayfieldOf(rows[p[2] - 1], p)
BY DEF PlayfieldAt, PlayfieldOf

\* Which nametable a column on the screen is in, and where.
LEMMA ColumnAt ==
  ASSUME NEW c \in 0 .. 2 * WIDTH - 1
  PROVE  /\ c \div WIDTH = (IF c < WIDTH THEN 0 ELSE 1)
         /\ c % WIDTH = (IF c < WIDTH THEN c ELSE c - WIDTH)
         /\ c % WIDTH \in 0 .. WIDTH - 1
<1>0. WIDTH \in Nat \ {0} /\ c \in Nat
  BY RowsPositive
<1>1. CASE c < WIDTH
  <2>1. (0 * WIDTH + c) \div WIDTH = 0 /\ (0 * WIDTH + c) % WIDTH = c
    BY <1>0, <1>1, Divided
  <2>2. 0 * WIDTH + c = c
    BY <1>0
  <2> QED
    BY <1>0, <1>1, <2>1, <2>2
<1>2. CASE ~ (c < WIDTH)
  <2>1. c - WIDTH \in 0 .. WIDTH - 1
    BY <1>0, <1>2
  <2>2. (1 * WIDTH + (c - WIDTH)) \div WIDTH = 1 /\ (1 * WIDTH + (c - WIDTH)) % WIDTH = c - WIDTH
    BY <1>0, <2>1, Divided
  <2>3. 1 * WIDTH + (c - WIDTH) = c
    BY <1>0
  <2> QED
    BY <1>2, <2>1, <2>2, <2>3
<1> QED
  BY <1>1, <1>2

LEMMA TileAt ==
  ASSUME NEW u \in Nat
  PROVE  /\ u \div TILE \in Nat /\ TILE * (u \div TILE) <= u
         /\ u \div TILE > 0 <=> ~ (u < TILE)
<1>0. TILE \in Nat \ {0}
  BY RowsPositive
<1>1. /\ u \div TILE \in Nat /\ u % TILE \in 0 .. TILE - 1
      /\ u = (u \div TILE) * TILE + (u % TILE)
  BY <1>0, Division
<1>2. (u \div TILE) * TILE \in Nat /\ (u \div TILE) * TILE = TILE * (u \div TILE)
  BY <1>0, <1>1
<1>3. u \div TILE > 0 => TILE * (u \div TILE) >= TILE
  BY <1>0, <1>1
<1>4. u \div TILE = 0 => (u \div TILE) * TILE = 0
  BY <1>0
<1> QED
  BY <1>0, <1>1, <1>2, <1>3, <1>4

\* A line puts on its row what it shows, and leaves the rest alone.
LEMMA PlayfieldLine ==
  ASSUME RegTypeOK, bg \in Buffer, mask.background, NEW l \in 0 .. LAST_LINE, NEW p \in Screen
  PROVE  BackgroundDrawn(l).layer[p] =
           IF p[2] = l + 1 /\ PlayfieldOf(DrawnAs, p) # Clear
           THEN PlayfieldOf(DrawnAs, p) ELSE bg.layer[p]
<1> DEFINE added == [m \in {0, 1} |-> AddedColumns(m, l)]
           column(q) == q[1] + scroll
           pass(q) == IF column(q) < WIDTH THEN 0 ELSE 1
           u(q) == column(q) - WIDTH * pass(q)
           value(q) == IF q[2] = l + 1 /\ u(q) \in added[pass(q)]
                       THEN IndexAt(ctrl.playfield, ctrl.base + pass(q), u(q), l)
                       ELSE bg.layer[q]
<1>1. BackgroundDrawn(l).layer[p] = value(p)
  <2>1. BackgroundDrawn(l).layer = [q \in Screen |-> value(q)]
    BY DEF BackgroundDrawn
  <2> HIDE DEF value
  <2> QED
    BY <2>1
<1>2. /\ p[1] \in 0 .. WIDTH - 1 /\ p[2] \in 0 .. HEIGHT - 1 /\ scroll \in 0 .. WIDTH - 1
      /\ l \in Nat /\ WIDTH \in Nat \ {0} /\ HEIGHT \in Nat
  BY RegFacts, RowsPositive, SizesAssumption DEF Screen
<1>3. column(p) \in 0 .. 2 * WIDTH - 1
  BY <1>2
<1>4. pass(p) \in {0, 1} /\ pass(p) = column(p) \div WIDTH
  BY <1>3, ColumnAt
<1>5. u(p) = column(p) % WIDTH /\ u(p) \in 0 .. WIDTH - 1
  BY <1>2, <1>3, ColumnAt
<1>6. u(p) - scroll + WIDTH * pass(p) = p[1]
  BY <1>2
<1>7. CASE p[2] # l + 1
  <2> HIDE DEF column, pass, u, added
  <2> QED
    BY <1>1, <1>7
<1>8. CASE p[2] = l + 1
  <2> DEFINE t == ctrl.base + pass(p)
             w == u(p)
  <2>1. DrawnAs = [scroll |-> scroll, base |-> ctrl.base, table |-> ctrl.playfield,
                   left |-> mask.left]
    BY DEF DrawnAs
  <2>2. DrawnAs # NotDrawn /\ DrawnAs.scroll = scroll /\ DrawnAs.base = ctrl.base
        /\ DrawnAs.left = mask.left /\ DrawnAs.table = ctrl.playfield
    BY <2>1, RegFacts DEF NotDrawn
  <2>3. t \in 0 .. 4 /\ ctrl.playfield \in {0, 1}
    BY <1>4, RegFacts
  <2>4. w \in 0 .. WIDTH - 1
    BY <1>5
  <2>5. PlayfieldOf(DrawnAs, p) =
          IF (~mask.left /\ w < TILE) \/ ColorAt(ctrl.playfield, t, w, l) = 0 THEN Clear
          ELSE IndexAt(ctrl.playfield, t, w, l)
    <3>1. p[2] - 1 = l
      BY <1>2, <1>8
    <3>2. t = DrawnAs.base + (p[1] + DrawnAs.scroll) \div WIDTH
      BY <1>4, <2>2
    <3>3. w = (p[1] + DrawnAs.scroll) % WIDTH
      BY <1>5, <2>2
    <3> HIDE DEF t, w
    <3> QED
      BY <2>2, <3>1, <3>2, <3>3, Zenon DEF PlayfieldOf
  <2>6. w \in added[pass(p)] <=> ~ (~mask.left /\ w < TILE) /\ ColorAt(ctrl.playfield, t, w, l) # 0
    <3>1. added[pass(p)] = AddedColumns(pass(p), l)
      BY <1>4
    <3>2. w - scroll + WIDTH * pass(p) < WIDTH /\ l + 1 < HEIGHT
      BY <1>2, <1>6, <1>8
    <3>3. w \in Nat /\ pass(p) \in Int /\ WIDTH * pass(p) \in Int
      BY <1>2, <1>4, <2>4
    <3>4. ~OffScreen(pass(p), w \div TILE)
      <4>1. TILE * (w \div TILE) <= w /\ TILE * (w \div TILE) \in Int
        BY <3>3, TileAt, RowsPositive
      <4> HIDE DEF w, pass
      <4> QED
        BY <1>2, <3>2, <3>3, <4>1 DEF OffScreen
    <3>5. w \div TILE > 0 <=> ~ (w < TILE)
      BY <3>3, TileAt
    <3>6. Color(pass(p), w, l) = ColorAt(ctrl.playfield, t, w, l)
      BY DEF Color
    <3> HIDE DEF t, w, pass, added
    <3> QED
      BY <2>4, <3>1, <3>2, <3>4, <3>5, <3>6, RegFacts DEF AddedColumns, DrawnColumns
  <2>7. IndexAt(ctrl.playfield, t, w, l) # Clear
    <3>1. Cell(t, w, l).attr \in 0 .. 3 /\ ColorAt(ctrl.playfield, t, w, l) \in 0 .. 3
      <4> HIDE DEF t, w
      <4> QED
        BY <2>3, <2>4, DataAssumption
    <3> HIDE DEF t, w
    <3> QED
      BY <3>1 DEF IndexAt, Clear
  <2>8. value(p) = IF w \in added[pass(p)] THEN IndexAt(ctrl.playfield, t, w, l) ELSE bg.layer[p]
    BY <1>8
  <2> HIDE DEF value, t, w, added, pass, u, column
  <2> QED
    BY <1>1, <1>8, <2>5, <2>6, <2>7, <2>8, RegFacts
<1> QED
  BY <1>7, <1>8

LEMMA PlayfieldInvStep ==
  ASSUME RegTypeOK, bg \in Buffer, rows \in [Lines -> Drawn], PlayfieldInv, [Next]_vars
  PROVE  PlayfieldInv'
<1>0. HEIGHT \in Nat /\ LAST_LINE \in Nat /\ LAST_LINE >= HEIGHT /\ scanline \in -1 .. LAST_LINE - 1
  BY SizesAssumption DEF RegTypeOK
<1>1. ASSUME NEW p \in Screen, p[2] # 0 PROVE p[2] - 1 \in Lines
  BY <1>0, <1>1 DEF Screen, Lines
<1>2. CASE Line
  <2> DEFINE l == scanline'
  <2>1. l = scanline + 1 /\ l \in 0 .. LAST_LINE /\ bg' = BackgroundDrawn(l)
    BY <1>2, NextLine DEF Line
  <2>2. rows' = IF l \in Lines THEN [rows EXCEPT ![l] = DrawnAs] ELSE rows
    BY <1>2 DEF Line
  <2> HIDE DEF l
  <2>3. \A k \in Lines : rows'[k] = IF k = l THEN DrawnAs ELSE rows[k]
    BY <2>2
  <2>4. ASSUME NEW k \in Lines, k > l PROVE rows'[k] = NotDrawn
    <3>1. k > scanline /\ k # l
      BY <1>0, <2>1, <2>4 DEF Lines
    <3> QED
      BY <2>3, <3>1 DEF PlayfieldInv
  <2>5. ASSUME NEW p \in Screen PROVE bg'.layer[p] = PlayfieldAt(p)'
    <3>1. PlayfieldAt(p)' = IF p[2] = 0 THEN Clear ELSE PlayfieldOf(rows'[p[2] - 1], p)
      BY DEF PlayfieldAt, PlayfieldOf, ColorAt, IndexAt, Cell
    <3>2. bg.layer[p] = IF p[2] = 0 THEN Clear ELSE PlayfieldOf(rows[p[2] - 1], p)
      BY PlayfieldCases DEF PlayfieldInv
    <3>3. p[2] = l + 1 => /\ p[2] # 0 /\ p[2] - 1 = l /\ l \in Lines
                          /\ rows[l] = NotDrawn
      BY <1>0, <1>1, <2>1 DEF PlayfieldInv, Screen
    <3>4. p[2] # 0 /\ p[2] # l + 1 => rows'[p[2] - 1] = rows[p[2] - 1]
      BY <1>0, <1>1, <2>1, <2>3 DEF Screen
    <3>5. PlayfieldOf(NotDrawn, p) = Clear
      BY DEF PlayfieldOf
    <3>6. CASE ~mask.background
      <4>1. bg' = bg /\ DrawnAs = NotDrawn
        BY <2>1, <3>6 DEF BackgroundDrawn, DrawnAs
      <4> QED
        BY <2>3, <3>1, <3>2, <3>3, <3>4, <4>1
    <3>7. CASE mask.background
      <4>1. bg'.layer[p] = IF p[2] = l + 1 /\ PlayfieldOf(DrawnAs, p) # Clear
                           THEN PlayfieldOf(DrawnAs, p) ELSE bg.layer[p]
        BY <2>1, <3>7, PlayfieldLine
      <4>2. CASE p[2] = l + 1
        BY <2>3, <3>1, <3>2, <3>3, <3>5, <4>1, <4>2
      <4>3. CASE p[2] # l + 1
        BY <3>1, <3>2, <3>4, <4>1, <4>3
      <4> QED
        BY <4>2, <4>3
    <3> QED
      BY <3>6, <3>7, RegFacts
  <2> QED
    BY <2>4, <2>5 DEF PlayfieldInv, l
<1>3. CASE LastLine
  <2>1. bg' = Empty /\ rows' = [l \in Lines |-> NotDrawn]
    BY <1>3 DEF LastLine
  <2>2. ASSUME NEW p \in Screen PROVE bg'.layer[p] = PlayfieldAt(p)'
    <3>1. bg'.layer[p] = Clear
      BY <2>1 DEF Empty
    <3>2. PlayfieldAt(p)' = IF p[2] = 0 THEN Clear ELSE PlayfieldOf(rows'[p[2] - 1], p)
      BY DEF PlayfieldAt, PlayfieldOf, ColorAt, IndexAt, Cell
    <3>3. p[2] # 0 => rows'[p[2] - 1] = NotDrawn
      BY <1>1, <2>1
    <3> QED
      BY <3>1, <3>2, <3>3 DEF PlayfieldOf
  <2> QED
    BY <2>1, <2>2 DEF PlayfieldInv
<1>4. CASE UNCHANGED <<scanline, rows, bg>>
  <2>1. \A p \in Screen : PlayfieldAt(p)' = PlayfieldAt(p)
    BY <1>4 DEF PlayfieldAt, ColorAt, IndexAt, Cell
  <2> QED
    BY <1>4, <2>1 DEF PlayfieldInv
<1> QED
  BY <1>2, <1>3, <1>4
     DEF Next, Write, WriteScroll, WriteMask, WriteCtrl, WriteOamAddr, Dma, Insert,
         ReadStatus, buffers, history, vars

LEMMA InitPlayfield == Init => PlayfieldInv
<1> SUFFICES ASSUME Init PROVE PlayfieldInv
  OBVIOUS
<1>1. bg = Empty /\ rows = [l \in Lines |-> NotDrawn]
  BY DEF Init
<1>2. ASSUME NEW p \in Screen PROVE bg.layer[p] = PlayfieldAt(p)
  <2>1. p[2] # 0 => p[2] - 1 \in Lines
    BY SizesAssumption DEF Screen, Lines
  <2>2. bg.layer[p] = Clear
    BY <1>1 DEF Empty
  <2> QED
    BY <1>1, <2>1, <2>2, PlayfieldCases DEF PlayfieldOf
<1> QED
  BY <1>1, <1>2 DEF PlayfieldInv

-----------------------------------------------------------------------------
(* The picture is right: its sprites.                                      *)

\* Sprite n has a pixel at p, with the patterns of table k.
HasPixel(k, n, p, behind) ==
  /\ Behind(n) = behind
  /\ p[1] - SpriteX(n) \in 0 .. TILE - 1 /\ p[2] - SpriteY(n) - 1 \in 0 .. TILE - 1
  /\ SpriteColor(k, n, p[1] - SpriteX(n), p[2] - SpriteY(n) - 1) # 0

\* It is drawn on line l, if that is drawn with them.
DrawnOn(k, n, p, behind, l) ==
  /\ n \in OnLine(l) /\ HasPixel(k, n, p, behind)
  /\ l % TILE = p[2] - SpriteY(n) - 1

\* The tables and sprites drawn at p on the lines up to s, each line with the
\* table that was used for it, and their colours.
Laid(used, p, behind, s) ==
  { x \in {0, 1} \X (0 .. SPRITES - 1) :
      \E l \in 0 .. s : used[l] = x[1] /\ DrawnOn(x[1], x[2], p, behind, l) }

IndexOf(x, p) == SpriteIndex(x[1], x[2], p[1] - SpriteX(x[2]), p[2] - SpriteY(x[2]) - 1)

\* What lies at p is one of them.
LaidIn(layer, used, behind, s) ==
  \A p \in Screen :
    IF Laid(used, p, behind, s) = {} THEN layer[p] = Clear
    ELSE \E x \in Laid(used, p, behind, s) : layer[p] = IndexOf(x, p)

\* As long as the game leaves its sprites alone.
SpriteInv ==
  ~moved /\ mask.sprites =>
    LaidIn(bbg.layer, tables, TRUE, scanline) /\ LaidIn(fg.layer, tables, FALSE, scanline)

\* A line draws the sprites that have a pixel on it, the last one on top.
LEMMA SpriteLine ==
  ASSUME RegTypeOK, NEW buf \in Buffer, mask.sprites, NEW l \in 0 .. LAST_LINE,
         NEW behind \in BOOLEAN, NEW p \in Screen
  PROVE  LET there == { n \in 0 .. SPRITES - 1 : DrawnOn(ctrl.sprites, n, p, behind, l) }
         IN  IF there = {} THEN SpritesDrawn(buf, l, behind).layer[p] = buf.layer[p]
             ELSE \E n \in there :
                    SpritesDrawn(buf, l, behind).layer[p] = IndexOf(<<ctrl.sprites, n>>, p)
<1> DEFINE pixels == SpritePixels(l, behind)
           there(q) == { n \in OnLine(l) : /\ <<n, q[1] - SpriteX(n)>> \in pixels
                                           /\ q[2] = SpriteY(n) + RowDrawn(n, l) + 1 }
           last(q) == CHOOSE n \in there(q) : \A k \in there(q) : k <= n
           value(q) == IF there(q) = {} THEN buf.layer[q]
                       ELSE SpriteIndex(ctrl.sprites, last(q), q[1] - SpriteX(last(q)),
                                        RowDrawn(last(q), l))
           drawn == { n \in 0 .. SPRITES - 1 : DrawnOn(ctrl.sprites, n, p, behind, l) }
<1>1. SpritesDrawn(buf, l, behind).layer[p] = value(p)
  <2>1. SpritesDrawn(buf, l, behind).layer = [q \in Screen |-> value(q)]
    BY DEF SpritesDrawn
  <2> HIDE DEF value
  <2> QED
    BY <2>1
<1>2. p[1] \in 0 .. WIDTH - 1 /\ p[2] \in 0 .. HEIGHT - 1 /\ WIDTH \in Nat /\ HEIGHT \in Nat
  BY SizesAssumption DEF Screen
<1>3. ASSUME NEW n \in OnLine(l)
      PROVE  n \in there(p) <=> DrawnOn(ctrl.sprites, n, p, behind, l)
  <2>1. n \in 0 .. SPRITES - 1
    BY DEF OnLine
  <2>2. SpriteX(n) \in 0 .. 255 /\ SpriteY(n) \in 0 .. 255
    BY <2>1, SpriteBytes
  <2>3. l % TILE \in 0 .. TILE - 1 /\ RowDrawn(n, l) = l % TILE
    BY RowsPositive DEF RowDrawn
  <2> DEFINE u == p[1] - SpriteX(n)
             v == p[2] - SpriteY(n) - 1
             r == l % TILE
  <2>4. <<n, u>> \in pixels <=>
          /\ u \in 0 .. TILE - 1 /\ SpriteColor(ctrl.sprites, n, u, r) # 0 /\ Behind(n) = behind
          /\ SpriteX(n) + u < WIDTH /\ SpriteY(n) + r + 1 < HEIGHT
    <3> HIDE DEF u
    <3> QED
      BY <2>3 DEF SpritePixels
  <2>5. SpriteX(n) + u < WIDTH
    BY <1>2, <2>2
  <2>6. p[2] = SpriteY(n) + r + 1 <=> r = v
    BY <1>2, <2>2, <2>3
  <2>7. r = v => SpriteY(n) + r + 1 < HEIGHT
    BY <1>2, <2>2, <2>3
  <2>8. DrawnOn(ctrl.sprites, n, p, behind, l) <=>
          /\ Behind(n) = behind /\ u \in 0 .. TILE - 1 /\ v \in 0 .. TILE - 1
          /\ SpriteColor(ctrl.sprites, n, u, v) # 0 /\ r = v
    BY DEF DrawnOn, HasPixel
  <2>9. n \in there(p) <=> <<n, u>> \in pixels /\ p[2] = SpriteY(n) + r + 1
    BY <2>3
  <2> HIDE DEF u, v, r, pixels, there
  <2> QED
    BY <2>3, <2>4, <2>5, <2>6, <2>7, <2>8, <2>9 DEF r
<1>4. there(p) = drawn
  <2>1. \A n \in drawn : n \in OnLine(l)
    BY DEF DrawnOn
  <2>2. \A n \in there(p) : n \in OnLine(l) /\ n \in 0 .. SPRITES - 1
    BY DEF OnLine
  <2> HIDE DEF there
  <2> QED
    BY <1>3, <2>1, <2>2
<1>5. CASE drawn = {}
  <2> HIDE DEF there, drawn
  <2> QED
    BY <1>1, <1>4, <1>5 DEF drawn
<1>6. CASE drawn # {}
  <2>1. drawn \in SUBSET (0 .. SPRITES)
    BY SizesAssumption
  <2>2. \E n \in drawn : \A k \in drawn : k <= n
    <3> HIDE DEF drawn
    <3> QED
      BY <1>6, <2>1, Largest, SizesAssumption
  <2>3. last(p) \in drawn
    <3> HIDE DEF drawn, there
    <3> QED
      BY <1>4, <2>2
  <2>4. value(p) = SpriteIndex(ctrl.sprites, last(p), p[1] - SpriteX(last(p)), l % TILE)
    <3> HIDE DEF drawn, there, last
    <3> QED
      BY <1>4, <1>6 DEF RowDrawn
  <2>5. l % TILE = p[2] - SpriteY(last(p)) - 1
    <3> HIDE DEF last
    <3> QED
      BY <2>3 DEF DrawnOn
  <2> HIDE DEF last, value
  <2>6. value(p) = IndexOf(<<ctrl.sprites, last(p)>>, p)
    BY <2>4, <2>5 DEF IndexOf
  <2> QED
    BY <1>1, <1>6, <2>3, <2>6
<1> QED
  BY <1>5, <1>6

LEMMA LaidGrows ==
  ASSUME RegTypeOK, NEW buf \in Buffer, mask.sprites, NEW s \in -1 .. LAST_LINE - 1,
         NEW behind \in BOOLEAN, NEW used, NEW more,
         \A l \in 0 .. s : more[l] = used[l], more[s + 1] = ctrl.sprites,
         LaidIn(buf.layer, used, behind, s)
  PROVE  LaidIn(SpritesDrawn(buf, s + 1, behind).layer, more, behind, s + 1)
<1> DEFINE after == SpritesDrawn(buf, s + 1, behind).layer
<1>1. s + 1 \in 0 .. LAST_LINE /\ s \in Int
  BY RowsPositive
<1> SUFFICES ASSUME NEW p \in Screen
             PROVE  IF Laid(more, p, behind, s + 1) = {} THEN after[p] = Clear
                    ELSE \E x \in Laid(more, p, behind, s + 1) : after[p] = IndexOf(x, p)
  BY DEF LaidIn
<1> DEFINE numbers == { n \in 0 .. SPRITES - 1 : DrawnOn(ctrl.sprites, n, p, behind, s + 1) }
           there == { x \in {0, 1} \X (0 .. SPRITES - 1) :
                        x[1] = ctrl.sprites /\ x[2] \in numbers }
<1>2. Laid(more, p, behind, s + 1) = Laid(used, p, behind, s) \cup there
  <2>1. \A l : l \in 0 .. s + 1 <=> l \in 0 .. s \/ l = s + 1
    BY <1>1
  <2>2. ASSUME NEW x \in {0, 1} \X (0 .. SPRITES - 1)
        PROVE  x \in there <=> more[s + 1] = x[1] /\ DrawnOn(x[1], x[2], p, behind, s + 1)
    OBVIOUS
  <2>3. ASSUME NEW x \in {0, 1} \X (0 .. SPRITES - 1)
        PROVE  (\E l \in 0 .. s + 1 : more[l] = x[1] /\ DrawnOn(x[1], x[2], p, behind, l))
                 <=> \/ \E l \in 0 .. s : used[l] = x[1] /\ DrawnOn(x[1], x[2], p, behind, l)
                     \/ x \in there
    <3> HIDE DEF there
    <3> QED
      BY <2>1, <2>2
  <2>4. there \subseteq {0, 1} \X (0 .. SPRITES - 1)
    OBVIOUS
  <2> HIDE DEF there
  <2> QED
    BY <2>3, <2>4 DEF Laid
<1>3. IF numbers = {} THEN after[p] = buf.layer[p]
      ELSE \E n \in numbers : after[p] = IndexOf(<<ctrl.sprites, n>>, p)
  BY <1>1, SpriteLine
<1>4. IF there = {} THEN after[p] = buf.layer[p]
      ELSE \E x \in there : after[p] = IndexOf(x, p)
  <2>1. \A n \in numbers : <<ctrl.sprites, n>> \in there
    BY RegFacts
  <2>2. \A x \in there : x[2] \in numbers
    OBVIOUS
  <2> HIDE DEF after, numbers, there
  <2> QED
    BY <1>3, <2>1, <2>2
<1>5. IF Laid(used, p, behind, s) = {} THEN buf.layer[p] = Clear
      ELSE \E x \in Laid(used, p, behind, s) : buf.layer[p] = IndexOf(x, p)
  BY DEF LaidIn
<1> HIDE DEF after, there
<1> QED
  BY <1>2, <1>4, <1>5

\* Where the sprites are and what they look like does not change by itself.
LEMMA Still ==
  ASSUME oam' = oam, ctrl'.height = ctrl.height
  PROVE  /\ \A k, n, p, behind, l :
              DrawnOn(k, n, p, behind, l)' <=> DrawnOn(k, n, p, behind, l)
         /\ \A x, p : IndexOf(x, p)' = IndexOf(x, p)
BY DEF DrawnOn, HasPixel, OnLine, IndexOf, SpriteIndex, SpriteColor, SpriteX, SpriteY,
       SpriteTile, Behind, HFlip, VFlip, Bit

LEMMA NothingLaid ==
  ASSUME NEW behind \in BOOLEAN, NEW used
  PROVE  LaidIn(Empty.layer, used, behind, -1)
<1>1. \A p \in Screen : Empty.layer[p] = Clear
  BY DEF Empty
<1>2. \A p \in Screen : Laid(used, p, behind, -1) = {}
  BY DEF Laid
<1> QED
  BY <1>1, <1>2 DEF LaidIn

LEMMA SpriteInvStep ==
  ASSUME RegTypeOK, bbg \in Buffer, fg \in Buffer, HistoryTypeOK, SpriteInv, [Next]_vars
  PROVE  SpriteInv'
<1> SUFFICES ASSUME ~moved', mask'.sprites
             PROVE  /\ LaidIn(bbg.layer, tables, TRUE, scanline)'
                    /\ LaidIn(fg.layer, tables, FALSE, scanline)'
  BY DEF SpriteInv
<1> DEFINE Kept == oam' = oam /\ ctrl'.height = ctrl.height
<1>1. ASSUME Kept
      PROVE  /\ LaidIn(bbg.layer, tables, TRUE, scanline)'
                  <=> LaidIn(bbg'.layer, tables', TRUE, scanline')
             /\ LaidIn(fg.layer, tables, FALSE, scanline)'
                  <=> LaidIn(fg'.layer, tables', FALSE, scanline')
  <2>1. ASSUME NEW p \in Screen, NEW behind \in BOOLEAN
        PROVE  Laid(tables, p, behind, scanline)' = Laid(tables', p, behind, scanline')
    BY <1>1, Still DEF Laid
  <2>2. \A p, x : IndexOf(x, p)' = IndexOf(x, p)
    BY <1>1, Still
  <2>3. LaidIn(bbg.layer, tables, TRUE, scanline)' <=> LaidIn(bbg'.layer, tables', TRUE, scanline')
    BY <2>1, <2>2 DEF LaidIn
  <2>4. LaidIn(fg.layer, tables, FALSE, scanline)' <=> LaidIn(fg'.layer, tables', FALSE, scanline')
    BY <2>1, <2>2 DEF LaidIn
  <2> QED
    BY <2>3, <2>4
<1>2. CASE Line
  <2>1. Kept /\ mask' = mask /\ moved' = moved
    BY <1>2 DEF Line, registers
  <2>2. scanline' = scanline + 1 /\ scanline \in -1 .. LAST_LINE - 1
    BY <1>2 DEF Line, RegTypeOK
  <2>3. LaidIn(bbg.layer, tables, TRUE, scanline) /\ LaidIn(fg.layer, tables, FALSE, scanline)
    BY <2>1 DEF SpriteInv
  <2>4. bbg' = SpritesDrawn(bbg, scanline + 1, TRUE) /\ fg' = SpritesDrawn(fg, scanline + 1, FALSE)
    BY <1>2, <2>2 DEF Line
  <2>5. tables'[scanline + 1] = ctrl.sprites /\ \A l \in 0 .. scanline : tables'[l] = tables[l]
    <3>1. tables' = [tables EXCEPT ![scanline'] = ctrl.sprites]
      BY <1>2, <2>1 DEF Line
    <3>2. tables \in [0 .. LAST_LINE - 1 -> {0, 1}]
      BY DEF HistoryTypeOK
    <3>3. scanline + 1 \in 0 .. LAST_LINE - 1 /\ LAST_LINE \in Nat
      BY <1>2, <2>2, RowsPositive DEF Line
    <3> QED
      BY <2>2, <3>1, <3>2, <3>3
  <2>6. LaidIn(bbg'.layer, tables', TRUE, scanline + 1)
    BY <2>1, <2>2, <2>3, <2>4, <2>5, LaidGrows
  <2>7. LaidIn(fg'.layer, tables', FALSE, scanline + 1)
    BY <2>1, <2>2, <2>3, <2>4, <2>5, LaidGrows
  <2> QED
    BY <1>1, <2>1, <2>2, <2>6, <2>7
<1>3. CASE LastLine
  <2>1. Kept /\ bbg' = Empty /\ fg' = Empty /\ scanline' = -1
    BY <1>3 DEF LastLine, registers
  <2> QED
    BY <1>1, <2>1, NothingLaid
<1>4. CASE UNCHANGED <<scanline, bbg, fg, tables>> /\ Kept /\ ~moved /\ mask'.sprites = mask.sprites
  BY <1>1, <1>4 DEF SpriteInv
<1>5. CASE WriteMask
  <2>1. ~moved /\ mask'.sprites = mask.sprites
    BY <1>5, Zenon DEF WriteMask, HistoryTypeOK
  <2> QED
    BY <1>4, <1>5, <2>1 DEF WriteMask, Write, buffers
<1>6. CASE WriteCtrl
  <2>1. ~moved /\ ctrl'.height = ctrl.height
    BY <1>6, Zenon DEF WriteCtrl, HistoryTypeOK
  <2> QED
    BY <1>4, <1>6, <2>1 DEF WriteCtrl, Write, buffers
<1>7. CASE WriteScroll \/ WriteOamAddr
  <2>1. UNCHANGED <<scanline, bbg, fg, tables, oam, mask, ctrl, moved>>
    BY <1>7 DEF WriteScroll, WriteOamAddr, Write, buffers
  <2>2. Kept /\ ~moved /\ mask'.sprites = mask.sprites
    BY <2>1
  <2> QED
    BY <1>4, <2>1, <2>2
<1>8. CASE ReadStatus \/ UNCHANGED vars
  <2>1. UNCHANGED <<scanline, bbg, fg, tables, oam, mask, ctrl, moved>>
    BY <1>8 DEF ReadStatus, vars, registers, buffers, history
  <2>2. Kept /\ ~moved /\ mask'.sprites = mask.sprites
    BY <2>1
  <2> QED
    BY <1>4, <2>1, <2>2
<1> QED
  BY <1>2, <1>3, <1>5, <1>6, <1>7, <1>8 DEF Next, Dma, Insert

LEMMA InitSprites == Init => SpriteInv
BY DEF Init, MaskOff, SpriteInv

\* Every row of a sprite on the screen is drawn on a line that shows it.
LEMMA RowIsDrawn ==
  ASSUME RegTypeOK, NEW n \in 0 .. SPRITES - 1, NEW v \in 0 .. TILE - 1,
         SpriteY(n) + v + 1 \in 0 .. HEIGHT - 1
  PROVE  LET first == SpriteY(n) + ((v - SpriteY(n)) % TILE)
         IN  first \in 0 .. LAST_LINE /\ n \in OnLine(first) /\ first % TILE = v
<1> DEFINE y == SpriteY(n)
           q == (v - y) \div TILE
           r == (v - y) % TILE
           l == y + r
<1>1. y \in 0 .. 255 /\ y + v + 1 \in 0 .. HEIGHT - 1
  BY SpriteBytes
<1>2. TILE \in Nat \ {0} /\ HEIGHT \in Nat /\ LAST_LINE \in Nat /\ LAST_LINE >= HEIGHT + TILE - 3
  BY SizesAssumption
<1>3. v \in Int /\ y \in Int /\ y + v <= HEIGHT - 2
  BY <1>1, <1>2
<1>4. q \in Int /\ r \in 0 .. TILE - 1 /\ v - y = q * TILE + r
  <2> DEFINE d == v - y
  <2>1. d \in Int
    BY <1>3
  <2> HIDE DEF d
  <2>2. d \div TILE \in Int /\ d % TILE \in 0 .. TILE - 1 /\ d = (d \div TILE) * TILE + (d % TILE)
    BY <1>2, <2>1, IntDivision
  <2> QED
    BY <2>2 DEF d
<1> HIDE DEF y, q, r
<1>5. l \in 0 .. LAST_LINE /\ l \in Nat
  BY <1>1, <1>2, <1>3, <1>4
<1>6. l % TILE = v
  <2> DEFINE a == l \div TILE
             b == l % TILE
             minus == -q
  <2>1. a \in Nat /\ b \in 0 .. TILE - 1 /\ l = a * TILE + b
    <3> HIDE DEF l
    <3> QED
      BY <1>2, <1>5, Division
  <2>2. minus \in Int /\ minus * TILE = -(q * TILE) /\ q * TILE \in Int
    BY <1>2, <1>4
  <2> HIDE DEF a, b, minus
  <2>3. a * TILE + b = minus * TILE + v
    BY <1>1, <1>2, <1>3, <1>4, <2>1, <2>2
  <2>4. b = v
    <3>1. /\ TILE \in Nat \ {0} /\ a \in Int /\ b \in 0 .. TILE - 1
          /\ minus \in Int /\ v \in 0 .. TILE - 1
      BY <1>1, <1>2, <2>1, <2>2
    <3> QED
      BY <2>3, <3>1, Remainder
  <2> QED
    BY <2>4 DEF b
<1>7. n \in OnLine(l)
  <2>1. ctrl.height \in {TILE, 2 * TILE}
    BY RegFacts
  <2>2. y <= l /\ l <= y + ctrl.height
    BY <1>1, <1>2, <1>4, <2>1
  <2> QED
    BY <2>2 DEF OnLine, y
<1> QED
  BY <1>5, <1>6, <1>7 DEF y, r

\* The table of every line of a picture, before the last one is drawn.
Used == [l \in 0 .. LAST_LINE |-> TableOn(l)]

\* With the last line all sprites are drawn.
LEMMA AllLaid ==
  ASSUME RegTypeOK, NEW p \in Screen, NEW behind \in BOOLEAN
  PROVE  SpritesAt(p, behind) = {IndexOf(x, p) : x \in Laid(Used, p, behind, LAST_LINE)}
<1> DEFINE v(n) == p[2] - SpriteY(n) - 1
           Having == { x \in {0, 1} \X (0 .. SPRITES - 1) :
                         HasPixel(x[1], x[2], p, behind) /\ x[1] \in TablesOf(x[2], v(x[2])) }
<1>1. SpritesAt(p, behind) = {IndexOf(x, p) : x \in Having}
  BY DEF SpritesAt, HasPixel, IndexOf
<1>2. ASSUME NEW x \in Having PROVE x \in Laid(Used, p, behind, LAST_LINE)
  <2> DEFINE n == x[2]
             first == SpriteY(n) + ((v(n) - SpriteY(n)) % TILE)
             again == { l \in SpriteY(n) .. SpriteY(n) + ctrl.height :
                          l <= LAST_LINE /\ l % TILE = v(n) }
  <2>1. n \in 0 .. SPRITES - 1 /\ HasPixel(x[1], n, p, behind) /\ v(n) \in 0 .. TILE - 1
    BY DEF HasPixel
  <2>2. PICK l \in {first} \cup again : TableOn(l) = x[1]
    BY DEF TablesOf
  <2>3. SpriteY(n) \in 0 .. 255 /\ ctrl.height \in Int /\ LAST_LINE \in Nat
    BY <2>1, SpriteBytes, RegFacts, RowsPositive
  <2>4. l \in 0 .. LAST_LINE /\ n \in OnLine(l) /\ l % TILE = v(n)
    <3>1. CASE l = first
      <4>1. SpriteY(n) + v(n) + 1 \in 0 .. HEIGHT - 1
        BY <2>3, SizesAssumption DEF Screen
      <4> HIDE DEF n, v
      <4> QED
        BY <2>1, <3>1, <4>1, RowIsDrawn
    <3>2. CASE l \in again
      <4> HIDE DEF v, n
      <4> QED
        BY <2>1, <2>3, <3>2 DEF OnLine
    <3> QED
      BY <2>2, <3>1, <3>2
  <2>5. Used[l] = x[1]
    BY <2>2, <2>4 DEF Used
  <2>6. DrawnOn(x[1], x[2], p, behind, l)
    BY <2>1, <2>4 DEF DrawnOn
  <2> HIDE DEF first, again, n, v
  <2> QED
    BY <2>4, <2>5, <2>6 DEF Laid
<1>3. ASSUME NEW x \in Laid(Used, p, behind, LAST_LINE) PROVE x \in Having
  <2>1. x \in {0, 1} \X (0 .. SPRITES - 1)
    BY DEF Laid
  <2>2. PICK l \in 0 .. LAST_LINE : Used[l] = x[1] /\ DrawnOn(x[1], x[2], p, behind, l)
    BY DEF Laid
  <2>3. HasPixel(x[1], x[2], p, behind) /\ x[2] \in OnLine(l) /\ l % TILE = v(x[2])
    BY <2>2 DEF DrawnOn
  <2>4. TableOn(l) = x[1]
    BY <2>2 DEF Used
  <2>5. l \in SpriteY(x[2]) .. SpriteY(x[2]) + ctrl.height /\ l <= LAST_LINE
    <3>1. SpriteY(x[2]) \in 0 .. 255 /\ ctrl.height \in Int /\ LAST_LINE \in Nat
      BY <2>1, SpriteBytes, RegFacts, RowsPositive
    <3> QED
      BY <2>3, <3>1 DEF OnLine
  <2> HIDE DEF v
  <2>6. x[1] \in TablesOf(x[2], v(x[2]))
    BY <2>3, <2>4, <2>5 DEF TablesOf
  <2> QED
    BY <2>1, <2>3, <2>6
<1>4. Having = Laid(Used, p, behind, LAST_LINE)
  <2> HIDE DEF Having
  <2> QED
    BY <1>2, <1>3
<1> HIDE DEF Having
<1> QED
  BY <1>1, <1>4

\* The foremost of three layers over the backdrop.
LEMMA Foremost ==
  ASSUME NEW a, NEW b, NEW c
  PROVE  LET shown == <<a, b, c, 0>>
         IN  shown[CHOOSE i \in 1 .. 4 : shown[i] # Clear /\ \A j \in 1 .. i - 1 : shown[j] = Clear]
               = IF a # Clear THEN a ELSE IF b # Clear THEN b ELSE IF c # Clear THEN c ELSE 0
<1> DEFINE shown == <<a, b, c, 0>>
           First(i) == shown[i] # Clear /\ \A j \in 1 .. i - 1 : shown[j] = Clear
           k == CHOOSE i \in 1 .. 4 : First(i)
<1>1. shown[1] = a /\ shown[2] = b /\ shown[3] = c /\ shown[4] = 0 /\ 0 # Clear
  BY DEF Clear
<1> HIDE DEF shown
<1>2. \E i \in 1 .. 4 : First(i)
  <2>1. CASE a # Clear
    <3>1. First(1)
      BY <1>1, <2>1
    <3> QED
      BY <3>1
  <2>2. CASE a = Clear /\ b # Clear
    <3>1. First(2)
      BY <1>1, <2>2
    <3> QED
      BY <3>1
  <2>3. CASE a = Clear /\ b = Clear /\ c # Clear
    <3>1. First(3)
      BY <1>1, <2>3
    <3> QED
      BY <3>1
  <2>4. CASE a = Clear /\ b = Clear /\ c = Clear
    <3>1. First(4)
      BY <1>1, <2>4
    <3> QED
      BY <3>1
  <2> QED
    BY <2>1, <2>2, <2>3, <2>4
<1>3. k \in 1 .. 4 /\ First(k)
  <2> HIDE DEF First
  <2> QED
    BY <1>2
<1> HIDE DEF k
<1>4. shown[k] = IF a # Clear THEN a ELSE IF b # Clear THEN b ELSE IF c # Clear THEN c ELSE 0
  BY <1>1, <1>3
<1> QED
  BY <1>4 DEF k, shown

PictureInv == /\ RegTypeOK /\ PictureTypeOK /\ HistoryTypeOK
              /\ PlayfieldInv /\ SpriteInv

LEMMA PictureInvariance == Spec => []PictureInv
<1>1. Init => PictureInv
  BY InitTypes, TypeParts, InitPlayfield, InitSprites DEF PictureInv
<1>2. PictureInv /\ [Next]_vars => PictureInv'
  <2> SUFFICES ASSUME PictureInv, [Next]_vars PROVE PictureInv'
    OBVIOUS
  <2>1. RegTypeOK' /\ PictureTypeOK' /\ HistoryTypeOK'
    BY RegStep, PictureStep, HistoryStep DEF PictureInv
  <2>2. PlayfieldInv'
    BY PlayfieldInvStep DEF PictureInv, PictureTypeOK, HistoryTypeOK
  <2>3. SpriteInv'
    BY SpriteInvStep DEF PictureInv, PictureTypeOK, HistoryTypeOK
  <2> QED
    BY <2>1, <2>2, <2>3 DEF PictureInv
<1> QED
  BY <1>1, <1>2, PTL DEF Spec

\* With the last line a sprite buffer shows the sprites at p, one on top.
LEMMA SpritesShown ==
  ASSUME RegTypeOK, NEW buf \in Buffer, mask.sprites, NEW behind \in BOOLEAN, NEW p \in Screen,
         scanline = LAST_LINE - 1, LaidIn(buf.layer, tables, behind, scanline)
  PROVE  LET shown == SpritesDrawn(buf, LAST_LINE, behind).layer[p]
         IN  /\ SpritesAt(p, behind) = {} => shown = Clear
             /\ SpritesAt(p, behind) # {} => shown \in SpritesAt(p, behind) /\ shown # Clear
<1> DEFINE layer == SpritesDrawn(buf, LAST_LINE, behind).layer
<1>1. LaidIn(layer, Used, behind, LAST_LINE)
  <2>1. scanline \in -1 .. LAST_LINE - 1 /\ scanline + 1 = LAST_LINE /\ LAST_LINE \in Nat
    BY RowsPositive
  <2>2. Used[scanline + 1] = ctrl.sprites /\ \A l \in 0 .. scanline : Used[l] = tables[l]
    BY <2>1 DEF Used, TableOn
  <2>3. LaidIn(SpritesDrawn(buf, scanline + 1, behind).layer, Used, behind, scanline + 1)
    BY <2>1, <2>2, LaidGrows
  <2> QED
    BY <2>1, <2>3
<1> HIDE DEF layer
<1>2. IF Laid(Used, p, behind, LAST_LINE) = {} THEN layer[p] = Clear
      ELSE \E x \in Laid(Used, p, behind, LAST_LINE) : layer[p] = IndexOf(x, p)
  BY <1>1 DEF LaidIn
<1>3. SpritesAt(p, behind) = {IndexOf(x, p) : x \in Laid(Used, p, behind, LAST_LINE)}
  BY AllLaid
<1>4. ASSUME NEW x \in Laid(Used, p, behind, LAST_LINE) PROVE IndexOf(x, p) # Clear
  <2>1. x[1] \in {0, 1} /\ x[2] \in 0 .. SPRITES - 1 /\ HasPixel(x[1], x[2], p, behind)
    BY DEF Laid, DrawnOn
  <2> DEFINE u == p[1] - SpriteX(x[2])
             v == p[2] - SpriteY(x[2]) - 1
  <2>2. u \in 0 .. TILE - 1 /\ v \in 0 .. TILE - 1
    BY <2>1 DEF HasPixel
  <2> HIDE DEF u, v
  <2>3. SpriteColor(x[1], x[2], u, v) \in 0 .. 3
    BY <2>1, <2>2, SpriteIndexType
  <2>4. oam[4 * x[2] + 2] \in 0 .. 255
    BY <2>1, SpriteBytes
  <2>5. SpriteIndex(x[1], x[2], u, v) # Clear
    BY <2>3, <2>4 DEF SpriteIndex, Clear
  <2> QED
    BY <2>5 DEF IndexOf, u, v
<1> QED
  BY <1>2, <1>3, <1>4 DEF layer

LEMMA PictureHolds == PictureInv => PictureIsRight
<1> SUFFICES ASSUME PictureInv, scanline = LAST_LINE - 1, ~moved, NEW p \in Screen
             PROVE  Composed(p, SpritesDrawn(bbg, LAST_LINE, TRUE), BackgroundDrawn(LAST_LINE),
                             SpritesDrawn(fg, LAST_LINE, FALSE)) \in Expected(p)
  BY DEF PictureIsRight
<1> DEFINE behind == SpritesDrawn(bbg, LAST_LINE, TRUE)
           playfield == BackgroundDrawn(LAST_LINE)
           front == SpritesDrawn(fg, LAST_LINE, FALSE)
           a == IF mask.sprites THEN front.layer[p] ELSE Clear
           b == IF mask.background THEN playfield.layer[p] ELSE Clear
           c == IF mask.sprites THEN behind.layer[p] ELSE Clear
<1>0. /\ RegTypeOK /\ bg \in Buffer /\ bbg \in Buffer /\ fg \in Buffer
      /\ PlayfieldInv /\ SpriteInv
  BY DEF PictureInv, PictureTypeOK
<1>1. Composed(p, behind, playfield, front) =
        IF a # Clear THEN a ELSE IF b # Clear THEN b ELSE IF c # Clear THEN c ELSE 0
  <2>1. Composed(p, behind, playfield, front) =
          LET shown == <<a, b, c, 0>>
          IN  shown[CHOOSE i \in 1 .. 4 : shown[i] # Clear /\ \A j \in 1 .. i - 1 : shown[j] = Clear]
    BY DEF Composed
  <2> HIDE DEF a, b, c, behind, playfield, front
  <2> QED
    BY <2>1, Foremost
<1>2. mask.background => b = PlayfieldAt(p)
  <2> SUFFICES ASSUME mask.background PROVE playfield.layer[p] = bg.layer[p]
    BY <1>0 DEF PlayfieldInv
  <2>1. LAST_LINE \in 0 .. LAST_LINE /\ p[2] # LAST_LINE + 1
    BY SizesAssumption DEF Screen
  <2> QED
    BY <1>0, <2>1, PlayfieldLine
<1>3. mask.sprites => /\ LaidIn(bbg.layer, tables, TRUE, scanline)
                      /\ LaidIn(fg.layer, tables, FALSE, scanline)
  BY <1>0 DEF SpriteInv
<1>4. mask.sprites =>
        /\ SpritesAt(p, TRUE) = {} => c = Clear
        /\ SpritesAt(p, TRUE) # {} => c \in SpritesAt(p, TRUE) /\ c # Clear
  BY <1>0, <1>3, SpritesShown
<1>5. mask.sprites =>
        /\ SpritesAt(p, FALSE) = {} => a = Clear
        /\ SpritesAt(p, FALSE) # {} => a \in SpritesAt(p, FALSE) /\ a # Clear
  BY <1>0, <1>3, SpritesShown
<1>6. /\ ~mask.sprites => a = Clear /\ c = Clear
      /\ ~mask.background => b = Clear
  OBVIOUS
<1> HIDE DEF a, b, c, behind, playfield, front
<1>7. Composed(p, behind, playfield, front) \in Expected(p)
  BY <1>1, <1>2, <1>4, <1>5, <1>6 DEF Expected
<1> QED
  BY <1>7 DEF behind, playfield, front

\* For every size, game and data: a picture drawn while the sprites stay where
\* they are is the one PictureIsRight describes, at every place of the screen,
\* also if the game scrolls or changes nametables and pattern tables meanwhile.
THEOREM PicturesAreRight == Spec => []PictureIsRight
BY PictureInvariance, PictureHolds, PTL
=============================================================================

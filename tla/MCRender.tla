------------------------------ MODULE MCRender ------------------------------
(* Values for Render's constants: tiles of 2 by 2 pixels, two sprites.     *)
EXTENDS Render

\* The sprites' tiles 2 and 3 have one transparent pixel, at another place in
\* the other pattern table, and are of one colour elsewhere.  So has the
\* playfield's tile 4, in one of the tables.
Tiles ==
  [k \in {0, 1} |-> [t \in 0 .. 255 |-> [x, y \in 0 .. 1 |->
     CASE t = 2 -> IF x = 1 - k /\ y = 1 - k THEN 0 ELSE 2 + k
       [] t = 3 -> IF x = 1 - k /\ y = 1 - k THEN 0 ELSE 3 - k
       [] t = 4 -> IF k = 0 \/ y = 1 THEN 2 ELSE 3 * x
       [] OTHER -> 1 + ((x + y) % 3)]]]

Tables ==
  [t \in 0 .. 4 |-> [c \in 0 .. 1, r \in 0 .. 3 |->
     [tile |-> IF c = 1 /\ r = 1 THEN 4 ELSE 1, attr |-> (c + t) % 2]]]

\* y, tile, attributes, x of two overlapping sprites: one in front; one behind
\* the playfield, flipped both ways, whose lower row is below the screen.
Pages == { [i \in 0 .. 7 |-> << 1, 3, 1, 2,   2, 2, 225, 2 >>[i + 1]] }

SomeMasks ==
  { [background |-> TRUE, sprites |-> TRUE, left |-> TRUE],
    [background |-> TRUE, sprites |-> FALSE, left |-> FALSE] }

\* Each of the two tables is for the playfield or for the sprites.
SomeCtrls == { [base |-> 1, height |-> 4, playfield |-> k, sprites |-> 1 - k] : k \in {0, 1} }
=============================================================================

-------------------------------- MODULE Mesh --------------------------------
(***************************************************************************)
(* What the AMR workload is for: an adaptive mesh that covers a square     *)
(* domain.  A tile is replaced by its four quadrants, or four quadrants by *)
(* the tile they make up.                                                  *)
(***************************************************************************)
EXTENDS Integers, FiniteSets

CONSTANTS
  Scale, \* the domain is [0, Scale) in both directions
  Roots  \* the tiles of the initial grid

VARIABLE tiles

\* A box is [x0, x1) by [y0, y1).
Box == [x0 : 0 .. Scale, y0 : 0 .. Scale, x1 : 0 .. Scale, y1 : 0 .. Scale]

MidX(b) == (b.x0 + b.x1) \div 2
MidY(b) == (b.y0 + b.y1) \div 2

\* The children of a box, in the order of split_cell.
Quadrant(b, k) ==
  CASE k = 1 -> [x0 |-> b.x0, y0 |-> MidY(b), x1 |-> MidX(b), y1 |-> b.y1]
    [] k = 2 -> [x0 |-> MidX(b), y0 |-> MidY(b), x1 |-> b.x1, y1 |-> b.y1]
    [] k = 3 -> [x0 |-> b.x0, y0 |-> b.y0, x1 |-> MidX(b), y1 |-> MidY(b)]
    [] k = 4 -> [x0 |-> MidX(b), y0 |-> b.y0, x1 |-> b.x1, y1 |-> MidY(b)]
Quadrants(b) == {Quadrant(b, k) : k \in 1 .. 4}

Covers(b, x, y) == b.x0 <= x /\ x < b.x1 /\ b.y0 <= y /\ y < b.y1

\* Every point of the domain is in exactly one box of the set.
Tiling(boxes) ==
  \A x, y \in 0 .. Scale - 1 : \E b \in boxes :
    /\ Covers(b, x, y)
    /\ \A c \in boxes : Covers(c, x, y) => c = b

Init == tiles = Roots

Refine(b) ==
  /\ b \in tiles
  /\ tiles' = (tiles \ {b}) \cup Quadrants(b)

Coarsen(b) ==
  /\ Quadrants(b) \subseteq tiles
  /\ tiles' = (tiles \ Quadrants(b)) \cup {b}

\* The box whose lower left corner is that of p and upper right corner that of q.
Hull(p, q) == [x0 |-> p.x0, y0 |-> p.y0, x1 |-> q.x1, y1 |-> q.y1]

Next == \/ \E b \in tiles : Refine(b)
        \/ \E p, q \in tiles : Coarsen(Hull(p, q))

Spec == Init /\ [][Next]_tiles
=============================================================================

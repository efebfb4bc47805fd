------------------------------ MODULE AmrTree -------------------------------
(***************************************************************************)
(* The AMR workload, amr_counts.cpp: a quadtree in a pool of cells that is *)
(* only ever allocated from, adapted in NUM_STEPS steps.  A step gives     *)
(* every leaf a new value, splits leaves whose estimated variation is      *)
(* above REFINE_THRESHOLD, and then, from the youngest cell to the oldest, *)
(* merges the children of cells whose variation is below                   *)
(* COARSEN_THRESHOLD.                                                      *)
(*                                                                         *)
(* The sampled field is left open: the variation of a cell is any element  *)
(* of Variations, but the same one whenever it is estimated in one step,   *)
(* because estimate_variation is a function of the cell and the step.  A   *)
(* value is the step whose field it was computed from.                     *)
(***************************************************************************)
EXTENDS Integers, Sequences, FiniteSets

CONSTANTS
  MaxCells,   \* MAX_CELLS
  MaxDepth,   \* MAX_DEPTH
  GridX, GridY, \* ROOT_GRID_X and ROOT_GRID_Y
  NumSteps,   \* NUM_STEPS
  Scale,      \* DOMAIN_SCALE
  RefineThreshold, CoarsenThreshold,
  Variations  \* bound: the variations that are considered

ASSUME SizesAssumption ==
  /\ MaxCells \in Nat \ {0} /\ MaxDepth \in Nat /\ NumSteps \in Nat \ {0}
  /\ GridX \in Nat \ {0} /\ GridY \in Nat \ {0} /\ Scale \in Nat \ {0}

ASSUME ThresholdsAssumption ==
  /\ RefineThreshold \in Nat /\ CoarsenThreshold \in Nat
  /\ CoarsenThreshold <= RefineThreshold
  /\ Variations \subseteq Nat

VARIABLES
  cells,     \* g_cells
  count,     \* g_cell_count
  t,         \* the step
  pc,        \* "begin", "refine" or "coarsen" a step, or "done"
  i,         \* the cell the current loop is at
  initial,   \* initial_count of adapt_refine
  variation  \* what estimate_variation has returned in this step, for the cells
             \* that are estimated again or whose children stay unmerged

vars == <<cells, count, t, pc, i, initial, variation>>

None == -1
Indices == 0 .. MaxCells - 1
Allocated == 0 .. count - 1

\* The boxes of the initial grid, row by row (init_roots); the last column and
\* row take what the division leaves over.
Root(n) ==
  LET dx == Scale \div GridX
      dy == Scale \div GridY
      col == n % GridX
      row == n \div GridX
  IN [x0 |-> col * dx, y0 |-> row * dy,
      x1 |-> IF col = GridX - 1 THEN Scale ELSE (col + 1) * dx,
      y1 |-> IF row = GridY - 1 THEN Scale ELSE (row + 1) * dy]
NRoots == IF GridX * GridY <= MaxCells THEN GridX * GridY ELSE MaxCells

Geometry == INSTANCE Mesh WITH Roots <- {Root(n) : n \in 0 .. NRoots - 1}, tiles <- {}

NoBox == [x0 |-> 0, y0 |-> 0, x1 |-> 0, y1 |-> 0]

\* What alloc_cell makes of a slot.
Fresh == [alive |-> TRUE, leaf |-> TRUE, parent |-> None,
          child |-> <<None, None, None, None>>,
          box |-> NoBox, depth |-> 0, value |-> None]
Unused == [Fresh EXCEPT !.alive = FALSE, !.leaf = FALSE]

IsLeaf(n) == n \in Allocated /\ cells[n].alive /\ cells[n].leaf
IsInner(n) == n \in Allocated /\ cells[n].alive /\ ~ cells[n].leaf
Children(n) == {cells[n].child[k] : k \in 1 .. 4}

Link == Indices \cup {None}
Cell == [alive : BOOLEAN, leaf : BOOLEAN, parent : Link,
         child : [1 .. 4 -> Link], box : Geometry!Box,
         depth : 0 .. MaxDepth, value : 0 .. NumSteps \cup {None}]
-----------------------------------------------------------------------------
Init ==
  /\ cells = [n \in Indices |->
       IF n < NRoots THEN [Fresh EXCEPT !.box = Root(n), !.value = 0] ELSE Unused]
  /\ count = NRoots
  /\ t = 0 /\ pc = "begin" /\ i = 0 /\ initial = 0
  /\ variation = [n \in Indices |-> None]

\* m5_work_begin, m5_dram_opt_enter and update_leaf_values.
BeginStep ==
  /\ pc = "begin" /\ t < NumSteps
  /\ cells' = [n \in Indices |->
       IF IsLeaf(n) THEN [cells[n] EXCEPT !.value = t] ELSE cells[n]]
  /\ pc' = "refine" /\ i' = 0 /\ initial' = count
  /\ variation' = [n \in Indices |-> None]
  /\ UNCHANGED <<count, t>>

\* estimate_variation(n, t).
Estimates(n) == IF variation[n] = None THEN Variations ELSE {variation[n]}

\* split_cell does nothing to a cell too narrow to be halved in both directions.
CanHalve(b) ==
  /\ Geometry!MidX(b) \notin {b.x0, b.x1}
  /\ Geometry!MidY(b) \notin {b.y0, b.y1}

Room(n) == count + n <= MaxCells

\* Fault: the child is not linked to its parent.
ChildWithoutParent(n, k) ==
  [Fresh EXCEPT !.depth = cells[n].depth + 1,
                !.box = Geometry!Quadrant(cells[n].box, k), !.value = t]

\* The k-th child of n.
ChildOf(n, k) ==
  [Fresh EXCEPT !.parent = n, !.depth = cells[n].depth + 1,
                !.box = Geometry!Quadrant(cells[n].box, k), !.value = t]

\* Fault: the split cell stays a leaf.
SplitStaysLeaf(n) ==
  /\ CanHalve(cells[n].box) /\ Room(4)
  /\ cells' = [m \in Indices |->
       IF m = n THEN [cells[n] EXCEPT !.child = [k \in 1 .. 4 |-> count + k - 1]]
       ELSE IF m \in count .. count + 3 THEN ChildOf(n, m - count + 1)
       ELSE cells[m]]
  /\ count' = count + 4

\* split_cell with four free slots left ...
Split(n) ==
  /\ CanHalve(cells[n].box) /\ Room(4)
  /\ cells' = [m \in Indices |->
       IF m = n THEN [cells[n] EXCEPT !.leaf = FALSE,
                                      !.child = [k \in 1 .. 4 |-> count + k - 1]]
       ELSE IF m \in count .. count + 3 THEN ChildOf(n, m - count + 1)
       ELSE cells[m]]
  /\ count' = count + 4

\* ... and with fewer: it gives up in the middle, and the slots it has taken
\* stay taken, live leaves without a place in the tree.
GiveUp(n) ==
  /\ CanHalve(cells[n].box) /\ ~ Room(4)
  /\ cells' = [m \in Indices |-> IF m >= count THEN Fresh ELSE cells[m]]
  /\ count' = MaxCells

\* One round of adapt_refine's loop.
RefineSkips ==
  /\ ~ IsLeaf(i) \/ cells[i].depth >= MaxDepth
  /\ UNCHANGED <<cells, count, variation>>

RefineEstimates(v) ==
  /\ IsLeaf(i) /\ cells[i].depth < MaxDepth
  /\ \/ /\ v <= RefineThreshold \/ ~ CanHalve(cells[i].box)
        /\ UNCHANGED <<cells, count, variation>>
     \/ /\ v > RefineThreshold
        /\ Split(i) \/ GiveUp(i)
        /\ variation' = [variation EXCEPT ![i] = v]

\* Fault: the loop also visits the cells it creates.
RefineEndGrows == count

RefineEnd == initial

RefineCell ==
  /\ pc = "refine" /\ i < RefineEnd
  /\ RefineSkips \/ \E v \in Estimates(i) : RefineEstimates(v)
  /\ i' = i + 1
  /\ UNCHANGED <<t, pc, initial>>

RefineDone ==
  /\ pc = "refine" /\ i = RefineEnd
  /\ pc' = "coarsen" /\ i' = count - 1
  /\ UNCHANGED <<cells, count, t, initial, variation>>

\* Fault: children that have been split are not excluded.
FourLive(n) ==
  IsInner(n) /\ None \notin Children(n) /\ \A m \in Children(n) : cells[m].alive

\* can_merge_children, up to the variation.
FourLeaves(n) ==
  IsInner(n) /\ None \notin Children(n) /\ \A m \in Children(n) : IsLeaf(m)

\* Fault: the children are unlinked but stay live leaves.
MergeLeavesChildren(n) ==
  cells' = [cells EXCEPT ![n].leaf = TRUE, ![n].value = t,
                         ![n].child = <<None, None, None, None>>]

\* Fault: the merged cell keeps the value it had when it was split.
MergeKeepsValue(n) ==
  cells' = [m \in Indices |->
    IF m = n THEN [cells[n] EXCEPT !.leaf = TRUE,
                                   !.child = <<None, None, None, None>>]
    ELSE IF m \in Children(n) THEN [cells[m] EXCEPT !.alive = FALSE, !.leaf = FALSE]
    ELSE cells[m]]

Merge(n) ==
  cells' = [m \in Indices |->
    IF m = n THEN [cells[n] EXCEPT !.leaf = TRUE, !.value = t,
                                   !.child = <<None, None, None, None>>]
    ELSE IF m \in Children(n) THEN [cells[m] EXCEPT !.alive = FALSE, !.leaf = FALSE]
    ELSE cells[m]]

CoarsenSkips == ~ FourLeaves(i) /\ UNCHANGED <<cells, variation>>

CoarsenEstimates(v) ==
  /\ FourLeaves(i)
  /\ variation' = [variation EXCEPT ![i] = v]
  /\ \/ v >= CoarsenThreshold /\ UNCHANGED cells
     \/ v < CoarsenThreshold /\ Merge(i)

\* Fault: the loop stops before the first root.
CoarsenEndEarly == 1

CoarsenEnd == 0

CoarsenCell ==
  /\ pc = "coarsen" /\ i >= CoarsenEnd
  /\ CoarsenSkips \/ \E v \in Estimates(i) : CoarsenEstimates(v)
  /\ i' = i - 1
  /\ UNCHANGED <<count, t, pc, initial>>

\* m5_dram_opt_exit and m5_work_end.
EndStep ==
  /\ pc = "coarsen" /\ i = CoarsenEnd - 1
  /\ pc' = IF t + 1 = NumSteps THEN "done" ELSE "begin"
  /\ t' = t + 1
  /\ UNCHANGED <<cells, count, i, initial, variation>>

Stopped == pc = "done" /\ UNCHANGED vars

Next == BeginStep \/ RefineCell \/ RefineDone \/ CoarsenCell \/ EndStep \/ Stopped

Spec == Init /\ [][Next]_vars
-----------------------------------------------------------------------------
(* What the workload promises. *)

Live(n) == n \in Allocated /\ cells[n].alive
Leaves == {n \in Allocated : IsLeaf(n)}
Orphans == {n \in Leaves : n >= NRoots /\ cells[n].parent = None}
StepEnded == pc \in {"begin", "done"} /\ t > 0

\* The live cells form a tree in every state, through splits that run out of
\* slots and merges of cells whose own children were merged before: the links
\* of split_cell and merge_children agree in both directions, and a cell is
\* older than its children, which the scan of adapt_coarsen relies on.
TreeWellFormed ==
  /\ count <= MaxCells
  /\ \A n \in Allocated : IsInner(n) =>
       \A k \in 1 .. 4 : LET m == cells[n].child[k] IN
         /\ m > n /\ Live(m) /\ cells[m].parent = n
         /\ cells[m].depth = cells[n].depth + 1
         /\ cells[m].box = Geometry!Quadrant(cells[n].box, k)
  /\ \A m \in Allocated : Live(m) /\ cells[m].parent # None =>
       IsInner(cells[m].parent) /\ m \in Children(cells[m].parent)

\* Every point of the domain is in exactly one live leaf, although cells die
\* and slots are lost: an orphan covers nothing.
LeavesTileDomain ==
  Geometry!Tiling({cells[n].box : n \in Leaves \ Orphans})
  /\ \A n \in Orphans : cells[n].box = NoBox

\* A split that gives up (line 212) loses at most three slots, and only when
\* that exhausts the pool, so it happens once.
OrphansOnlyWhenFull ==
  Orphans # {} => count = MaxCells /\ Cardinality(Orphans) <= 3

\* One scan from the youngest cell to the oldest is enough (line 322): after a
\* step no cell with four leaf children is left whose variation in that step is
\* below the threshold, also where its children became leaves in that scan.
CoarsenExhaustive ==
  StepEnded => \A n \in Allocated :
    FourLeaves(n) => variation[n] # None /\ variation[n] >= CoarsenThreshold

\* After a step every leaf of the tree has a value of that step, whether it was
\* a leaf before, was created by a split or is the remainder of a merge.
FreshValues ==
  StepEnded => \A n \in Leaves \ Orphans : cells[n].value = t - 1

\* A cell that a step creates is still a leaf when the step ends: the mesh gets
\* at most one level deeper in a step (initial_count, line 311), and a cell that
\* was split is not merged again by the same step, which the distance of the two
\* thresholds is for (lines 12 and 13).
CreatedCellsStay ==
  StepEnded => \A n \in initial .. count - 1 : IsLeaf(n)

\* The leaves with an area are the tiles of an adaptive mesh: a step of the
\* workload replaces one tile by its quadrants, four quadrants by their tile, or
\* leaves the mesh as it is.
AMesh == INSTANCE Mesh WITH
  Roots <- {Root(n) : n \in 0 .. NRoots - 1},
  tiles <- {cells[n].box : n \in Leaves \ Orphans}
ImplementsMesh == AMesh!Spec
=============================================================================

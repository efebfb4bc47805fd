---------------------------- MODULE AmrTreeProofs ----------------------------
(***************************************************************************)
(* Proofs about AmrTree, for every size of the pool and of the domain,     *)
(* every initial grid, depth, number of steps and pair of thresholds: the  *)
(* tree in the pool, then the tiling, then the abstract mesh.              *)
(***************************************************************************)
EXTENDS AmrTree, FiniteSetTheorems, TLAPS

Pcs == {"begin", "refine", "coarsen", "done"}

\* A box of the domain; it may be empty, but its corners are in order.
Proper(b) == b \in Geometry!Box /\ b.x0 <= b.x1 /\ b.y0 <= b.y1

TypeOK ==
  /\ cells \in [Indices -> Cell]
  /\ count \in NRoots .. MaxCells
  /\ t \in 0 .. NumSteps /\ (pc # "done" => t < NumSteps)
  /\ pc \in Pcs
  /\ initial \in 0 .. count
  /\ i \in Int
  /\ pc = "refine" => i \in 0 .. initial
  /\ pc = "coarsen" => i \in -1 .. count - 1
  /\ variation \in [Indices -> Variations \cup {None}]
  /\ \A n \in Indices : Proper(cells[n].box)
-----------------------------------------------------------------------------
(***************************************************************************)
(* The inductive invariant, part by part.                                  *)
(***************************************************************************)

\* A live cell that is neither a root nor somebody's child is a slot lost by a
\* split that gave up: a leaf without an area at the very end of a full pool.
RootedInv ==
  \A n \in Allocated : Live(n) /\ n >= NRoots /\ cells[n].parent = None =>
    /\ IsLeaf(n) /\ cells[n].box = NoBox
    /\ count = MaxCells /\ n >= MaxCells - 3

\* Within a step every leaf of the tree has the value of the step.
ValueInv ==
  /\ pc \in {"refine", "coarsen"} => \A n \in Leaves \ Orphans : cells[n].value = t
  /\ FreshValues

\* A cell created in the step is a leaf, because the variation of its parent was
\* estimated above the refinement threshold and the estimate is kept.
CreatedInv ==
  pc \in {"refine", "coarsen"} \/ StepEnded =>
    \A n \in initial .. count - 1 :
      /\ IsLeaf(n)
      /\ cells[n].parent # None =>
           variation[cells[n].parent] # None /\ variation[cells[n].parent] > RefineThreshold

\* The scan has left nothing to merge among the cells it has passed.
ScannedInv ==
  pc = "coarsen" => \A n \in Allocated :
    n > i /\ FourLeaves(n) => variation[n] # None /\ variation[n] >= CoarsenThreshold

IInv == /\ TypeOK /\ TreeWellFormed /\ RootedInv
        /\ ValueInv /\ CreatedInv /\ ScannedInv /\ CoarsenExhaustive
-----------------------------------------------------------------------------
(***************************************************************************)
(* Boxes.                                                                  *)
(***************************************************************************)

\* The middle of an interval lies in it.
LEMMA MidFacts ==
  ASSUME NEW b, Proper(b)
  PROVE  /\ Geometry!MidX(b) \in Int /\ b.x0 <= Geometry!MidX(b) /\ Geometry!MidX(b) <= b.x1
         /\ Geometry!MidY(b) \in Int /\ b.y0 <= Geometry!MidY(b) /\ Geometry!MidY(b) <= b.y1
<1>1. Scale \in Nat
  BY SizesAssumption
<1>2. b.x0 \in Nat /\ b.x1 \in Nat /\ b.y0 \in Nat /\ b.y1 \in Nat
      /\ b.x0 <= b.x1 /\ b.y0 <= b.y1
  BY <1>1 DEF Proper, Geometry!Box
<1>3. ASSUME NEW p \in Nat, NEW q \in Nat, p <= q
      PROVE  (p + q) \div 2 \in Int /\ p <= (p + q) \div 2 /\ (p + q) \div 2 <= q
  BY <1>3
<1> QED
  BY <1>2, <1>3 DEF Geometry!MidX, Geometry!MidY

\* The quadrants of a box, corner by corner.
LEMMA QuadrantCorners ==
  ASSUME NEW b
  PROVE  /\ /\ Geometry!Quadrant(b, 1).x0 = b.x0
            /\ Geometry!Quadrant(b, 1).x1 = Geometry!MidX(b)
            /\ Geometry!Quadrant(b, 1).y0 = Geometry!MidY(b)
            /\ Geometry!Quadrant(b, 1).y1 = b.y1
         /\ /\ Geometry!Quadrant(b, 2).x0 = Geometry!MidX(b)
            /\ Geometry!Quadrant(b, 2).x1 = b.x1
            /\ Geometry!Quadrant(b, 2).y0 = Geometry!MidY(b)
            /\ Geometry!Quadrant(b, 2).y1 = b.y1
         /\ /\ Geometry!Quadrant(b, 3).x0 = b.x0
            /\ Geometry!Quadrant(b, 3).x1 = Geometry!MidX(b)
            /\ Geometry!Quadrant(b, 3).y0 = b.y0
            /\ Geometry!Quadrant(b, 3).y1 = Geometry!MidY(b)
         /\ /\ Geometry!Quadrant(b, 4).x0 = Geometry!MidX(b)
            /\ Geometry!Quadrant(b, 4).x1 = b.x1
            /\ Geometry!Quadrant(b, 4).y0 = b.y0
            /\ Geometry!Quadrant(b, 4).y1 = Geometry!MidY(b)
BY DEF Geometry!Quadrant

\* Quadrants are proper boxes.
LEMMA QuadrantProper ==
  ASSUME NEW b, Proper(b), NEW k \in 1 .. 4
  PROVE  Proper(Geometry!Quadrant(b, k))
<1>1. /\ b.x0 \in 0 .. Scale /\ b.x1 \in 0 .. Scale /\ b.y0 \in 0 .. Scale /\ b.y1 \in 0 .. Scale
      /\ Scale \in Nat /\ b.x0 <= b.x1 /\ b.y0 <= b.y1
  BY SizesAssumption DEF Proper, Geometry!Box
<1>2. /\ Geometry!MidX(b) \in 0 .. Scale /\ b.x0 <= Geometry!MidX(b) /\ Geometry!MidX(b) <= b.x1
      /\ Geometry!MidY(b) \in 0 .. Scale /\ b.y0 <= Geometry!MidY(b) /\ Geometry!MidY(b) <= b.y1
  BY <1>1, MidFacts
<1>3. k = 1 \/ k = 2 \/ k = 3 \/ k = 4
  OBVIOUS
<1>4. ASSUME NEW x0 \in 0 .. Scale, NEW x1 \in 0 .. Scale, NEW y0 \in 0 .. Scale,
             NEW y1 \in 0 .. Scale, x0 <= x1, y0 <= y1
      PROVE  Proper([x0 |-> x0, y0 |-> y0, x1 |-> x1, y1 |-> y1])
  BY <1>4 DEF Proper, Geometry!Box
<1>5. Proper(Geometry!Quadrant(b, 1)) /\ Proper(Geometry!Quadrant(b, 2))
      /\ Proper(Geometry!Quadrant(b, 3)) /\ Proper(Geometry!Quadrant(b, 4))
  <2>1. Proper([x0 |-> b.x0, y0 |-> Geometry!MidY(b), x1 |-> Geometry!MidX(b), y1 |-> b.y1])
    BY <1>1, <1>2, <1>4
  <2>2. Proper([x0 |-> Geometry!MidX(b), y0 |-> Geometry!MidY(b), x1 |-> b.x1, y1 |-> b.y1])
    BY <1>1, <1>2, <1>4
  <2>3. Proper([x0 |-> b.x0, y0 |-> b.y0, x1 |-> Geometry!MidX(b), y1 |-> Geometry!MidY(b)])
    BY <1>1, <1>2, <1>4
  <2>4. Proper([x0 |-> Geometry!MidX(b), y0 |-> b.y0, x1 |-> b.x1, y1 |-> Geometry!MidY(b)])
    BY <1>1, <1>2, <1>4
  <2> QED
    BY <2>1, <2>2, <2>3, <2>4 DEF Geometry!Quadrant
<1> QED
  BY <1>3, <1>5
-----------------------------------------------------------------------------
(***************************************************************************)
(* The initial grid.                                                       *)
(***************************************************************************)

\* The constants as the provers need them.
LEMMA ConstantFacts ==
  /\ MaxCells \in Nat /\ MaxCells > 0 /\ NumSteps \in Nat /\ NumSteps > 0 /\ MaxDepth \in Nat
  /\ GridX \in Nat /\ GridX > 0 /\ GridY \in Nat /\ GridY > 0 /\ Scale \in Nat /\ Scale > 0
  /\ NRoots \in Nat /\ NRoots <= MaxCells /\ NRoots <= GridX * GridY
  /\ GridX * GridY \in Nat
<1>1. /\ MaxCells \in Nat /\ MaxCells > 0 /\ NumSteps \in Nat /\ NumSteps > 0 /\ MaxDepth \in Nat
      /\ GridX \in Nat /\ GridX > 0 /\ GridY \in Nat /\ GridY > 0 /\ Scale \in Nat /\ Scale > 0
  BY SizesAssumption
<1>2. GridX * GridY \in Nat
  BY <1>1
<1> QED
  BY <1>1, <1>2 DEF NRoots

\* Division with remainder.
LEMMA DivisionFacts ==
  ASSUME NEW a \in Nat, NEW d \in Nat, d > 0
  PROVE  /\ a \div d \in Nat /\ a % d \in Nat
         /\ a % d < d /\ a = d * (a \div d) + (a % d)
OBVIOUS

\* Where the c-th of g columns (or rows) begins and ends.
First(g, c) == c * (Scale \div g)
Last(g, c) == IF c = g - 1 THEN Scale ELSE (c + 1) * (Scale \div g)

\* A root lies in its column and its row.
LEMMA RootPlace ==
  ASSUME NEW n \in 0 .. NRoots - 1
  PROVE  /\ n % GridX \in 0 .. GridX - 1 /\ n \div GridX \in 0 .. GridY - 1
         /\ n = GridX * (n \div GridX) + (n % GridX)
         /\ Root(n).x0 = First(GridX, n % GridX) /\ Root(n).x1 = Last(GridX, n % GridX)
         /\ Root(n).y0 = First(GridY, n \div GridX) /\ Root(n).y1 = Last(GridY, n \div GridX)
<1>1. /\ n \in Nat /\ n < GridX * GridY /\ GridX \in Nat /\ GridX > 0 /\ GridY \in Nat /\ GridY > 0
  BY ConstantFacts
<1>2. /\ n \div GridX \in Nat /\ n % GridX \in Nat
      /\ n % GridX < GridX /\ n = GridX * (n \div GridX) + (n % GridX)
  BY <1>1, DivisionFacts
<1>3. ASSUME NEW q \in Nat, NEW r \in Nat, GridX * q + r < GridX * GridY
      PROVE  q < GridY
  <2>1. SUFFICES ASSUME q >= GridY PROVE FALSE
    BY <1>1
  <2>2. PICK d \in Nat : q = GridY + d
    BY <1>1, <2>1
  <2>3. GridX * q = GridX * GridY + GridX * d
    BY <1>1, <2>2
  <2>4. GridX * d \in Nat /\ GridX * GridY \in Nat
    BY <1>1
  <2> QED
    BY <1>1, <1>3, <2>3, <2>4
<1>4. n \div GridX < GridY
  BY <1>1, <1>2, <1>3
<1>5. /\ Root(n).x0 = First(GridX, n % GridX) /\ Root(n).x1 = Last(GridX, n % GridX)
      /\ Root(n).y0 = First(GridY, n \div GridX) /\ Root(n).y1 = Last(GridY, n \div GridX)
  BY DEF Root, First, Last
<1> QED
  BY <1>1, <1>2, <1>4, <1>5

\* A column begins and ends within the domain, and before the next one begins.
LEMMA ColumnFacts ==
  ASSUME NEW g \in Nat, g > 0, NEW c \in 0 .. g - 1
  PROVE  /\ First(g, c) \in 0 .. Scale /\ Last(g, c) \in 0 .. Scale
         /\ First(g, c) <= Last(g, c)
         /\ \A e \in 0 .. g - 1 : c < e => Last(g, c) <= First(g, e)
<1> DEFINE d == Scale \div g
<1>1. Scale \in Nat /\ d \in Nat /\ g * d <= Scale
  BY ConstantFacts, DivisionFacts
<1> HIDE DEF d
<1>2. ASSUME NEW a \in Nat, NEW b \in Nat, a <= b
      PROVE  a * d \in Nat /\ b * d \in Nat /\ a * d <= b * d
  <2>1. PICK s \in Nat : b = a + s
    BY <1>2
  <2>2. b * d = a * d + s * d
    BY <1>1, <2>1
  <2>3. a * d \in Nat /\ s * d \in Nat
    BY <1>1
  <2> QED
    BY <2>2, <2>3
<1>3. c * d \in Nat /\ (c + 1) * d \in Nat /\ c * d <= (c + 1) * d
  BY <1>2
<1>4. (c + 1) * d <= g * d /\ g * d \in Nat
  BY <1>2
<1>5. \A e \in 0 .. g - 1 : c < e => (c + 1) * d <= e * d
  BY <1>2
<1>6. First(g, c) = c * d /\ Last(g, c) = IF c = g - 1 THEN Scale ELSE (c + 1) * d
  BY DEF First, Last, d
<1>7. \A e \in 0 .. g - 1 : First(g, e) = e * d
  BY DEF First, d
<1>8. First(g, c) \in 0 .. Scale /\ Last(g, c) \in 0 .. Scale /\ First(g, c) <= Last(g, c)
  BY <1>1, <1>3, <1>4, <1>6
<1>9. ASSUME NEW e \in 0 .. g - 1, c < e
      PROVE  Last(g, c) <= First(g, e)
  <2>1. c # g - 1
    BY <1>9
  <2> QED
    BY <1>5, <1>6, <1>7, <1>9, <2>1
<1> QED
  BY <1>8, <1>9

\* Roots are proper boxes.
LEMMA RootProper ==
  ASSUME NEW n \in 0 .. NRoots - 1
  PROVE  Proper(Root(n))
<1>1. GridX \in Nat /\ GridX > 0 /\ GridY \in Nat /\ GridY > 0
  BY ConstantFacts
<1>2. /\ Root(n).x0 \in 0 .. Scale /\ Root(n).x1 \in 0 .. Scale /\ Root(n).x0 <= Root(n).x1
      /\ Root(n).y0 \in 0 .. Scale /\ Root(n).y1 \in 0 .. Scale /\ Root(n).y0 <= Root(n).y1
  <2>1. /\ First(GridX, n % GridX) \in 0 .. Scale /\ Last(GridX, n % GridX) \in 0 .. Scale
        /\ First(GridX, n % GridX) <= Last(GridX, n % GridX)
    BY <1>1, RootPlace, ColumnFacts
  <2>2. /\ First(GridY, n \div GridX) \in 0 .. Scale /\ Last(GridY, n \div GridX) \in 0 .. Scale
        /\ First(GridY, n \div GridX) <= Last(GridY, n \div GridX)
    BY <1>1, RootPlace, ColumnFacts
  <2> QED
    BY <2>1, <2>2, RootPlace
<1>3. Root(n) = [x0 |-> Root(n).x0, y0 |-> Root(n).y0, x1 |-> Root(n).x1, y1 |-> Root(n).y1]
  BY DEF Root
<1> QED
  BY <1>2, <1>3 DEF Proper, Geometry!Box
-----------------------------------------------------------------------------
(***************************************************************************)
(* The steps, with the cell they are at as a parameter, and what they do   *)
(* to the cells.                                                           *)
(***************************************************************************)

Refines(n, v) ==
  /\ pc = "refine" /\ i < initial /\ n = i
  /\ IsLeaf(n) /\ cells[n].depth < MaxDepth /\ CanHalve(cells[n].box)
  /\ v \in Estimates(n) /\ v > RefineThreshold
  /\ variation' = [variation EXCEPT ![n] = v]
  /\ i' = i + 1 /\ UNCHANGED <<t, pc, initial>>

SplitStep(n, v) == Refines(n, v) /\ Split(n)
GiveUpStep(n, v) == Refines(n, v) /\ GiveUp(n)

RefinePasses ==
  /\ pc = "refine" /\ i < initial
  /\ i' = i + 1 /\ UNCHANGED <<cells, count, variation, t, pc, initial>>

Coarsens(n, v) ==
  /\ pc = "coarsen" /\ i >= 0 /\ n = i
  /\ FourLeaves(n) /\ v \in Estimates(n)
  /\ variation' = [variation EXCEPT ![n] = v]
  /\ i' = i - 1 /\ UNCHANGED <<count, t, pc, initial>>

MergeStep(n, v) == Coarsens(n, v) /\ v < CoarsenThreshold /\ Merge(n)
KeepStep(n, v) == Coarsens(n, v) /\ v >= CoarsenThreshold /\ UNCHANGED cells

CoarsenPasses ==
  /\ pc = "coarsen" /\ i >= 0 /\ ~ FourLeaves(i)
  /\ i' = i - 1 /\ UNCHANGED <<cells, count, variation, t, pc, initial>>

\* Every step of the specification is one of these.
LEMMA StepCases ==
  ASSUME [Next]_vars
  PROVE  \/ BeginStep \/ RefineDone \/ EndStep \/ UNCHANGED vars
         \/ RefinePasses \/ CoarsenPasses
         \/ \E n, v : SplitStep(n, v) \/ GiveUpStep(n, v)
         \/ \E n, v : MergeStep(n, v) \/ KeepStep(n, v)
<1>1. CASE RefineCell
  <2>1. CASE RefineSkips
    BY <1>1, <2>1 DEF RefineCell, RefineSkips, RefinePasses, RefineEnd
  <2>2. ASSUME NEW v \in Estimates(i), RefineEstimates(v)
        PROVE  RefinePasses \/ \E n, w : SplitStep(n, w) \/ GiveUpStep(n, w)
    <3>1. CASE UNCHANGED <<cells, count, variation>>
      BY <1>1, <3>1 DEF RefineCell, RefinePasses, RefineEnd
    <3>2. CASE v > RefineThreshold /\ (Split(i) \/ GiveUp(i))
               /\ variation' = [variation EXCEPT ![i] = v]
      <4>1. CanHalve(cells[i].box)
        BY <3>2 DEF Split, GiveUp
      <4>2. Refines(i, v)
        BY <1>1, <2>2, <3>2, <4>1 DEF RefineCell, RefineEstimates, Refines, RefineEnd
      <4> QED
        BY <3>2, <4>2 DEF SplitStep, GiveUpStep
    <3> QED
      BY <2>2, <3>1, <3>2 DEF RefineEstimates
  <2> QED
    BY <1>1, <2>1, <2>2 DEF RefineCell
<1>2. CASE CoarsenCell
  <2>1. CASE CoarsenSkips
    BY <1>2, <2>1 DEF CoarsenCell, CoarsenSkips, CoarsenPasses, CoarsenEnd
  <2>2. ASSUME NEW v \in Estimates(i), CoarsenEstimates(v)
        PROVE  MergeStep(i, v) \/ KeepStep(i, v)
    <3>1. Coarsens(i, v)
      BY <1>2, <2>2 DEF CoarsenCell, CoarsenEstimates, Coarsens, CoarsenEnd
    <3> QED
      BY <2>2, <3>1 DEF CoarsenEstimates, MergeStep, KeepStep
  <2> QED
    BY <1>2, <2>1, <2>2 DEF CoarsenCell
<1> QED
  BY <1>1, <1>2 DEF Next, Stopped

\* The types of the fields of a cell.
LEMMA CellFacts ==
  ASSUME TypeOK, NEW n \in Indices
  PROVE  /\ cells[n] \in Cell /\ cells[n].alive \in BOOLEAN /\ cells[n].leaf \in BOOLEAN
         /\ cells[n].parent \in Link /\ cells[n].child \in [1 .. 4 -> Link]
         /\ cells[n].box \in Geometry!Box /\ Proper(cells[n].box)
         /\ cells[n].depth \in 0 .. MaxDepth /\ cells[n].value \in 0 .. NumSteps \cup {None}
BY DEF TypeOK, Cell

\* The allocated cells are slots of the pool.
LEMMA AllocatedFacts ==
  ASSUME TypeOK
  PROVE  /\ count \in Nat /\ NRoots <= count /\ count <= MaxCells
         /\ Allocated \subseteq Indices /\ Allocated \subseteq Nat
         /\ \A n \in Allocated : n < count
BY ConstantFacts DEF TypeOK, Allocated, Indices

\* What a split does: n becomes the parent of four new leaves.
LEMMA SplitEffect ==
  ASSUME TypeOK, NEW n, NEW v, SplitStep(n, v)
  PROVE  /\ n \in Allocated /\ IsLeaf(n) /\ CanHalve(cells[n].box)
         /\ count' = count + 4 /\ count + 4 <= MaxCells
         /\ \A m \in Allocated' : m \in Allocated \/ \E k \in 1 .. 4 : m = count + k - 1
         /\ /\ IsInner(n)' /\ ~ IsLeaf(n)' /\ cells'[n].parent = cells[n].parent
            /\ cells'[n].box = cells[n].box /\ cells'[n].depth = cells[n].depth
            /\ \A k \in 1 .. 4 : cells'[n].child[k] = count + k - 1
         /\ \A m \in Allocated : m # n => cells'[m] = cells[m]
         /\ \A k \in 1 .. 4 : \A m : m = count + k - 1 =>
              /\ m \notin Allocated /\ m \in Indices /\ IsLeaf(m)' /\ ~ IsInner(m)'
              /\ cells'[m].parent = n /\ cells'[m].depth = cells[n].depth + 1
              /\ cells'[m].box = Geometry!Quadrant(cells[n].box, k)
              /\ cells'[m].value = t
<1>1. n \in Allocated /\ IsLeaf(n) /\ CanHalve(cells[n].box) /\ Split(n)
  BY DEF SplitStep, Refines, IsLeaf
<1>2. count' = count + 4 /\ count + 4 <= MaxCells
  BY <1>1 DEF Split, Room
<1>3. /\ count \in Nat /\ MaxCells \in Nat /\ Allocated \subseteq Indices
      /\ \A m \in Allocated : m < count
  BY ConstantFacts, AllocatedFacts
<1>4. \A m \in Allocated' : m \in Allocated \/ \E k \in 1 .. 4 : m = count + k - 1
  <2> SUFFICES ASSUME NEW m \in 0 .. count' - 1, m \notin 0 .. count - 1
               PROVE  \E k \in 1 .. 4 : m = count + k - 1
    BY DEF Allocated
  <2>1. m - count + 1 \in 1 .. 4 /\ m = count + (m - count + 1) - 1
    BY <1>2, <1>3
  <2> QED
    BY <2>1
<1>5. \A m \in Indices : cells'[m] =
        IF m = n THEN [cells[n] EXCEPT !.leaf = FALSE,
                                       !.child = [k \in 1 .. 4 |-> count + k - 1]]
        ELSE IF m \in count .. count + 3 THEN ChildOf(n, m - count + 1)
        ELSE cells[m]
  BY <1>1 DEF Split
<1>6. /\ IsInner(n)' /\ ~ IsLeaf(n)' /\ cells'[n].parent = cells[n].parent
      /\ cells'[n].box = cells[n].box /\ cells'[n].depth = cells[n].depth
      /\ \A k \in 1 .. 4 : cells'[n].child[k] = count + k - 1
  <2>1. cells'[n] = [cells[n] EXCEPT !.leaf = FALSE,
                                     !.child = [k \in 1 .. 4 |-> count + k - 1]]
    BY <1>1, <1>3, <1>5
  <2>2. cells[n] \in Cell /\ cells[n].alive
    BY <1>1, <1>3, CellFacts DEF IsLeaf
  <2>3. /\ cells'[n].alive /\ ~ cells'[n].leaf /\ cells'[n].parent = cells[n].parent
        /\ cells'[n].box = cells[n].box /\ cells'[n].depth = cells[n].depth
        /\ cells'[n].child = [k \in 1 .. 4 |-> count + k - 1]
    BY <2>1, <2>2 DEF Cell
  <2>4. n \in 0 .. count' - 1
    BY <1>1, <1>2, <1>3 DEF Allocated
  <2> QED
    BY <2>3, <2>4 DEF IsInner, IsLeaf, Allocated
<1>7. \A m \in Allocated : m # n => cells'[m] = cells[m]
  <2> SUFFICES ASSUME NEW m \in Allocated, m # n PROVE cells'[m] = cells[m]
    OBVIOUS
  <2>1. m \notin count .. count + 3 /\ m \in Indices
    BY <1>3
  <2> QED
    BY <1>5, <2>1
<1>8. ASSUME NEW k \in 1 .. 4, NEW m, m = count + k - 1
      PROVE  /\ m \notin Allocated /\ m \in Indices /\ IsLeaf(m)' /\ ~ IsInner(m)'
             /\ cells'[m].parent = n /\ cells'[m].depth = cells[n].depth + 1
             /\ cells'[m].box = Geometry!Quadrant(cells[n].box, k)
             /\ cells'[m].value = t
  <2>1. m \in Indices /\ m \in count .. count + 3 /\ m \notin Allocated /\ m # n
        /\ m - count + 1 = k /\ m \in 0 .. count' - 1
    BY <1>1, <1>2, <1>3, <1>8 DEF Indices
  <2>2. cells'[m] = ChildOf(n, k)
    BY <1>5, <2>1
  <2>3. /\ cells'[m].alive /\ cells'[m].leaf /\ cells'[m].parent = n
        /\ cells'[m].depth = cells[n].depth + 1
        /\ cells'[m].box = Geometry!Quadrant(cells[n].box, k)
        /\ cells'[m].value = t
    BY <2>2 DEF ChildOf, Fresh
  <2> QED
    BY <2>1, <2>3 DEF IsLeaf, IsInner, Allocated
<1> QED
  BY <1>1, <1>2, <1>4, <1>6, <1>7, <1>8

\* What a split that gives up does: the rest of the pool becomes leaves without
\* a parent.
LEMMA GiveUpEffect ==
  ASSUME TypeOK, NEW n, NEW v, GiveUpStep(n, v)
  PROVE  /\ n \in Allocated /\ IsLeaf(n) /\ CanHalve(cells[n].box)
         /\ count' = MaxCells /\ count + 4 > MaxCells
         /\ \A m \in Allocated : cells'[m] = cells[m]
         /\ \A m \in Allocated' : m \notin Allocated =>
              /\ m >= count /\ m >= NRoots /\ m >= MaxCells - 3
              /\ IsLeaf(m)' /\ ~ IsInner(m)' /\ cells'[m].parent = None
              /\ cells'[m].box = NoBox
         /\ \A m \in Allocated : m \in Allocated'
<1>1. n \in Allocated /\ IsLeaf(n) /\ CanHalve(cells[n].box) /\ GiveUp(n)
  BY DEF GiveUpStep, Refines, IsLeaf
<1>2. /\ count \in Nat /\ NRoots <= count /\ count <= MaxCells /\ MaxCells \in Nat /\ NRoots \in Nat
      /\ Allocated \subseteq Indices /\ \A m \in Allocated : m < count
  BY ConstantFacts, AllocatedFacts
<1>3. count' = MaxCells /\ count + 4 > MaxCells
  BY <1>1, <1>2 DEF GiveUp, Room
<1>4. \A m \in Indices : cells'[m] = IF m >= count THEN Fresh ELSE cells[m]
  BY <1>1 DEF GiveUp
<1>5. \A m \in Allocated : cells'[m] = cells[m] /\ m \in Allocated'
  BY <1>2, <1>3, <1>4 DEF Allocated
<1>6. ASSUME NEW m \in Allocated', m \notin Allocated
      PROVE  /\ m >= count /\ m >= NRoots /\ m >= MaxCells - 3
             /\ IsLeaf(m)' /\ ~ IsInner(m)' /\ cells'[m].parent = None
             /\ cells'[m].box = NoBox
  <2>1. m \in 0 .. count' - 1 /\ m \notin 0 .. count - 1
    BY <1>6 DEF Allocated
  <2>2. m \in Indices /\ m >= count /\ m >= NRoots /\ m >= MaxCells - 3
    BY <1>2, <1>3, <2>1 DEF Indices
  <2>3. cells'[m] = Fresh
    BY <1>4, <2>2
  <2>4. /\ cells'[m].alive /\ cells'[m].leaf /\ cells'[m].parent = None
        /\ cells'[m].box = NoBox
    BY <2>3 DEF Fresh
  <2> QED
    BY <1>6, <2>2, <2>4 DEF IsLeaf, IsInner
<1> QED
  BY <1>1, <1>3, <1>5, <1>6

\* What a merge does: n becomes a leaf, its four leaf children die.
LEMMA MergeEffect ==
  ASSUME TypeOK, NEW n, NEW v, MergeStep(n, v)
  PROVE  /\ n \in Allocated /\ IsInner(n) /\ FourLeaves(n)
         /\ count' = count /\ Allocated' = Allocated
         /\ n \notin Children(n)
         /\ /\ IsLeaf(n)' /\ ~ IsInner(n)' /\ cells'[n].value = t
            /\ cells'[n].parent = cells[n].parent /\ cells'[n].box = cells[n].box
         /\ \A m \in Children(n) : m \in Allocated /\ IsLeaf(m) /\ ~ IsLeaf(m)' /\ ~ IsInner(m)'
                                   /\ ~ Live(m)'
         /\ \A m \in Allocated : m # n /\ m \notin Children(n) => cells'[m] = cells[m]
<1>1. n \in Allocated /\ IsInner(n) /\ FourLeaves(n) /\ Merge(n) /\ count' = count
  BY DEF MergeStep, Coarsens, FourLeaves, IsInner
<1>2. Allocated' = Allocated
  BY <1>1 DEF Allocated
<1>3. Allocated \subseteq Indices
  BY AllocatedFacts
<1>4. \A m \in Indices : cells'[m] =
        IF m = n THEN [cells[n] EXCEPT !.leaf = TRUE, !.value = t,
                                       !.child = <<None, None, None, None>>]
        ELSE IF m \in Children(n) THEN [cells[m] EXCEPT !.alive = FALSE, !.leaf = FALSE]
        ELSE cells[m]
  BY <1>1 DEF Merge
<1>5. n \notin Children(n) /\ \A m \in Children(n) : m \in Allocated /\ IsLeaf(m)
  BY <1>1 DEF FourLeaves, IsLeaf, IsInner
<1>6. /\ IsLeaf(n)' /\ ~ IsInner(n)' /\ cells'[n].value = t
      /\ cells'[n].parent = cells[n].parent /\ cells'[n].box = cells[n].box
  <2>1. cells[n] \in Cell /\ cells[n].alive
    BY <1>1, <1>3, CellFacts DEF IsInner
  <2>2. cells'[n] = [cells[n] EXCEPT !.leaf = TRUE, !.value = t,
                                     !.child = <<None, None, None, None>>]
    BY <1>1, <1>3, <1>4
  <2>3. /\ cells'[n].alive /\ cells'[n].leaf /\ cells'[n].value = t
        /\ cells'[n].parent = cells[n].parent /\ cells'[n].box = cells[n].box
    BY <2>1, <2>2 DEF Cell
  <2> QED
    BY <1>1, <1>2, <2>3 DEF IsLeaf, IsInner
<1>7. ASSUME NEW m \in Children(n)
      PROVE  ~ IsLeaf(m)' /\ ~ IsInner(m)' /\ ~ Live(m)'
  <2>1. m \in Indices /\ m # n /\ cells[m] \in Cell
    BY <1>3, <1>5, CellFacts
  <2>2. cells'[m] = [cells[m] EXCEPT !.alive = FALSE, !.leaf = FALSE]
    BY <1>4, <2>1
  <2>3. ~ cells'[m].alive
    BY <2>1, <2>2 DEF Cell
  <2> QED
    BY <2>3 DEF IsLeaf, IsInner, Live
<1>8. \A m \in Allocated : m # n /\ m \notin Children(n) => cells'[m] = cells[m]
  BY <1>3, <1>4
<1> QED
  BY <1>1, <1>2, <1>5, <1>6, <1>7, <1>8

\* What the beginning of a step does: the leaves get the value of the step.
LEMMA BeginEffect ==
  ASSUME TypeOK, BeginStep
  PROVE  /\ count' = count /\ Allocated' = Allocated /\ t' = t
         /\ \A m \in Allocated :
              /\ IsLeaf(m)' <=> IsLeaf(m)
              /\ IsInner(m)' <=> IsInner(m)
              /\ cells'[m].parent = cells[m].parent /\ cells'[m].child = cells[m].child
              /\ cells'[m].box = cells[m].box /\ cells'[m].depth = cells[m].depth
              /\ IsLeaf(m) => cells'[m].value = t
<1>1. count' = count /\ Allocated' = Allocated /\ t' = t
  BY DEF BeginStep, Allocated
<1>2. Allocated \subseteq Indices
  BY AllocatedFacts
<1>3. \A m \in Indices : cells'[m] =
        IF IsLeaf(m) THEN [cells[m] EXCEPT !.value = t] ELSE cells[m]
  BY DEF BeginStep
<1>4. ASSUME NEW m \in Allocated
      PROVE  /\ IsLeaf(m)' <=> IsLeaf(m)
             /\ IsInner(m)' <=> IsInner(m)
             /\ cells'[m].parent = cells[m].parent /\ cells'[m].child = cells[m].child
             /\ cells'[m].box = cells[m].box /\ cells'[m].depth = cells[m].depth
             /\ IsLeaf(m) => cells'[m].value = t
  <2>1. m \in Indices /\ cells[m] \in Cell
    BY <1>2, CellFacts
  <2>2. CASE IsLeaf(m)
    <3>1. cells'[m] = [cells[m] EXCEPT !.value = t]
      BY <1>3, <2>1, <2>2
    <3>2. cells[m].alive /\ cells[m].leaf
      BY <2>2 DEF IsLeaf
    <3>3. /\ cells'[m].alive /\ cells'[m].leaf /\ cells'[m].value = t
          /\ cells'[m].parent = cells[m].parent /\ cells'[m].child = cells[m].child
          /\ cells'[m].box = cells[m].box /\ cells'[m].depth = cells[m].depth
      BY <2>1, <3>1, <3>2 DEF Cell
    <3> QED
      BY <1>1, <1>4, <3>2, <3>3 DEF IsLeaf, IsInner
  <2>3. CASE ~ IsLeaf(m)
    <3>1. cells'[m] = cells[m]
      BY <1>3, <2>1, <2>3
    <3> QED
      BY <1>1, <1>4, <2>3, <3>1 DEF IsLeaf, IsInner
  <2> QED
    BY <2>2, <2>3
<1> QED
  BY <1>1, <1>4

\* A cell that a step leaves alone stays a leaf, or inner, or neither.
LEMMA Same ==
  ASSUME NEW m, m \in Allocated, m \in Allocated', cells'[m] = cells[m]
  PROVE  /\ IsLeaf(m)' <=> IsLeaf(m)
         /\ IsInner(m)' <=> IsInner(m)
         /\ Live(m)' <=> Live(m)
BY DEF IsLeaf, IsInner, Live
-----------------------------------------------------------------------------
(***************************************************************************)
(* Types.                                                                  *)
(***************************************************************************)

\* An empty slot is a cell.
LEMMA FreshFacts ==
  /\ Fresh \in Cell /\ Unused \in Cell /\ Proper(NoBox)
  /\ Fresh.box = NoBox /\ Unused.box = NoBox
<1>1. Scale \in Nat /\ MaxDepth \in Nat
  BY ConstantFacts
<1>2. NoBox \in Geometry!Box /\ Proper(NoBox)
  BY <1>1 DEF NoBox, Proper, Geometry!Box
<1>3. <<None, None, None, None>> \in [1 .. 4 -> Link]
  BY DEF Link
<1>4. None \in Link /\ 0 \in 0 .. MaxDepth
  BY <1>1 DEF Link
<1>5. Fresh \in Cell
  BY <1>2, <1>3, <1>4 DEF Fresh, Cell
<1>6. Unused \in Cell
  BY <1>5 DEF Unused, Cell
<1>7. Fresh.box = NoBox /\ Unused.box = NoBox
  BY DEF Fresh, Unused
<1> QED
  BY <1>2, <1>5, <1>6, <1>7

\* The initial state is typed.
LEMMA TypeInit == Init => TypeOK
<1> SUFFICES ASSUME Init PROVE TypeOK
  OBVIOUS
<1>1. /\ NRoots \in Nat /\ NRoots <= MaxCells /\ MaxCells \in Nat
      /\ NumSteps \in Nat /\ NumSteps > 0
  BY ConstantFacts
<1>2. ASSUME NEW n \in Indices
      PROVE  cells[n] \in Cell /\ Proper(cells[n].box)
  <2>1. cells[n] = IF n < NRoots THEN [Fresh EXCEPT !.box = Root(n), !.value = 0] ELSE Unused
    BY DEF Init
  <2>2. CASE n < NRoots
    <3>1. Proper(Root(n)) /\ Root(n) \in Geometry!Box
      BY <1>1, <1>2, <2>2, RootProper DEF Indices, Proper
    <3>2. cells[n] = [Fresh EXCEPT !.box = Root(n), !.value = 0]
      BY <2>1, <2>2
    <3>3. 0 \in 0 .. NumSteps \cup {None}
      BY <1>1
    <3>4. [Fresh EXCEPT !.box = Root(n), !.value = 0] \in Cell
      BY <3>1, <3>3, FreshFacts DEF Cell
    <3>5. [Fresh EXCEPT !.box = Root(n), !.value = 0].box = Root(n)
      BY DEF Fresh
    <3> QED
      BY <3>1, <3>2, <3>4, <3>5
  <2>3. CASE ~ (n < NRoots)
    BY <2>1, <2>3, FreshFacts
  <2> QED
    BY <2>2, <2>3
<1>3. cells \in [Indices -> Cell]
  BY <1>2 DEF Init
<1>4. /\ count \in NRoots .. MaxCells /\ t \in 0 .. NumSteps /\ t < NumSteps
      /\ pc = "begin" /\ initial \in 0 .. count /\ i \in Int
  <2>1. count = NRoots /\ t = 0 /\ pc = "begin" /\ i = 0 /\ initial = 0
    BY DEF Init
  <2> QED
    BY <1>1, <2>1
<1>5. variation \in [Indices -> Variations \cup {None}]
  BY DEF Init
<1> QED
  BY <1>2, <1>3, <1>4, <1>5 DEF TypeOK, Pcs

\* An estimate is a variation, and keeps the estimates typed.
LEMMA EstimateFacts ==
  ASSUME TypeOK, NEW n \in Indices, NEW v \in Estimates(n)
  PROVE  /\ v \in Variations /\ v \in Nat /\ v # None
         /\ [variation EXCEPT ![n] = v] \in [Indices -> Variations \cup {None}]
         /\ variation[n] # None => v = variation[n]
<1>1. variation \in [Indices -> Variations \cup {None}]
  BY DEF TypeOK
<1>2. v \in Variations /\ (variation[n] # None => v = variation[n])
  BY <1>1 DEF Estimates
<1>3. v \in Nat /\ v # None
  BY <1>2, ThresholdsAssumption DEF None
<1> QED
  BY <1>1, <1>2, <1>3

\* The thresholds are ordered numbers.
LEMMA ThresholdFacts ==
  RefineThreshold \in Nat /\ CoarsenThreshold \in Nat /\ CoarsenThreshold <= RefineThreshold
BY ThresholdsAssumption

\* A step keeps the types, if it keeps those of the cells and of the counters.
LEMMA TypeKept ==
  ASSUME cells' \in [Indices -> Cell], \A m \in Indices : Proper(cells'[m].box),
         count' \in NRoots .. MaxCells, t' \in 0 .. NumSteps, pc' # "done" => t' < NumSteps,
         pc' \in Pcs, initial' \in 0 .. count', i' \in Int,
         pc' = "refine" => i' \in 0 .. initial',
         pc' = "coarsen" => i' \in -1 .. count' - 1,
         variation' \in [Indices -> Variations \cup {None}]
  PROVE  TypeOK'
BY DEF TypeOK, Indices

\* Every step keeps the types.
LEMMA TypeStep == TypeOK /\ [Next]_vars => TypeOK'
<1> SUFFICES ASSUME TypeOK, [Next]_vars PROVE TypeOK'
  OBVIOUS
<1>1. /\ MaxCells \in Nat /\ NumSteps \in Nat /\ MaxDepth \in Nat /\ NRoots \in Nat
      /\ count \in Nat /\ NRoots <= count /\ count <= MaxCells
      /\ Allocated \subseteq Indices
  BY ConstantFacts, AllocatedFacts
<1>2. /\ cells \in [Indices -> Cell] /\ \A m \in Indices : Proper(cells[m].box)
      /\ t \in 0 .. NumSteps /\ (pc # "done" => t < NumSteps) /\ pc \in Pcs
      /\ initial \in 0 .. count /\ i \in Int
      /\ variation \in [Indices -> Variations \cup {None}]
      /\ (pc = "refine" => i \in 0 .. initial) /\ (pc = "coarsen" => i \in -1 .. count - 1)
  BY DEF TypeOK
<1>3. CASE BeginStep
  <2>1. ASSUME NEW m \in Indices
        PROVE  cells'[m] \in Cell /\ Proper(cells'[m].box)
    <3>1. cells'[m] = IF IsLeaf(m) THEN [cells[m] EXCEPT !.value = t] ELSE cells[m]
      BY <1>3 DEF BeginStep
    <3>2. cells[m] \in Cell /\ Proper(cells[m].box) /\ t \in 0 .. NumSteps \cup {None}
      BY <1>2
    <3>3. [cells[m] EXCEPT !.value = t] \in Cell
          /\ [cells[m] EXCEPT !.value = t].box = cells[m].box
      BY <3>2 DEF Cell
    <3> QED
      BY <3>1, <3>2, <3>3
  <2>2. cells' \in [Indices -> Cell] /\ variation' \in [Indices -> Variations \cup {None}]
    BY <1>3, <2>1 DEF BeginStep
  <2>3. /\ pc' = "refine" /\ i' = 0 /\ initial' = count /\ count' = count /\ t' = t
        /\ t < NumSteps
    BY <1>3 DEF BeginStep
  <2>4. pc' \in Pcs /\ pc' # "coarsen"
    BY <2>3 DEF Pcs
  <2> QED
    BY <1>1, <1>2, <2>1, <2>2, <2>3, <2>4, TypeKept
<1>4. CASE RefineDone
  <2>1. /\ pc = "refine" /\ pc' = "coarsen" /\ i' = count - 1
        /\ UNCHANGED <<cells, count, t, initial, variation>>
    BY <1>4 DEF RefineDone
  <2>2. pc' \in Pcs /\ pc' # "refine" /\ t < NumSteps /\ i' \in -1 .. count - 1 /\ i' \in Int
    BY <1>1, <1>2, <2>1 DEF Pcs
  <2> QED
    BY <1>1, <1>2, <2>1, <2>2, TypeKept
<1>5. CASE EndStep
  <2>1. /\ pc = "coarsen" /\ t' = t + 1 /\ pc' = IF t + 1 = NumSteps THEN "done" ELSE "begin"
        /\ UNCHANGED <<cells, count, i, initial, variation>>
    BY <1>5 DEF EndStep
  <2>2. t \in 0 .. NumSteps /\ t < NumSteps
    BY <1>2, <2>1
  <2>3. /\ pc' \in Pcs /\ pc' # "refine" /\ pc' # "coarsen"
        /\ t' \in 0 .. NumSteps /\ (pc' # "done" => t' < NumSteps)
    BY <1>1, <2>1, <2>2 DEF Pcs
  <2> QED
    BY <1>1, <1>2, <2>1, <2>3, TypeKept
<1>6. CASE UNCHANGED vars
  <2> SUFFICES ASSUME UNCHANGED vars PROVE TypeOK'
    BY <1>6
  <2>1. UNCHANGED <<cells, count, t, pc, i, initial, variation>>
    BY DEF vars
  <2> QED
    BY <2>1, <1>1, <1>2, TypeKept
<1>7. CASE RefinePasses
  <2>1. /\ pc = "refine" /\ i < initial /\ i' = i + 1
        /\ UNCHANGED <<cells, count, variation, t, pc, initial>>
    BY <1>7 DEF RefinePasses
  <2>2. i' \in 0 .. initial /\ i' \in Int
    BY <1>1, <1>2, <2>1
  <2> QED
    BY <1>1, <1>2, <2>1, <2>2, TypeKept
<1>8. CASE CoarsenPasses
  <2>1. /\ pc = "coarsen" /\ i >= 0 /\ i' = i - 1
        /\ UNCHANGED <<cells, count, variation, t, pc, initial>>
    BY <1>8 DEF CoarsenPasses
  <2>2. i' \in -1 .. count - 1 /\ i' \in Int
    BY <1>1, <1>2, <2>1
  <2> QED
    BY <1>1, <1>2, <2>1, <2>2, TypeKept
<1>9. ASSUME NEW n, NEW v, SplitStep(n, v)
      PROVE  TypeOK'
  <2>1. /\ n \in Allocated /\ IsLeaf(n) /\ CanHalve(cells[n].box)
        /\ count' = count + 4 /\ count + 4 <= MaxCells
    BY <1>9, SplitEffect
  <2>2. /\ pc = "refine" /\ i < initial /\ n = i /\ cells[n].depth < MaxDepth
        /\ v \in Estimates(n) /\ variation' = [variation EXCEPT ![n] = v]
        /\ i' = i + 1 /\ UNCHANGED <<t, pc, initial>> /\ Split(n)
    BY <1>9 DEF SplitStep, Refines
  <2>3. n \in Indices /\ cells[n] \in Cell /\ Proper(cells[n].box)
        /\ cells[n].depth \in 0 .. MaxDepth
    BY <1>1, <2>1, CellFacts
  <2>4. ASSUME NEW m \in Indices
        PROVE  cells'[m] \in Cell /\ Proper(cells'[m].box)
    <3>1. cells'[m] =
            IF m = n THEN [cells[n] EXCEPT !.leaf = FALSE,
                                           !.child = [k \in 1 .. 4 |-> count + k - 1]]
            ELSE IF m \in count .. count + 3 THEN ChildOf(n, m - count + 1)
            ELSE cells[m]
      BY <2>2 DEF Split
    <3>2. CASE m = n
      <4>1. [k \in 1 .. 4 |-> count + k - 1] \in [1 .. 4 -> Link]
        BY <1>1, <2>1 DEF Link, Indices
      <4>2. cells'[m] = [cells[n] EXCEPT !.leaf = FALSE,
                                         !.child = [k \in 1 .. 4 |-> count + k - 1]]
        BY <3>1, <3>2
      <4> QED
        BY <2>3, <4>1, <4>2 DEF Cell
    <3>3. CASE m # n /\ m \in count .. count + 3
      <4>1. PICK k \in 1 .. 4 : k = m - count + 1
        BY <1>1, <3>3
      <4>2. cells'[m] = ChildOf(n, k)
        BY <3>1, <3>3, <4>1
      <4>3. Proper(Geometry!Quadrant(cells[n].box, k))
        BY <2>3, QuadrantProper
      <4>4. /\ n \in Link /\ cells[n].depth + 1 \in 0 .. MaxDepth
            /\ Geometry!Quadrant(cells[n].box, k) \in Geometry!Box
            /\ t \in 0 .. NumSteps \cup {None}
        BY <1>1, <1>2, <2>2, <2>3, <4>3 DEF Link, Proper
      <4>5. ChildOf(n, k) \in Cell
        BY <4>4, FreshFacts DEF ChildOf, Cell
      <4>6. ChildOf(n, k).box = Geometry!Quadrant(cells[n].box, k)
        BY DEF ChildOf, Fresh
      <4> QED
        BY <4>2, <4>3, <4>5, <4>6
    <3>4. CASE m # n /\ m \notin count .. count + 3
      BY <1>2, <3>1, <3>4
    <3> QED
      BY <3>2, <3>3, <3>4
  <2>5. cells' \in [Indices -> Cell]
    BY <2>2, <2>4 DEF Split
  <2>6. variation' \in [Indices -> Variations \cup {None}]
    BY <2>2, <2>3, EstimateFacts
  <2>7. count' \in NRoots .. MaxCells /\ initial' \in 0 .. count'
        /\ i' \in Int /\ i' \in 0 .. initial'
    BY <1>1, <1>2, <2>1, <2>2
  <2> QED
    BY <1>2, <2>2, <2>4, <2>5, <2>6, <2>7, TypeKept
<1>10. ASSUME NEW n, NEW v, GiveUpStep(n, v)
       PROVE  TypeOK'
  <2>1. n \in Allocated /\ count' = MaxCells
    BY <1>10, GiveUpEffect
  <2>2. /\ pc = "refine" /\ i < initial /\ n = i
        /\ v \in Estimates(n) /\ variation' = [variation EXCEPT ![n] = v]
        /\ i' = i + 1 /\ UNCHANGED <<t, pc, initial>> /\ GiveUp(n)
    BY <1>10 DEF GiveUpStep, Refines
  <2>3. ASSUME NEW m \in Indices
        PROVE  cells'[m] \in Cell /\ Proper(cells'[m].box)
    <3>1. cells'[m] = IF m >= count THEN Fresh ELSE cells[m]
      BY <2>2 DEF GiveUp
    <3> QED
      BY <1>2, <3>1, FreshFacts
  <2>4. cells' \in [Indices -> Cell]
    BY <2>2, <2>3 DEF GiveUp
  <2>5. variation' \in [Indices -> Variations \cup {None}]
    BY <1>1, <2>1, <2>2, EstimateFacts
  <2>6. count' \in NRoots .. MaxCells /\ initial' \in 0 .. count'
        /\ i' \in Int /\ i' \in 0 .. initial'
    BY <1>1, <1>2, <2>1, <2>2
  <2> QED
    BY <1>2, <2>2, <2>3, <2>4, <2>5, <2>6, TypeKept
<1>11. ASSUME NEW n, NEW v, MergeStep(n, v)
       PROVE  TypeOK'
  <2>1. n \in Allocated /\ n \in Indices
    BY <1>1, <1>11, MergeEffect
  <2>2. /\ pc = "coarsen" /\ i >= 0 /\ v \in Estimates(n)
        /\ variation' = [variation EXCEPT ![n] = v]
        /\ i' = i - 1 /\ UNCHANGED <<count, t, pc, initial>> /\ Merge(n)
    BY <1>11 DEF MergeStep, Coarsens
  <2>3. ASSUME NEW m \in Indices
        PROVE  cells'[m] \in Cell /\ Proper(cells'[m].box)
    <3>1. cells'[m] =
            IF m = n THEN [cells[n] EXCEPT !.leaf = TRUE, !.value = t,
                                           !.child = <<None, None, None, None>>]
            ELSE IF m \in Children(n) THEN [cells[m] EXCEPT !.alive = FALSE, !.leaf = FALSE]
            ELSE cells[m]
      BY <2>2 DEF Merge
    <3>2. /\ cells[m] \in Cell /\ Proper(cells[m].box)
          /\ t \in 0 .. NumSteps \cup {None}
          /\ <<None, None, None, None>> \in [1 .. 4 -> Link]
      BY <1>2 DEF Link
    <3>3. /\ [cells[m] EXCEPT !.leaf = TRUE, !.value = t,
                              !.child = <<None, None, None, None>>] \in Cell
          /\ [cells[m] EXCEPT !.leaf = TRUE, !.value = t,
                              !.child = <<None, None, None, None>>].box = cells[m].box
      BY <3>2 DEF Cell
    <3>4. /\ [cells[m] EXCEPT !.alive = FALSE, !.leaf = FALSE] \in Cell
          /\ [cells[m] EXCEPT !.alive = FALSE, !.leaf = FALSE].box = cells[m].box
      BY <3>2 DEF Cell
    <3> QED
      BY <3>1, <3>2, <3>3, <3>4
  <2>4. cells' \in [Indices -> Cell]
    BY <2>2, <2>3 DEF Merge
  <2>5. variation' \in [Indices -> Variations \cup {None}]
    BY <2>1, <2>2, EstimateFacts
  <2>6. i' \in -1 .. count' - 1 /\ i' \in Int
    BY <1>1, <1>2, <2>2
  <2> QED
    BY <1>1, <1>2, <2>2, <2>3, <2>4, <2>5, <2>6, TypeKept
<1>12. ASSUME NEW n, NEW v, KeepStep(n, v)
       PROVE  TypeOK'
  <2>1. /\ pc = "coarsen" /\ i >= 0 /\ v \in Estimates(n) /\ n \in Allocated
        /\ variation' = [variation EXCEPT ![n] = v]
        /\ i' = i - 1 /\ UNCHANGED <<cells, count, t, pc, initial>>
    BY <1>12 DEF KeepStep, Coarsens, FourLeaves, IsInner
  <2>2. variation' \in [Indices -> Variations \cup {None}]
    BY <1>1, <2>1, EstimateFacts
  <2>3. i' \in -1 .. count' - 1 /\ i' \in Int
    BY <1>1, <1>2, <2>1
  <2> QED
    BY <1>1, <1>2, <2>1, <2>2, <2>3, TypeKept
<1> QED
  BY <1>3, <1>4, <1>5, <1>6, <1>7, <1>8, <1>9, <1>10, <1>11, <1>12, StepCases
-----------------------------------------------------------------------------
(***************************************************************************)
(* The tree.                                                               *)
(***************************************************************************)

\* A live cell is a leaf or inner, never both.
LEMMA LiveFacts ==
  ASSUME NEW m
  PROVE  /\ Live(m) <=> IsLeaf(m) \/ IsInner(m)
         /\ ~ (IsLeaf(m) /\ IsInner(m))
         /\ Live(m)' <=> IsLeaf(m)' \/ IsInner(m)'
         /\ ~ (IsLeaf(m)' /\ IsInner(m)')
         /\ (Live(m) => m \in Allocated) /\ (Live(m)' => m \in Allocated')
BY DEF Live, IsLeaf, IsInner

\* The links of the tree, with the child as a name of its own.
LEMMA TreeFacts ==
  ASSUME TreeWellFormed
  PROVE  /\ \A p, m : \A k \in 1 .. 4 : IsInner(p) /\ m = cells[p].child[k] =>
              /\ m > p /\ Live(m) /\ cells[m].parent = p
              /\ cells[m].depth = cells[p].depth + 1
              /\ cells[m].box = Geometry!Quadrant(cells[p].box, k)
         /\ \A m, p : Live(m) /\ cells[m].parent = p /\ p # None =>
              IsInner(p) /\ m \in Children(p)
<1>1. ASSUME NEW p, NEW m, NEW k \in 1 .. 4, IsInner(p), m = cells[p].child[k]
      PROVE  /\ m > p /\ Live(m) /\ cells[m].parent = p
             /\ cells[m].depth = cells[p].depth + 1
             /\ cells[m].box = Geometry!Quadrant(cells[p].box, k)
  <2>1. p \in Allocated
    BY <1>1 DEF IsInner
  <2> QED
    BY <1>1, <2>1 DEF TreeWellFormed
<1>2. ASSUME NEW p, NEW m, Live(m), cells[m].parent = p, p # None
      PROVE  IsInner(p) /\ m \in Children(p)
  BY <1>2, LiveFacts DEF TreeWellFormed
<1> QED
  BY <1>1, <1>2

\* ... and the other way round, for the next state.
LEMMA TreeKept ==
  ASSUME count' <= MaxCells,
         \A p, m : \A k \in 1 .. 4 : IsInner(p)' /\ m = cells'[p].child[k] =>
           /\ m > p /\ Live(m)' /\ cells'[m].parent = p
           /\ cells'[m].depth = cells'[p].depth + 1
           /\ cells'[m].box = Geometry!Quadrant(cells'[p].box, k),
         \A m, p : Live(m)' /\ cells'[m].parent = p /\ p # None =>
           IsInner(p)' /\ \E k \in 1 .. 4 : m = cells'[p].child[k]
  PROVE  TreeWellFormed'
<1>1. ASSUME NEW p, NEW k \in 1 .. 4, IsInner(p)'
      PROVE  (LET m == cells[p].child[k] IN
                /\ m > p /\ Live(m) /\ cells[m].parent = p
                /\ cells[m].depth = cells[p].depth + 1
                /\ cells[m].box = Geometry!Quadrant(cells[p].box, k))'
  <2>1. PICK m : m = cells'[p].child[k]
    OBVIOUS
  <2>2. /\ m > p /\ Live(m)' /\ cells'[m].parent = p
        /\ cells'[m].depth = cells'[p].depth + 1
        /\ cells'[m].box = Geometry!Quadrant(cells'[p].box, k)
    BY <1>1, <2>1
  <2> QED
    BY <2>1, <2>2 DEF Live, Allocated
<1>2. ASSUME NEW m, Live(m)', cells'[m].parent # None
      PROVE  (IsInner(cells[m].parent) /\ m \in Children(cells[m].parent))'
  <2>1. PICK p : p = cells'[m].parent
    OBVIOUS
  <2>2. IsInner(p)' /\ \E k \in 1 .. 4 : m = cells'[p].child[k]
    BY <1>2, <2>1
  <2> QED
    BY <2>1, <2>2 DEF IsInner, Children, Allocated
<1> QED
  BY <1>1, <1>2 DEF TreeWellFormed, Live

\* The initial grid is a tree without links.
LEMMA InitCells ==
  ASSUME Init
  PROVE  /\ count = NRoots /\ t = 0 /\ pc = "begin"
         /\ \A n \in Allocated : n \in Indices /\ n < NRoots /\ IsLeaf(n) /\ ~ IsInner(n)
              /\ cells[n].parent = None /\ cells[n].value = 0 /\ cells[n].box = Root(n)
<1>1. count = NRoots /\ t = 0 /\ pc = "begin"
  BY DEF Init
<1>2. ASSUME NEW n \in Allocated
      PROVE  /\ n \in Indices /\ n < NRoots /\ IsLeaf(n) /\ ~ IsInner(n)
             /\ cells[n].parent = None /\ cells[n].value = 0 /\ cells[n].box = Root(n)
  <2>1. n \in Indices /\ n < NRoots
    BY <1>1, <1>2, ConstantFacts DEF Allocated, Indices
  <2>2. cells[n] = IF n < NRoots THEN [Fresh EXCEPT !.box = Root(n), !.value = 0] ELSE Unused
    BY <2>1 DEF Init
  <2>3. cells[n] = [Fresh EXCEPT !.box = Root(n), !.value = 0]
    BY <2>1, <2>2
  <2>4. /\ cells[n].alive /\ cells[n].leaf
        /\ cells[n].parent = None /\ cells[n].value = 0 /\ cells[n].box = Root(n)
    BY <2>3 DEF Fresh
  <2> QED
    BY <2>1, <2>4 DEF IsLeaf, IsInner
<1> QED
  BY <1>1, <1>2

\* The initial cells form a tree, all of them roots.
LEMMA TreeInit == Init => TreeWellFormed /\ RootedInv
<1> SUFFICES ASSUME Init PROVE TreeWellFormed /\ RootedInv
  OBVIOUS
<1>1. TreeWellFormed
  BY InitCells, ConstantFacts DEF TreeWellFormed
<1>2. RootedInv
  <2> SUFFICES ASSUME NEW n \in Allocated, n >= NRoots PROVE FALSE
    BY DEF RootedInv
  <2>1. n \in Nat /\ n < NRoots /\ NRoots \in Nat
    BY InitCells, ConstantFacts DEF Indices
  <2> QED
    BY <2>1
<1> QED
  BY <1>1, <1>2

\* Every step keeps the tree: a split adds a family, a merge removes one, and no
\* other cell loses or gains a parent or a child.
LEMMA TreeStep == TypeOK /\ TreeWellFormed /\ [Next]_vars => TreeWellFormed'
<1> SUFFICES ASSUME TypeOK, TreeWellFormed, [Next]_vars PROVE TreeWellFormed'
  OBVIOUS
<1>1. /\ MaxCells \in Nat /\ count \in Nat /\ count <= MaxCells
      /\ Allocated \subseteq Indices /\ Allocated \subseteq Nat
      /\ \A m \in Allocated : m < count
  BY ConstantFacts, AllocatedFacts
<1>2. CASE UNCHANGED <<cells, count>>
  BY <1>2 DEF TreeWellFormed, IsInner, Live, Children, Allocated
<1>3. CASE BeginStep
  <2>1. /\ count' = count /\ Allocated' = Allocated
        /\ \A m \in Allocated :
             /\ IsLeaf(m)' <=> IsLeaf(m)
             /\ IsInner(m)' <=> IsInner(m)
             /\ cells'[m].parent = cells[m].parent /\ cells'[m].child = cells[m].child
             /\ cells'[m].box = cells[m].box /\ cells'[m].depth = cells[m].depth
    BY <1>3, BeginEffect
  <2>2. \A m : (IsInner(m)' <=> IsInner(m)) /\ (Live(m)' <=> Live(m))
    BY <2>1, LiveFacts
  <2>3. ASSUME NEW p, NEW m, NEW k \in 1 .. 4, IsInner(p)', m = cells'[p].child[k]
        PROVE  /\ m > p /\ Live(m)' /\ cells'[m].parent = p
               /\ cells'[m].depth = cells'[p].depth + 1
               /\ cells'[m].box = Geometry!Quadrant(cells'[p].box, k)
    <3>1. IsInner(p) /\ p \in Allocated /\ m = cells[p].child[k]
      BY <2>1, <2>2, <2>3, LiveFacts
    <3>2. /\ m > p /\ Live(m) /\ cells[m].parent = p /\ m \in Allocated
          /\ cells[m].depth = cells[p].depth + 1
          /\ cells[m].box = Geometry!Quadrant(cells[p].box, k)
      BY <3>1, TreeFacts, LiveFacts
    <3> QED
      BY <2>1, <2>2, <3>1, <3>2
  <2>4. ASSUME NEW m, NEW p, Live(m)', cells'[m].parent = p, p # None
        PROVE  IsInner(p)' /\ \E k \in 1 .. 4 : m = cells'[p].child[k]
    <3>1. Live(m) /\ cells[m].parent = p
      BY <2>1, <2>2, <2>4, LiveFacts
    <3>2. IsInner(p) /\ p \in Allocated /\ \E k \in 1 .. 4 : m = cells[p].child[k]
      BY <2>4, <3>1, TreeFacts, LiveFacts DEF Children
    <3> QED
      BY <2>1, <2>2, <3>2
  <2> QED
    BY <1>1, <2>1, <2>3, <2>4, TreeKept
<1>4. ASSUME NEW n, NEW v, SplitStep(n, v)
      PROVE  TreeWellFormed'
  <2>1. /\ n \in Allocated /\ IsLeaf(n) /\ count' = count + 4 /\ count + 4 <= MaxCells
        /\ \A m \in Allocated' : m \in Allocated \/ \E k \in 1 .. 4 : m = count + k - 1
        /\ IsInner(n)' /\ cells'[n].parent = cells[n].parent
        /\ cells'[n].box = cells[n].box /\ cells'[n].depth = cells[n].depth
        /\ \A k \in 1 .. 4 : cells'[n].child[k] = count + k - 1
        /\ \A m \in Allocated : m # n => cells'[m] = cells[m]
        /\ \A k \in 1 .. 4 : \A m : m = count + k - 1 =>
             /\ m \notin Allocated /\ IsLeaf(m)' /\ ~ IsInner(m)'
             /\ cells'[m].parent = n /\ cells'[m].depth = cells[n].depth + 1
             /\ cells'[m].box = Geometry!Quadrant(cells[n].box, k)
    BY <1>4, SplitEffect
  <2>2. ASSUME NEW m \in Allocated
        PROVE  /\ m \in Allocated' /\ (m # n => (IsInner(m)' <=> IsInner(m)))
               /\ Live(m)' <=> Live(m)
               /\ cells'[m].parent = cells[m].parent
               /\ cells'[m].depth = cells[m].depth /\ cells'[m].box = cells[m].box
    <3>1. m \in Allocated'
      BY <1>1, <2>1, <2>2 DEF Allocated
    <3> QED
      BY <2>1, <2>2, <3>1, Same, LiveFacts
  <2>3. ASSUME NEW p, NEW m, NEW k \in 1 .. 4, IsInner(p)', m = cells'[p].child[k]
        PROVE  /\ m > p /\ Live(m)' /\ cells'[m].parent = p
               /\ cells'[m].depth = cells'[p].depth + 1
               /\ cells'[m].box = Geometry!Quadrant(cells'[p].box, k)
    <3>1. CASE p = n
      <4>1. m = count + k - 1 /\ m > n
        BY <1>1, <2>1, <2>3, <3>1
      <4> QED
        BY <2>1, <3>1, <4>1, LiveFacts
    <3>2. CASE p # n
      <4>1. p \in Allocated /\ IsInner(p) /\ m = cells[p].child[k]
        BY <2>1, <2>2, <2>3, <3>2, LiveFacts
      <4>2. /\ m > p /\ Live(m) /\ cells[m].parent = p /\ m \in Allocated
            /\ cells[m].depth = cells[p].depth + 1
            /\ cells[m].box = Geometry!Quadrant(cells[p].box, k)
        BY <4>1, TreeFacts, LiveFacts
      <4> QED
        BY <2>2, <4>1, <4>2
    <3> QED
      BY <3>1, <3>2
  <2>4. ASSUME NEW m, NEW p, Live(m)', cells'[m].parent = p, p # None
        PROVE  IsInner(p)' /\ \E k \in 1 .. 4 : m = cells'[p].child[k]
    <3>1. CASE m \in Allocated
      <4>1. Live(m) /\ cells[m].parent = p
        BY <2>2, <2>4, <3>1
      <4>2. IsInner(p) /\ p \in Allocated /\ \E k \in 1 .. 4 : m = cells[p].child[k]
        BY <2>4, <4>1, TreeFacts, LiveFacts DEF Children
      <4>3. p # n
        BY <2>1, <4>2, LiveFacts
      <4> QED
        BY <2>1, <2>2, <4>2, <4>3
    <3>2. CASE m \notin Allocated
      <4>1. PICK k \in 1 .. 4 : m = count + k - 1
        BY <2>1, <2>4, <3>2, LiveFacts
      <4>2. p = n
        BY <2>1, <2>4, <4>1
      <4> QED
        BY <2>1, <4>1, <4>2
    <3> QED
      BY <3>1, <3>2
  <2> QED
    BY <2>1, <2>3, <2>4, TreeKept
<1>5. ASSUME NEW n, NEW v, GiveUpStep(n, v)
      PROVE  TreeWellFormed'
  <2>1. /\ count' = MaxCells
        /\ \A m \in Allocated : cells'[m] = cells[m] /\ m \in Allocated'
        /\ \A m \in Allocated' : m \notin Allocated =>
             ~ IsInner(m)' /\ cells'[m].parent = None
    BY <1>5, GiveUpEffect
  <2>2. \A m \in Allocated : (IsInner(m)' <=> IsInner(m)) /\ (Live(m)' <=> Live(m))
    BY <2>1, Same
  <2>3. ASSUME NEW p, NEW m, NEW k \in 1 .. 4, IsInner(p)', m = cells'[p].child[k]
        PROVE  /\ m > p /\ Live(m)' /\ cells'[m].parent = p
               /\ cells'[m].depth = cells'[p].depth + 1
               /\ cells'[m].box = Geometry!Quadrant(cells'[p].box, k)
    <3>1. p \in Allocated /\ IsInner(p) /\ m = cells[p].child[k]
      BY <2>1, <2>2, <2>3, LiveFacts
    <3>2. /\ m > p /\ Live(m) /\ cells[m].parent = p /\ m \in Allocated
          /\ cells[m].depth = cells[p].depth + 1
          /\ cells[m].box = Geometry!Quadrant(cells[p].box, k)
      BY <3>1, TreeFacts, LiveFacts
    <3> QED
      BY <2>1, <2>2, <3>1, <3>2
  <2>4. ASSUME NEW m, NEW p, Live(m)', cells'[m].parent = p, p # None
        PROVE  IsInner(p)' /\ \E k \in 1 .. 4 : m = cells'[p].child[k]
    <3>1. m \in Allocated
      BY <2>1, <2>4, LiveFacts
    <3>2. Live(m) /\ cells[m].parent = p
      BY <2>1, <2>2, <2>4, <3>1
    <3>3. IsInner(p) /\ p \in Allocated /\ \E k \in 1 .. 4 : m = cells[p].child[k]
      BY <2>4, <3>2, TreeFacts, LiveFacts DEF Children
    <3> QED
      BY <2>1, <2>2, <3>3
  <2> QED
    BY <1>1, <2>1, <2>3, <2>4, TreeKept
<1>6. ASSUME NEW n, NEW v, MergeStep(n, v)
      PROVE  TreeWellFormed'
  <2>1. /\ n \in Allocated /\ IsInner(n)
        /\ count' = count /\ Allocated' = Allocated /\ n \notin Children(n)
        /\ IsLeaf(n)' /\ ~ IsInner(n)'
        /\ cells'[n].parent = cells[n].parent /\ cells'[n].box = cells[n].box
        /\ \A m \in Children(n) : IsLeaf(m) /\ ~ IsInner(m)' /\ ~ Live(m)'
        /\ \A m \in Allocated : m # n /\ m \notin Children(n) => cells'[m] = cells[m]
    BY <1>6, MergeEffect
  <2>2. cells'[n].depth = cells[n].depth
    <3>1. n \in Indices /\ cells[n] \in Cell
      BY <1>1, <2>1, CellFacts
    <3>2. cells'[n] = [cells[n] EXCEPT !.leaf = TRUE, !.value = t,
                                       !.child = <<None, None, None, None>>]
      BY <1>6, <3>1 DEF MergeStep, Merge
    <3> QED
      BY <3>1, <3>2 DEF Cell
  <2>3. \A m \in Allocated : m # n /\ m \notin Children(n) =>
          (IsInner(m)' <=> IsInner(m)) /\ (Live(m)' <=> Live(m))
    BY <2>1, Same
  <2>4. \A m \in Children(n) : Live(m) /\ cells[m].parent = n
    BY <2>1, TreeFacts DEF Children
  <2>5. \A m : IsInner(m)' => IsInner(m) /\ m \in Allocated /\ m # n /\ m \notin Children(n)
    BY <2>1, <2>3, LiveFacts
  <2>6. Live(n) /\ Live(n)'
    BY <2>1, LiveFacts
  <2>7. ASSUME NEW p, NEW m, NEW k \in 1 .. 4, IsInner(p)', m = cells'[p].child[k]
        PROVE  /\ m > p /\ Live(m)' /\ cells'[m].parent = p
               /\ cells'[m].depth = cells'[p].depth + 1
               /\ cells'[m].box = Geometry!Quadrant(cells'[p].box, k)
    <3>1. p \in Allocated /\ IsInner(p) /\ cells'[p] = cells[p] /\ p # n
      BY <2>1, <2>5, <2>7
    <3>2. /\ m > p /\ Live(m) /\ cells[m].parent = p /\ m \in Allocated
          /\ cells[m].depth = cells[p].depth + 1
          /\ cells[m].box = Geometry!Quadrant(cells[p].box, k)
      BY <2>7, <3>1, TreeFacts, LiveFacts
    <3>3. m \notin Children(n)
      BY <2>4, <3>1, <3>2
    <3>4. CASE m = n
      BY <2>1, <2>2, <2>6, <3>1, <3>2, <3>4
    <3>5. CASE m # n
      BY <2>1, <2>3, <3>1, <3>2, <3>3, <3>5
    <3> QED
      BY <3>4, <3>5
  <2>8. ASSUME NEW m, NEW p, Live(m)', cells'[m].parent = p, p # None
        PROVE  IsInner(p)' /\ \E k \in 1 .. 4 : m = cells'[p].child[k]
    <3>1. m \in Allocated /\ m \notin Children(n) /\ Live(m) /\ cells[m].parent = p
      BY <2>1, <2>3, <2>6, <2>8, LiveFacts
    <3>2. IsInner(p) /\ p \in Allocated /\ \E k \in 1 .. 4 : m = cells[p].child[k]
      BY <2>8, <3>1, TreeFacts, LiveFacts DEF Children
    <3>3. p # n /\ p \notin Children(n)
      BY <2>1, <3>1, <3>2, LiveFacts DEF Children
    <3> QED
      BY <2>1, <2>3, <3>2, <3>3
  <2> QED
    BY <1>1, <2>1, <2>7, <2>8, TreeKept
<1>7. BeginStep \/ UNCHANGED <<cells, count>>
      \/ (\E n, v : SplitStep(n, v) \/ GiveUpStep(n, v) \/ MergeStep(n, v))
  BY StepCases DEF RefineDone, EndStep, vars, RefinePasses, CoarsenPasses, KeepStep, Coarsens
<1> QED
  BY <1>2, <1>3, <1>4, <1>5, <1>6, <1>7
-----------------------------------------------------------------------------
(***************************************************************************)
(* The slots lost by a split that gives up.                                *)
(***************************************************************************)

\* Which leaves are in the tree.
LEMMA PlaceFacts ==
  ASSUME NEW m
  PROVE  /\ m \in Leaves \ Orphans <=> IsLeaf(m) /\ ~ (m >= NRoots /\ cells[m].parent = None)
         /\ (m \in Leaves \ Orphans)' <=>
              IsLeaf(m)' /\ ~ (m >= NRoots /\ cells'[m].parent = None)
         /\ m \in Orphans <=> IsLeaf(m) /\ m >= NRoots /\ cells[m].parent = None
BY DEF Leaves, Orphans, IsLeaf, NRoots

\* No step makes a cell without a parent but GiveUp, which takes the last slots.
LEMMA RootedStep == TypeOK /\ RootedInv /\ [Next]_vars => RootedInv'
<1> SUFFICES ASSUME TypeOK, RootedInv, [Next]_vars PROVE RootedInv'
  OBVIOUS
<1>1. /\ MaxCells \in Nat /\ count \in Nat /\ count <= MaxCells /\ NRoots \in Nat
      /\ Allocated \subseteq Nat /\ \A m \in Allocated : m < count
  BY ConstantFacts, AllocatedFacts
<1>2. \A m : Live(m) /\ m >= NRoots /\ cells[m].parent = None =>
        IsLeaf(m) /\ cells[m].box = NoBox /\ count = MaxCells /\ m >= MaxCells - 3
  BY LiveFacts DEF RootedInv
<1>3. ASSUME \A m : Live(m)' /\ m >= NRoots /\ cells'[m].parent = None =>
               IsLeaf(m)' /\ cells'[m].box = NoBox /\ count' = MaxCells /\ m >= MaxCells - 3
      PROVE  RootedInv'
  BY <1>3 DEF RootedInv, NRoots
<1>4. CASE UNCHANGED <<cells, count>>
  BY <1>4 DEF RootedInv, IsLeaf, Live, Allocated, NRoots
<1>5. CASE BeginStep
  <2>1. \A m : Live(m)' => Live(m) /\ m \in Allocated
    BY <1>5, BeginEffect, LiveFacts
  <2> QED
    BY <1>2, <1>3, <1>5, <2>1, BeginEffect
<1>6. ASSUME NEW n, NEW v, SplitStep(n, v)
      PROVE  RootedInv'
  <2>1. n \in Nat /\ n # None /\ n \in Allocated /\ count # MaxCells
    <3>1. n \in Allocated /\ count + 4 <= MaxCells
      BY <1>6, SplitEffect
    <3> QED
      BY <1>1, <3>1 DEF None
  <2>2. ASSUME NEW m, Live(m)', m >= NRoots, cells'[m].parent = None
        PROVE  FALSE
    <3>1. CASE m \in Allocated
      <4>1. m \in Allocated'
        BY <2>2, LiveFacts
      <4>2. Live(m) /\ cells[m].parent = None
        BY <1>6, <2>2, <3>1, <4>1, SplitEffect, Same, LiveFacts
      <4> QED
        BY <1>2, <2>1, <2>2, <4>2
    <3>2. CASE m \notin Allocated
      <4>1. \E k \in 1 .. 4 : m = count + k - 1
        BY <1>6, <2>2, <3>2, SplitEffect, LiveFacts
      <4>2. cells'[m].parent = n
        BY <1>6, <4>1, SplitEffect
      <4> QED
        BY <2>1, <2>2, <4>2
    <3> QED
      BY <3>1, <3>2
  <2> QED
    BY <1>3, <2>2
<1>7. ASSUME NEW n, NEW v, GiveUpStep(n, v)
      PROVE  RootedInv'
  <2>1. ASSUME NEW m, Live(m)', m >= NRoots, cells'[m].parent = None
        PROVE  IsLeaf(m)' /\ cells'[m].box = NoBox /\ count' = MaxCells /\ m >= MaxCells - 3
    <3>1. CASE m \in Allocated
      <4>1. m \in Allocated' /\ cells'[m] = cells[m] /\ count' = MaxCells
        BY <1>7, <2>1, <3>1, GiveUpEffect, LiveFacts
      <4>2. Live(m) /\ cells[m].parent = None
        BY <2>1, <3>1, <4>1, Same
      <4> QED
        BY <1>2, <2>1, <3>1, <4>1, <4>2, Same
    <3>2. CASE m \notin Allocated
      BY <1>7, <2>1, <3>2, GiveUpEffect, LiveFacts
    <3> QED
      BY <3>1, <3>2
  <2> QED
    BY <1>3, <2>1
<1>8. ASSUME NEW n, NEW v, MergeStep(n, v)
      PROVE  RootedInv'
  <2>1. ASSUME NEW m, Live(m)', m >= NRoots, cells'[m].parent = None
        PROVE  IsLeaf(m)' /\ cells'[m].box = NoBox /\ count' = MaxCells /\ m >= MaxCells - 3
    <3>1. m \in Allocated /\ m \in Allocated' /\ m \notin Children(n) /\ count' = count
      BY <1>8, <2>1, MergeEffect, LiveFacts
    <3>2. CASE m = n
      <4>1. Live(n) /\ ~ IsLeaf(n) /\ cells[n].parent = None
        BY <1>8, <2>1, <3>2, MergeEffect, LiveFacts
      <4> QED
        BY <1>2, <2>1, <3>2, <4>1
    <3>3. CASE m # n
      <4>1. cells'[m] = cells[m]
        BY <1>8, <3>1, <3>3, MergeEffect
      <4> QED
        BY <1>2, <2>1, <3>1, <4>1, Same
    <3> QED
      BY <3>2, <3>3
  <2> QED
    BY <1>3, <2>1
<1>9. BeginStep \/ UNCHANGED <<cells, count>>
      \/ (\E n, v : SplitStep(n, v) \/ GiveUpStep(n, v) \/ MergeStep(n, v))
  BY StepCases DEF RefineDone, EndStep, vars, RefinePasses, CoarsenPasses, KeepStep, Coarsens
<1> QED
  BY <1>4, <1>5, <1>6, <1>7, <1>8, <1>9

\* Lost slots are among the last three of a full pool.
LEMMA OrphansFew == TypeOK /\ RootedInv => OrphansOnlyWhenFull
<1> SUFFICES ASSUME TypeOK, RootedInv, Orphans # {}
             PROVE  count = MaxCells /\ Cardinality(Orphans) <= 3
  BY DEF OrphansOnlyWhenFull
<1>1. MaxCells \in Nat /\ MaxCells > 0 /\ Allocated \subseteq Nat
  BY ConstantFacts, AllocatedFacts
<1>2. \A n \in Orphans : n \in Allocated /\ count = MaxCells /\ n >= MaxCells - 3
  BY LiveFacts, PlaceFacts DEF RootedInv
<1>3. count = MaxCells
  BY <1>2
<1>4. Orphans \subseteq (MaxCells - 3) .. (MaxCells - 1)
  BY <1>1, <1>2, <1>3 DEF Allocated
<1>5. /\ IsFiniteSet((MaxCells - 3) .. (MaxCells - 1))
      /\ Cardinality((MaxCells - 3) .. (MaxCells - 1)) = 3
  <2>1. MaxCells - 3 \in Int /\ MaxCells - 1 \in Int /\ ~ (MaxCells - 3 > MaxCells - 1)
        /\ (MaxCells - 1) - (MaxCells - 3) + 1 = 3
    BY <1>1
  <2> QED
    BY <2>1, FS_Interval
<1>6. Cardinality(Orphans) <= 3
  BY <1>4, <1>5, FS_Subset
<1> QED
  BY <1>3, <1>6
-----------------------------------------------------------------------------
(***************************************************************************)
(* The values of the leaves.                                               *)
(***************************************************************************)

\* Every leaf of the tree gets the value of the step when the step begins or
\* when it becomes a leaf.
LEMMA ValueStep == TypeOK /\ ValueInv /\ [Next]_vars => ValueInv'
<1> SUFFICES ASSUME TypeOK, ValueInv, [Next]_vars PROVE ValueInv'
  OBVIOUS
<1> DEFINE InStep == pc \in {"refine", "coarsen"}
<1>1. t \in Nat /\ t' \in Nat
  BY TypeStep, ConstantFacts DEF TypeOK
<1>2. /\ InStep => \A m : m \in Leaves \ Orphans => cells[m].value = t
      /\ StepEnded => \A m : m \in Leaves \ Orphans => cells[m].value = t - 1
  BY DEF ValueInv, FreshValues
<1>3. ASSUME InStep', \A m : (m \in Leaves \ Orphans)' => cells'[m].value = t'
      PROVE  ValueInv'
  BY <1>3 DEF ValueInv, FreshValues, StepEnded
<1>4. ASSUME InStep, InStep', t' = t, UNCHANGED <<cells, count>>
      PROVE  ValueInv'
  <2>1. \A m : (m \in Leaves \ Orphans)' <=> m \in Leaves \ Orphans
    BY <1>4, PlaceFacts DEF IsLeaf, Allocated
  <2> QED
    BY <1>2, <1>3, <1>4, <2>1
<1>5. CASE UNCHANGED vars
  BY <1>5 DEF vars, ValueInv, FreshValues, Leaves, Orphans, IsLeaf, Allocated, StepEnded
<1>6. CASE BeginStep
  <2>1. ASSUME NEW m, (m \in Leaves \ Orphans)'
        PROVE  cells'[m].value = t'
    <3>1. IsLeaf(m)' /\ m \in Allocated
      BY <1>6, <2>1, PlaceFacts, LiveFacts, BeginEffect
    <3> QED
      BY <1>6, <3>1, BeginEffect
  <2>2. InStep'
    BY <1>6 DEF BeginStep
  <2> QED
    BY <1>3, <2>1, <2>2
<1>7. CASE RefineDone
  <2>1. InStep /\ InStep' /\ t' = t /\ UNCHANGED <<cells, count>>
    BY <1>7 DEF RefineDone
  <2> QED
    BY <1>4, <2>1
<1>8. CASE RefinePasses \/ CoarsenPasses \/ \E n, v : KeepStep(n, v)
  <2>1. InStep /\ InStep' /\ t' = t /\ UNCHANGED <<cells, count>>
    BY <1>8 DEF RefinePasses, CoarsenPasses, KeepStep, Coarsens
  <2> QED
    BY <1>4, <2>1
<1>9. CASE EndStep
  <2>1. InStep /\ ~ InStep' /\ t' = t + 1 /\ UNCHANGED <<cells, count>>
    BY <1>9 DEF EndStep
  <2>2. \A m : (m \in Leaves \ Orphans)' <=> m \in Leaves \ Orphans
    BY <2>1, PlaceFacts DEF IsLeaf, Allocated
  <2>3. \A m : (m \in Leaves \ Orphans)' => cells'[m].value = t' - 1
    BY <1>1, <1>2, <2>1, <2>2
  <2> QED
    BY <2>1, <2>3 DEF ValueInv, FreshValues
<1>10. ASSUME NEW n, NEW v, SplitStep(n, v)
       PROVE  ValueInv'
  <2>1. InStep /\ InStep' /\ t' = t
    BY <1>10 DEF SplitStep, Refines
  <2>2. ASSUME NEW m, (m \in Leaves \ Orphans)'
        PROVE  cells'[m].value = t'
    <3>1. IsLeaf(m)' /\ m \in Allocated' /\ ~ (m >= NRoots /\ cells'[m].parent = None)
      BY <2>2, PlaceFacts, LiveFacts
    <3>2. CASE m \in Allocated
      <4>1. m # n
        BY <1>10, <3>1, SplitEffect
      <4>2. cells'[m] = cells[m] /\ IsLeaf(m)
        BY <1>10, <3>1, <3>2, <4>1, SplitEffect, Same
      <4> QED
        BY <1>2, <2>1, <3>1, <4>2, PlaceFacts
    <3>3. CASE m \notin Allocated
      <4>1. \E k \in 1 .. 4 : m = count + k - 1
        BY <1>10, <3>1, <3>3, SplitEffect
      <4> QED
        BY <1>10, <2>1, <4>1, SplitEffect
    <3> QED
      BY <3>2, <3>3
  <2> QED
    BY <1>3, <2>1, <2>2
<1>11. ASSUME NEW n, NEW v, GiveUpStep(n, v)
       PROVE  ValueInv'
  <2>1. InStep /\ InStep' /\ t' = t
    BY <1>11 DEF GiveUpStep, Refines
  <2>2. ASSUME NEW m, (m \in Leaves \ Orphans)'
        PROVE  cells'[m].value = t'
    <3>1. IsLeaf(m)' /\ m \in Allocated' /\ ~ (m >= NRoots /\ cells'[m].parent = None)
      BY <2>2, PlaceFacts, LiveFacts
    <3>2. m \in Allocated /\ cells'[m] = cells[m]
      BY <1>11, <3>1, GiveUpEffect
    <3>3. IsLeaf(m)
      BY <3>1, <3>2, Same
    <3> QED
      BY <1>2, <2>1, <3>1, <3>2, <3>3, PlaceFacts
  <2> QED
    BY <1>3, <2>1, <2>2
<1>12. ASSUME NEW n, NEW v, MergeStep(n, v)
       PROVE  ValueInv'
  <2>1. InStep /\ InStep' /\ t' = t
    BY <1>12 DEF MergeStep, Coarsens
  <2>2. ASSUME NEW m, (m \in Leaves \ Orphans)'
        PROVE  cells'[m].value = t'
    <3>1. IsLeaf(m)' /\ m \in Allocated' /\ ~ (m >= NRoots /\ cells'[m].parent = None)
      BY <2>2, PlaceFacts, LiveFacts
    <3>2. CASE m = n
      BY <1>12, <2>1, <3>2, MergeEffect
    <3>3. CASE m # n
      <4>1. m \in Allocated /\ m \notin Children(n) /\ cells'[m] = cells[m]
        BY <1>12, <3>1, <3>3, MergeEffect
      <4>2. IsLeaf(m)
        BY <3>1, <4>1, Same
      <4> QED
        BY <1>2, <2>1, <3>1, <4>1, <4>2, PlaceFacts
    <3> QED
      BY <3>2, <3>3
  <2> QED
    BY <1>3, <2>1, <2>2
<1> QED
  BY <1>5, <1>6, <1>7, <1>8, <1>9, <1>10, <1>11, <1>12, StepCases
-----------------------------------------------------------------------------
(***************************************************************************)
(* The cells that a step creates.                                          *)
(***************************************************************************)

\* Recording an estimate changes that of one cell only.
LEMMA RecordFacts ==
  ASSUME TypeOK, NEW n \in Indices, NEW v, variation' = [variation EXCEPT ![n] = v]
  PROVE  variation'[n] = v /\ \A p \in Indices : p # n => variation'[p] = variation[p]
BY DEF TypeOK

\* A cell created in the step is not merged away by the step: its parent's
\* estimate is above the refinement threshold, so not below that for coarsening.
LEMMA CreatedStep == TypeOK /\ TreeWellFormed /\ CreatedInv /\ [Next]_vars => CreatedInv'
<1> SUFFICES ASSUME TypeOK, TreeWellFormed, CreatedInv, [Next]_vars PROVE CreatedInv'
  OBVIOUS
<1> DEFINE InStep == pc \in {"refine", "coarsen"} \/ StepEnded
           High(p) == variation[p] # None /\ variation[p] > RefineThreshold
<1>1. /\ MaxCells \in Nat /\ count \in Nat /\ count <= MaxCells
      /\ Allocated \subseteq Indices /\ Allocated \subseteq Nat
      /\ \A m \in Allocated : m < count
      /\ initial \in Nat /\ initial <= count
      /\ RefineThreshold \in Nat /\ CoarsenThreshold \in Nat
      /\ CoarsenThreshold <= RefineThreshold
  BY ConstantFacts, AllocatedFacts, ThresholdFacts DEF TypeOK
<1>2. InStep => \A m \in initial .. count - 1 :
        IsLeaf(m) /\ \A p : cells[m].parent = p /\ p # None => High(p)
  BY DEF CreatedInv
<1>3. ASSUME \A m \in initial' .. count' - 1 :
               IsLeaf(m)' /\ \A p : cells'[m].parent = p /\ p # None =>
                 variation'[p] # None /\ variation'[p] > RefineThreshold
      PROVE  CreatedInv'
  BY <1>3 DEF CreatedInv
<1>4. initial .. count - 1 \subseteq Allocated
  BY <1>1 DEF Allocated
<1>5. CASE InStep /\ UNCHANGED <<cells, count, initial, variation>>
  <2>1. \A m : IsLeaf(m)' <=> IsLeaf(m)
    BY <1>5 DEF IsLeaf, Allocated
  <2> QED
    BY <1>2, <1>3, <1>5, <2>1
<1>6. CASE UNCHANGED vars
  <2>1. InStep' <=> InStep
    BY <1>6 DEF vars, StepEnded
  <2>2. CASE InStep
    BY <1>5, <1>6, <2>2 DEF vars
  <2>3. CASE ~ InStep
    BY <2>1, <2>3 DEF CreatedInv
  <2> QED
    BY <2>2, <2>3
<1>7. CASE BeginStep
  <2>1. initial' = count /\ count' = count
    BY <1>7 DEF BeginStep
  <2> QED
    BY <1>1, <1>3, <2>1
<1>8. CASE RefineDone \/ EndStep \/ RefinePasses \/ CoarsenPasses
  BY <1>5, <1>8 DEF RefineDone, EndStep, RefinePasses, CoarsenPasses
<1>9. ASSUME NEW n, NEW v, Refines(n, v)
      PROVE  /\ n \in Indices /\ InStep /\ initial' = initial
             /\ \A m \in initial .. count - 1 : m # n /\ IsLeaf(m)
             /\ variation'[n] # None /\ variation'[n] > RefineThreshold
             /\ \A p \in Indices : High(p) =>
                  variation'[p] # None /\ variation'[p] > RefineThreshold
  <2>1. /\ InStep /\ initial' = initial /\ n \in Allocated /\ n < initial
        /\ v \in Estimates(n) /\ v > RefineThreshold
        /\ variation' = [variation EXCEPT ![n] = v]
    BY <1>9 DEF Refines, IsLeaf
  <2>2. n \in Indices /\ v # None
    BY <1>1, <2>1, EstimateFacts
  <2>3. \A m \in initial .. count - 1 : m # n /\ IsLeaf(m)
    BY <1>1, <1>2, <2>1
  <2> QED
    BY <2>1, <2>2, <2>3, RecordFacts
<1>10. ASSUME NEW n, NEW v, SplitStep(n, v)
       PROVE  CreatedInv'
  <2>1. Refines(n, v)
    BY <1>10 DEF SplitStep
  <2>2. ASSUME NEW m \in initial' .. count' - 1
        PROVE  IsLeaf(m)' /\ \A p : cells'[m].parent = p /\ p # None =>
                 variation'[p] # None /\ variation'[p] > RefineThreshold
    <3>1. m \in Allocated' /\ count' = count + 4
      <4>1. initial' = initial /\ count' = count + 4
        BY <1>9, <1>10, <2>1, SplitEffect
      <4> QED
        BY <1>1, <4>1 DEF Allocated
    <3>2. CASE m \in Allocated
      <4>1. m \in initial .. count - 1
        BY <1>1, <1>9, <2>1, <2>2, <3>2 DEF Allocated
      <4>2. m # n /\ IsLeaf(m) /\ cells'[m] = cells[m]
        BY <1>9, <1>10, <2>1, <3>2, <4>1, SplitEffect
      <4>3. IsLeaf(m)'
        BY <3>1, <3>2, <4>2, Same
      <4>4. ASSUME NEW p, cells'[m].parent = p, p # None
            PROVE  variation'[p] # None /\ variation'[p] > RefineThreshold
        <5>1. p \in Indices
          BY <1>1, <3>2, <4>2, <4>4, CellFacts DEF Link
        <5> QED
          BY <1>2, <1>9, <2>1, <4>1, <4>2, <4>4, <5>1
      <4> QED
        BY <4>3, <4>4
    <3>3. CASE m \notin Allocated
      <4>1. \E k \in 1 .. 4 : m = count + k - 1
        BY <1>10, <3>1, <3>3, SplitEffect
      <4>2. IsLeaf(m)' /\ cells'[m].parent = n
        BY <1>10, <4>1, SplitEffect
      <4> QED
        BY <1>9, <2>1, <4>2
    <3> QED
      BY <3>2, <3>3
  <2> QED
    BY <1>3, <2>2
<1>11. ASSUME NEW n, NEW v, GiveUpStep(n, v)
       PROVE  CreatedInv'
  <2>1. Refines(n, v)
    BY <1>11 DEF GiveUpStep
  <2>2. ASSUME NEW m \in initial' .. count' - 1
        PROVE  IsLeaf(m)' /\ \A p : cells'[m].parent = p /\ p # None =>
                 variation'[p] # None /\ variation'[p] > RefineThreshold
    <3>1. m \in Allocated'
      <4>1. initial' = initial /\ count' = MaxCells
        BY <1>9, <1>11, <2>1, GiveUpEffect
      <4> QED
        BY <1>1, <4>1 DEF Allocated
    <3>2. CASE m \in Allocated
      <4>1. m \in initial .. count - 1
        BY <1>1, <1>9, <2>1, <2>2, <3>2 DEF Allocated
      <4>2. IsLeaf(m) /\ cells'[m] = cells[m]
        BY <1>9, <1>11, <2>1, <3>2, <4>1, GiveUpEffect
      <4>3. IsLeaf(m)'
        BY <3>1, <3>2, <4>2, Same
      <4>4. ASSUME NEW p, cells'[m].parent = p, p # None
            PROVE  variation'[p] # None /\ variation'[p] > RefineThreshold
        <5>1. p \in Indices
          BY <1>1, <3>2, <4>2, <4>4, CellFacts DEF Link
        <5> QED
          BY <1>2, <1>9, <2>1, <4>1, <4>2, <4>4, <5>1
      <4> QED
        BY <4>3, <4>4
    <3>3. CASE m \notin Allocated
      BY <1>11, <3>1, <3>3, GiveUpEffect
    <3> QED
      BY <3>2, <3>3
  <2> QED
    BY <1>3, <2>2
<1>12. ASSUME NEW n, NEW v, Coarsens(n, v)
       PROVE  /\ n \in Indices /\ InStep /\ initial' = initial /\ count' = count
              /\ High(n) => v = variation[n]
              /\ \A p \in Indices : High(p) =>
                   variation'[p] # None /\ variation'[p] > RefineThreshold
  <2>1. /\ InStep /\ initial' = initial /\ count' = count /\ n \in Allocated
        /\ v \in Estimates(n) /\ variation' = [variation EXCEPT ![n] = v]
    BY <1>12 DEF Coarsens, FourLeaves, IsInner
  <2>2. n \in Indices /\ (High(n) => v = variation[n])
    BY <1>1, <2>1, EstimateFacts
  <2> QED
    BY <2>1, <2>2, RecordFacts
<1>13. ASSUME NEW n, NEW v, MergeStep(n, v)
       PROVE  CreatedInv'
  <2>1. Coarsens(n, v) /\ v < CoarsenThreshold
    BY <1>13 DEF MergeStep
  <2>2. ~ High(n)
    <3> SUFFICES ASSUME High(n) PROVE FALSE
      OBVIOUS
    <3>1. v = variation[n] /\ n \in Indices /\ v \in Estimates(n)
      BY <1>12, <2>1 DEF Coarsens
    <3>2. v \in Nat
      BY <3>1, EstimateFacts
    <3> QED
      BY <1>1, <2>1, <3>1, <3>2
  <2>3. ASSUME NEW m \in initial' .. count' - 1
        PROVE  IsLeaf(m)' /\ \A p : cells'[m].parent = p /\ p # None =>
                 variation'[p] # None /\ variation'[p] > RefineThreshold
    <3>1. m \in initial .. count - 1 /\ m \in Allocated /\ IsLeaf(m) /\ m \in Allocated'
      BY <1>2, <1>4, <1>12, <1>13, <2>1, <2>3, MergeEffect
    <3>2. n \in Allocated /\ IsInner(n) /\ n # None
      BY <1>1, <1>13, MergeEffect DEF None
    <3>3. m # n
      BY <3>1, <3>2, LiveFacts
    <3>4. m \notin Children(n)
      <4> SUFFICES ASSUME m \in Children(n) PROVE FALSE
        OBVIOUS
      <4>1. cells[m].parent = n
        BY <3>2, TreeFacts DEF Children
      <4> QED
        BY <1>2, <1>12, <2>1, <2>2, <3>1, <3>2, <4>1
    <3>5. cells'[m] = cells[m]
      BY <1>13, <3>1, <3>3, <3>4, MergeEffect
    <3>6. IsLeaf(m)'
      BY <3>1, <3>5, Same
    <3>7. ASSUME NEW p, cells'[m].parent = p, p # None
          PROVE  variation'[p] # None /\ variation'[p] > RefineThreshold
      <4>1. p \in Indices
        BY <1>1, <3>1, <3>5, <3>7, CellFacts DEF Link
      <4> QED
        BY <1>2, <1>12, <2>1, <3>1, <3>5, <3>7, <4>1
    <3> QED
      BY <3>6, <3>7
  <2> QED
    BY <1>3, <2>3
<1>14. ASSUME NEW n, NEW v, KeepStep(n, v)
       PROVE  CreatedInv'
  <2>1. Coarsens(n, v) /\ cells' = cells
    BY <1>14 DEF KeepStep
  <2>2. ASSUME NEW m \in initial' .. count' - 1
        PROVE  IsLeaf(m)' /\ \A p : cells'[m].parent = p /\ p # None =>
                 variation'[p] # None /\ variation'[p] > RefineThreshold
    <3>1. m \in initial .. count - 1 /\ m \in Allocated /\ IsLeaf(m)
      BY <1>2, <1>4, <1>12, <2>1, <2>2
    <3>2. IsLeaf(m)'
      BY <1>12, <2>1, <3>1 DEF IsLeaf, Allocated
    <3>3. ASSUME NEW p, cells'[m].parent = p, p # None
          PROVE  variation'[p] # None /\ variation'[p] > RefineThreshold
      <4>1. p \in Indices
        BY <1>1, <2>1, <3>1, <3>3, CellFacts DEF Link
      <4> QED
        BY <1>2, <1>12, <2>1, <3>1, <3>3, <4>1
    <3> QED
      BY <3>2, <3>3
  <2> QED
    BY <1>3, <2>2
<1> QED
  BY <1>6, <1>7, <1>8, <1>10, <1>11, <1>13, <1>14, StepCases
-----------------------------------------------------------------------------
(***************************************************************************)
(* The scan of adapt_coarsen.                                              *)
(***************************************************************************)

\* Nothing is left to merge behind the scan: a merge makes a leaf of the cell it
\* is at, which can complete the children of an older cell only.
LEMMA ScannedStep ==
  TypeOK /\ TreeWellFormed /\ ScannedInv /\ CoarsenExhaustive /\ [Next]_vars =>
    ScannedInv' /\ CoarsenExhaustive'
<1> SUFFICES ASSUME TypeOK, TreeWellFormed, ScannedInv, CoarsenExhaustive, [Next]_vars
             PROVE  ScannedInv' /\ CoarsenExhaustive'
  OBVIOUS
<1> DEFINE Settled(m) == variation[m] # None /\ variation[m] >= CoarsenThreshold
<1>1. /\ count \in Nat /\ Allocated \subseteq Indices /\ Allocated \subseteq Nat
      /\ \A m \in Allocated : m < count
      /\ i \in Int
  BY AllocatedFacts DEF TypeOK
<1>2. /\ pc = "coarsen" => \A m : m > i /\ FourLeaves(m) => Settled(m)
      /\ StepEnded => \A m : FourLeaves(m) => Settled(m)
      /\ \A m : FourLeaves(m) => m \in Allocated
  BY DEF ScannedInv, CoarsenExhaustive, FourLeaves, IsInner
<1>3. ASSUME pc' = "coarsen",
             \A m \in Allocated' : m > i' /\ FourLeaves(m)' =>
               variation'[m] # None /\ variation'[m] >= CoarsenThreshold
      PROVE  ScannedInv' /\ CoarsenExhaustive'
  BY <1>3 DEF ScannedInv, CoarsenExhaustive, StepEnded
<1>4. ASSUME pc' = "refine"
      PROVE  ScannedInv' /\ CoarsenExhaustive'
  BY <1>4 DEF ScannedInv, CoarsenExhaustive, StepEnded
<1>5. UNCHANGED <<cells, count>> => \A m : FourLeaves(m)' <=> FourLeaves(m)
  BY DEF FourLeaves, IsInner, IsLeaf, Children, Allocated
<1>6. CASE UNCHANGED vars
  BY <1>6 DEF vars, ScannedInv, CoarsenExhaustive, FourLeaves, IsInner, IsLeaf, Children,
              Allocated, StepEnded
<1>7. CASE BeginStep \/ RefinePasses \/ \E n, v : SplitStep(n, v) \/ GiveUpStep(n, v)
  BY <1>4, <1>7 DEF BeginStep, RefinePasses, SplitStep, GiveUpStep, Refines
<1>8. CASE RefineDone
  <2>1. pc' = "coarsen" /\ i' = count - 1 /\ Allocated' = Allocated
    BY <1>8 DEF RefineDone, Allocated
  <2>2. \A m \in Allocated' : ~ (m > i')
    BY <1>1, <2>1
  <2> QED
    BY <1>3, <2>1, <2>2
<1>9. CASE CoarsenPasses
  <2>1. /\ pc = "coarsen" /\ pc' = "coarsen" /\ ~ FourLeaves(i) /\ i' = i - 1
        /\ UNCHANGED <<cells, count, variation>> /\ Allocated' = Allocated
    BY <1>9 DEF CoarsenPasses, Allocated
  <2>2. ASSUME NEW m \in Allocated', m > i', FourLeaves(m)'
        PROVE  variation'[m] # None /\ variation'[m] >= CoarsenThreshold
    <3>1. FourLeaves(m) /\ m # i
      BY <1>5, <2>1, <2>2
    <3>2. m > i
      BY <1>1, <2>1, <2>2, <3>1
    <3> QED
      BY <1>2, <2>1, <3>1, <3>2
  <2> QED
    BY <1>3, <2>1, <2>2
<1>10. ASSUME NEW n, NEW v, KeepStep(n, v)
       PROVE  ScannedInv' /\ CoarsenExhaustive'
  <2>1. /\ pc = "coarsen" /\ pc' = "coarsen" /\ n = i /\ i' = i - 1 /\ n \in Allocated
        /\ v \in Estimates(n) /\ v >= CoarsenThreshold
        /\ variation' = [variation EXCEPT ![n] = v]
        /\ UNCHANGED <<cells, count>> /\ Allocated' = Allocated
    BY <1>10 DEF KeepStep, Coarsens, FourLeaves, IsInner, Allocated
  <2>2. n \in Indices /\ v # None
    BY <1>1, <2>1, EstimateFacts
  <2>3. variation'[n] = v /\ \A p \in Indices : p # n => variation'[p] = variation[p]
    BY <2>1, <2>2, RecordFacts
  <2>4. ASSUME NEW m \in Allocated', m > i', FourLeaves(m)'
        PROVE  variation'[m] # None /\ variation'[m] >= CoarsenThreshold
    <3>1. CASE m = n
      BY <2>1, <2>2, <2>3, <3>1
    <3>2. CASE m # n
      <4>1. FourLeaves(m) /\ m > i /\ m \in Indices
        BY <1>1, <1>5, <2>1, <2>4, <3>2
      <4> QED
        BY <1>2, <2>1, <2>3, <3>2, <4>1
    <3> QED
      BY <3>1, <3>2
  <2> QED
    BY <1>3, <2>1, <2>4
<1>11. ASSUME NEW n, NEW v, MergeStep(n, v)
       PROVE  ScannedInv' /\ CoarsenExhaustive'
  <2>1. /\ pc = "coarsen" /\ pc' = "coarsen" /\ n = i /\ i' = i - 1
        /\ variation' = [variation EXCEPT ![n] = v]
    BY <1>11 DEF MergeStep, Coarsens
  <2>2. /\ n \in Allocated /\ IsInner(n) /\ Allocated' = Allocated /\ n \notin Children(n)
        /\ ~ IsInner(n)' /\ n \in Indices
        /\ \A m \in Children(n) : ~ IsInner(m)' /\ ~ IsLeaf(m)'
        /\ \A m \in Allocated : m # n /\ m \notin Children(n) => cells'[m] = cells[m]
    BY <1>1, <1>11, MergeEffect
  <2>3. \A p \in Indices : p # n => variation'[p] = variation[p]
    BY <2>1, <2>2, RecordFacts
  <2>4. ASSUME NEW m \in Allocated', m > i', FourLeaves(m)'
        PROVE  variation'[m] # None /\ variation'[m] >= CoarsenThreshold
    <3>1. IsInner(m)' /\ None \notin Children(m)' /\ \A c \in Children(m)' : IsLeaf(c)'
      BY <2>4 DEF FourLeaves
    <3>2. m # n /\ m \notin Children(n) /\ m \in Allocated
      BY <2>2, <2>4, <3>1
    <3>3. cells'[m] = cells[m] /\ IsInner(m) /\ Children(m)' = Children(m)
      BY <2>2, <2>4, <3>1, <3>2, Same DEF Children
    <3>4. m > i
      BY <1>1, <2>1, <2>4, <3>2
    <3>5. n \notin Children(m)
      <4> SUFFICES ASSUME n \in Children(m) PROVE FALSE
        OBVIOUS
      <4>1. n > m
        BY <3>3, TreeFacts DEF Children
      <4>2. n \in Nat /\ m \in Nat /\ m > n
        BY <1>1, <2>1, <2>2, <3>2, <3>4
      <4> QED
        BY <4>1, <4>2
    <3>6. ASSUME NEW c \in Children(m)
          PROVE  IsLeaf(c)
      <4>1. IsLeaf(c)' /\ c # n /\ c \notin Children(n) /\ c \in Allocated'
        BY <2>2, <3>1, <3>3, <3>5, <3>6, LiveFacts
      <4> QED
        BY <2>2, <4>1, Same
    <3>7. FourLeaves(m)
      BY <3>1, <3>3, <3>6 DEF FourLeaves
    <3> QED
      BY <1>1, <1>2, <2>1, <2>3, <3>2, <3>4, <3>7
  <2> QED
    BY <1>3, <2>1, <2>4
<1>12. CASE EndStep
  <2>1. /\ pc = "coarsen" /\ pc' # "coarsen" /\ i = -1
        /\ UNCHANGED <<cells, count, variation>>
    BY <1>12 DEF EndStep, CoarsenEnd
  <2>2. \A m : FourLeaves(m)' => variation'[m] # None /\ variation'[m] >= CoarsenThreshold
    <3> SUFFICES ASSUME NEW m, FourLeaves(m)'
                 PROVE  Settled(m)
      BY <2>1
    <3>1. FourLeaves(m)
      BY <1>5, <2>1
    <3>2. m \in Allocated
      BY <1>2, <3>1
    <3>3. m \in Nat /\ m > i
      BY <1>1, <2>1, <3>2
    <3> QED
      BY <1>2, <2>1, <3>1, <3>3
  <2> QED
    BY <2>1, <2>2 DEF ScannedInv, CoarsenExhaustive
<1> QED
  BY <1>6, <1>7, <1>8, <1>9, <1>10, <1>11, <1>12, StepCases
-----------------------------------------------------------------------------
(***************************************************************************)
(* The theorems.                                                           *)
(***************************************************************************)

\* The invariant holds at first.
LEMMA InitIInv == Init => IInv
<1> SUFFICES ASSUME Init PROVE IInv
  OBVIOUS
<1>1. TypeOK /\ TreeWellFormed /\ RootedInv
  BY TypeInit, TreeInit
<1>2. ~ StepEnded /\ pc = "begin"
  BY InitCells DEF StepEnded
<1> QED
  BY <1>1, <1>2 DEF IInv, ValueInv, FreshValues, CreatedInv, ScannedInv, CoarsenExhaustive

\* Every step keeps the invariant.
LEMMA NextIInv == IInv /\ [Next]_vars => IInv'
BY TypeStep, TreeStep, RootedStep, ValueStep, CreatedStep, ScannedStep DEF IInv

\* The invariant is inductive.
THEOREM AmrInductive == Spec => []IInv
BY InitIInv, NextIInv, PTL DEF Spec

\* The live cells form a tree in every state, whose links agree in both
\* directions and whose cells are older than their children (split_cell,
\* merge_children).
THEOREM Tree == Spec => []TreeWellFormed
<1>1. IInv => TreeWellFormed
  BY DEF IInv
<1> QED
  BY <1>1, AmrInductive, PTL

\* A split that gives up loses at most three slots, and only in a full pool.
THEOREM SlotsLost == Spec => []OrphansOnlyWhenFull
<1>1. IInv => OrphansOnlyWhenFull
  BY OrphansFew DEF IInv
<1> QED
  BY <1>1, AmrInductive, PTL

\* After a step every leaf of the tree has a value of that step.
THEOREM Values == Spec => []FreshValues
<1>1. IInv => FreshValues
  BY DEF IInv, ValueInv
<1> QED
  BY <1>1, AmrInductive, PTL

\* One scan of adapt_coarsen merges everything that can be merged.
THEOREM ScanIsEnough == Spec => []CoarsenExhaustive
<1>1. IInv => CoarsenExhaustive
  BY DEF IInv
<1> QED
  BY <1>1, AmrInductive, PTL

\* The cells that a step creates are leaves when it ends.
THEOREM CreatedStay == Spec => []CreatedCellsStay
<1>1. IInv => CreatedCellsStay
  BY DEF IInv, CreatedInv, CreatedCellsStay
<1> QED
  BY <1>1, AmrInductive, PTL

(***************************************************************************)
(* AmrTree keeps an adaptive mesh: its leaves tile the domain, and its     *)
(* steps are steps of Mesh.                                                *)
(***************************************************************************)

TreeLeaves == Leaves \ Orphans

\* No two leaves of the tree have a point in common.
ApartInv ==
  \A m, n \in TreeLeaves : \A x, y \in 0 .. Scale - 1 :
    Geometry!Covers(cells[m].box, x, y) /\ Geometry!Covers(cells[n].box, x, y) => m = n

\* A cell with children is wide enough for each of them to have a point.
WideInv == \A n \in Allocated : IsInner(n) => CanHalve(cells[n].box)

\* Every point of the domain is in a leaf of the tree.
CoveredInv ==
  \A x, y \in 0 .. Scale - 1 : \E n \in TreeLeaves : Geometry!Covers(cells[n].box, x, y)

MeshInv == IInv /\ ApartInv /\ WideInv
-----------------------------------------------------------------------------
(***************************************************************************)
(* A box and its quadrants.                                                *)
(***************************************************************************)

\* A point is in a box exactly if it is in one of its quadrants.
LEMMA QuadrantsCover ==
  ASSUME NEW b, Proper(b), NEW x \in Int, NEW y \in Int
  PROVE  Geometry!Covers(b, x, y) <=>
           \E k \in 1 .. 4 : Geometry!Covers(Geometry!Quadrant(b, k), x, y)
<1>1. /\ b.x0 \in Int /\ b.x1 \in Int /\ b.y0 \in Int /\ b.y1 \in Int
      /\ Geometry!MidX(b) \in Int /\ b.x0 <= Geometry!MidX(b) /\ Geometry!MidX(b) <= b.x1
      /\ Geometry!MidY(b) \in Int /\ b.y0 <= Geometry!MidY(b) /\ Geometry!MidY(b) <= b.y1
  BY MidFacts, SizesAssumption DEF Proper, Geometry!Box
<1>2. /\ Geometry!Covers(Geometry!Quadrant(b, 1), x, y) <=>
           b.x0 <= x /\ x < Geometry!MidX(b) /\ Geometry!MidY(b) <= y /\ y < b.y1
      /\ Geometry!Covers(Geometry!Quadrant(b, 2), x, y) <=>
           Geometry!MidX(b) <= x /\ x < b.x1 /\ Geometry!MidY(b) <= y /\ y < b.y1
      /\ Geometry!Covers(Geometry!Quadrant(b, 3), x, y) <=>
           b.x0 <= x /\ x < Geometry!MidX(b) /\ b.y0 <= y /\ y < Geometry!MidY(b)
      /\ Geometry!Covers(Geometry!Quadrant(b, 4), x, y) <=>
           Geometry!MidX(b) <= x /\ x < b.x1 /\ b.y0 <= y /\ y < Geometry!MidY(b)
  BY QuadrantCorners DEF Geometry!Covers
<1>3. 1 \in 1 .. 4 /\ 2 \in 1 .. 4 /\ 3 \in 1 .. 4 /\ 4 \in 1 .. 4
      /\ \A k \in 1 .. 4 : k = 1 \/ k = 2 \/ k = 3 \/ k = 4
  OBVIOUS
<1>4. Geometry!Covers(b, x, y) <=> b.x0 <= x /\ x < b.x1 /\ b.y0 <= y /\ y < b.y1
  BY DEF Geometry!Covers
<1>5. ASSUME Geometry!Covers(b, x, y)
      PROVE  \E k \in 1 .. 4 : Geometry!Covers(Geometry!Quadrant(b, k), x, y)
  <2>1. CASE x < Geometry!MidX(b) /\ y < Geometry!MidY(b)
    BY <1>1, <1>2, <1>3, <1>4, <1>5, <2>1
  <2>2. CASE x < Geometry!MidX(b) /\ ~ (y < Geometry!MidY(b))
    BY <1>1, <1>2, <1>3, <1>4, <1>5, <2>2
  <2>3. CASE ~ (x < Geometry!MidX(b)) /\ y < Geometry!MidY(b)
    BY <1>1, <1>2, <1>3, <1>4, <1>5, <2>3
  <2>4. CASE ~ (x < Geometry!MidX(b)) /\ ~ (y < Geometry!MidY(b))
    BY <1>1, <1>2, <1>3, <1>4, <1>5, <2>4
  <2> QED
    BY <2>1, <2>2, <2>3, <2>4
<1>6. ASSUME NEW k \in 1 .. 4, Geometry!Covers(Geometry!Quadrant(b, k), x, y)
      PROVE  Geometry!Covers(b, x, y)
  BY <1>1, <1>2, <1>3, <1>4, <1>6
<1> QED
  BY <1>5, <1>6

\* No point is in two quadrants of a box.
LEMMA QuadrantsDisjoint ==
  ASSUME NEW b, Proper(b), NEW k \in 1 .. 4, NEW m \in 1 .. 4, NEW x \in Int, NEW y \in Int,
         Geometry!Covers(Geometry!Quadrant(b, k), x, y),
         Geometry!Covers(Geometry!Quadrant(b, m), x, y)
  PROVE  k = m
<1>1. /\ b.x0 \in Int /\ b.x1 \in Int /\ b.y0 \in Int /\ b.y1 \in Int
      /\ Geometry!MidX(b) \in Int /\ Geometry!MidY(b) \in Int
  BY MidFacts, SizesAssumption DEF Proper, Geometry!Box
<1>2. \A j \in 1 .. 4 : Geometry!Covers(Geometry!Quadrant(b, j), x, y) =>
        /\ x < Geometry!MidX(b) <=> j \in {1, 3}
        /\ y < Geometry!MidY(b) <=> j \in {3, 4}
  <2>1. /\ Geometry!Covers(Geometry!Quadrant(b, 1), x, y) => x < Geometry!MidX(b) /\ Geometry!MidY(b) <= y
        /\ Geometry!Covers(Geometry!Quadrant(b, 2), x, y) => Geometry!MidX(b) <= x /\ Geometry!MidY(b) <= y
        /\ Geometry!Covers(Geometry!Quadrant(b, 3), x, y) => x < Geometry!MidX(b) /\ y < Geometry!MidY(b)
        /\ Geometry!Covers(Geometry!Quadrant(b, 4), x, y) => Geometry!MidX(b) <= x /\ y < Geometry!MidY(b)
    BY QuadrantCorners DEF Geometry!Covers
  <2>2. \A j \in 1 .. 4 : j = 1 \/ j = 2 \/ j = 3 \/ j = 4
    OBVIOUS
  <2> QED
    BY <1>1, <2>1, <2>2
<1> QED
  BY <1>2

\* If a box can be halved, each of its quadrants has a point of the domain.
LEMMA QuadrantsHavePoints ==
  ASSUME NEW b, Proper(b), CanHalve(b), NEW k \in 1 .. 4
  PROVE  LET q == Geometry!Quadrant(b, k) IN q.x0 < q.x1 /\ q.y0 < q.y1
<1>1. /\ b.x0 \in Int /\ b.x1 \in Int /\ b.y0 \in Int /\ b.y1 \in Int
      /\ Geometry!MidX(b) \in Int /\ b.x0 <= Geometry!MidX(b) /\ Geometry!MidX(b) <= b.x1
      /\ Geometry!MidY(b) \in Int /\ b.y0 <= Geometry!MidY(b) /\ Geometry!MidY(b) <= b.y1
  BY MidFacts, SizesAssumption DEF Proper, Geometry!Box
<1>2. /\ b.x0 < Geometry!MidX(b) /\ Geometry!MidX(b) < b.x1
      /\ b.y0 < Geometry!MidY(b) /\ Geometry!MidY(b) < b.y1
  BY <1>1 DEF CanHalve
<1>3. k = 1 \/ k = 2 \/ k = 3 \/ k = 4
  OBVIOUS
<1> QED
  BY <1>2, <1>3, QuadrantCorners

\* A proper box that is not empty has a point of the domain.
LEMMA HasPoint ==
  ASSUME NEW b, Proper(b), b.x0 < b.x1, b.y0 < b.y1
  PROVE  /\ b.x0 \in 0 .. Scale - 1 /\ b.y0 \in 0 .. Scale - 1
         /\ Geometry!Covers(b, b.x0, b.y0)
BY SizesAssumption DEF Proper, Geometry!Box, Geometry!Covers

-----------------------------------------------------------------------------
(***************************************************************************)
(* The initial grid covers every point once.                               *)
(***************************************************************************)

\* A point is in one column (or row) only.
LEMMA ColumnUnique ==
  ASSUME NEW g \in Nat, g > 0, NEW c \in 0 .. g - 1, NEW e \in 0 .. g - 1, NEW x \in Int,
         First(g, c) <= x, x < Last(g, c), First(g, e) <= x, x < Last(g, e)
  PROVE  c = e
<1>1. /\ First(g, c) \in Int /\ Last(g, c) \in Int /\ First(g, e) \in Int /\ Last(g, e) \in Int
      /\ (c < e => Last(g, c) <= First(g, e)) /\ (e < c => Last(g, e) <= First(g, c))
  BY ColumnFacts, ConstantFacts
<1>2. ~ (c < e) /\ ~ (e < c)
  BY <1>1
<1> QED
  BY <1>2

\* A point of the domain is in a column (or row).
LEMMA ColumnExists ==
  ASSUME NEW g \in Nat, g > 0, NEW x \in 0 .. Scale - 1
  PROVE  \E c \in 0 .. g - 1 : First(g, c) <= x /\ x < Last(g, c)
<1> DEFINE d == Scale \div g
<1>1. Scale \in Nat /\ d \in Nat /\ x \in Nat /\ x < Scale /\ (g - 1) * d \in Nat
  BY ConstantFacts, DivisionFacts
<1> HIDE DEF d
<1>2. \A c : First(g, c) = c * d /\ (c # g - 1 => Last(g, c) = (c + 1) * d)
             /\ (c = g - 1 => Last(g, c) = Scale)
  BY DEF First, Last, d
<1>3. CASE x >= (g - 1) * d
  <2>1. g - 1 \in 0 .. g - 1 /\ First(g, g - 1) <= x /\ x < Last(g, g - 1)
    BY <1>1, <1>2, <1>3
  <2> QED
    BY <2>1
<1>4. CASE x < (g - 1) * d
  <2>1. d > 0
    <3>1. d = 0 => (g - 1) * d = 0
      BY <1>1
    <3> QED
      BY <1>1, <1>4, <3>1
  <2> DEFINE c == x \div d
  <2>2. c \in Nat /\ x % d \in Nat /\ x % d < d /\ x = d * c + (x % d)
    BY <1>1, <2>1, DivisionFacts
  <2> HIDE DEF c
  <2>3. c * d \in Nat /\ d * c = c * d /\ (c + 1) * d = c * d + d
    BY <1>1, <2>2
  <2>4. c * d <= x /\ x < (c + 1) * d
    BY <1>1, <2>2, <2>3
  <2>5. c < g - 1
    <3> SUFFICES ASSUME c >= g - 1 PROVE FALSE
      BY <2>2
    <3>1. PICK s \in Nat : c = (g - 1) + s
      BY <2>2
    <3>2. c * d = (g - 1) * d + s * d /\ s * d \in Nat
      BY <1>1, <3>1
    <3> QED
      BY <1>1, <1>4, <2>3, <2>4, <3>2
  <2>6. c \in 0 .. g - 1 /\ c # g - 1
    BY <2>2, <2>5
  <2> QED
    BY <1>2, <2>4, <2>6
<1> QED
  BY <1>1, <1>3, <1>4

\* Which points a root covers.
LEMMA RootCovers ==
  ASSUME NEW n \in 0 .. NRoots - 1, NEW x, NEW y
  PROVE  Geometry!Covers(Root(n), x, y) <=>
           /\ First(GridX, n % GridX) <= x /\ x < Last(GridX, n % GridX)
           /\ First(GridY, n \div GridX) <= y /\ y < Last(GridY, n \div GridX)
BY RootPlace DEF Geometry!Covers

\* No two roots have a point in common.
LEMMA RootsApart ==
  ASSUME NEW m \in 0 .. NRoots - 1, NEW n \in 0 .. NRoots - 1, NEW x \in Int, NEW y \in Int,
         Geometry!Covers(Root(m), x, y), Geometry!Covers(Root(n), x, y)
  PROVE  m = n
<1>1. GridX \in Nat /\ GridX > 0 /\ GridY \in Nat /\ GridY > 0
  BY ConstantFacts
<1>2. /\ m % GridX \in 0 .. GridX - 1 /\ m \div GridX \in 0 .. GridY - 1
      /\ n % GridX \in 0 .. GridX - 1 /\ n \div GridX \in 0 .. GridY - 1
      /\ m = GridX * (m \div GridX) + (m % GridX)
      /\ n = GridX * (n \div GridX) + (n % GridX)
  BY RootPlace
<1>3. m % GridX = n % GridX
  BY <1>1, <1>2, RootCovers, ColumnUnique
<1>4. m \div GridX = n \div GridX
  BY <1>1, <1>2, RootCovers, ColumnUnique
<1> QED
  BY <1>2, <1>3, <1>4

\* If all roots have a cell, every point of the domain is in a root.
LEMMA RootsCover ==
  ASSUME GridX * GridY <= MaxCells, NEW x \in 0 .. Scale - 1, NEW y \in 0 .. Scale - 1
  PROVE  \E n \in 0 .. NRoots - 1 : Geometry!Covers(Root(n), x, y)
<1>1. /\ GridX \in Nat /\ GridX > 0 /\ GridY \in Nat /\ GridY > 0 /\ NRoots = GridX * GridY
  BY ConstantFacts DEF NRoots
<1>2. PICK c \in 0 .. GridX - 1 : First(GridX, c) <= x /\ x < Last(GridX, c)
  BY <1>1, ColumnExists
<1>3. PICK r \in 0 .. GridY - 1 : First(GridY, r) <= y /\ y < Last(GridY, r)
  BY <1>1, ColumnExists
<1> DEFINE n == GridX * r + c
<1>4. n \in 0 .. NRoots - 1
  <2>1. PICK s \in Nat : GridY = r + 1 + s
    BY <1>1
  <2>2. GridX * GridY = GridX * r + GridX + GridX * s
    BY <1>1, <2>1
  <2>3. GridX * r \in Nat /\ GridX * s \in Nat
    BY <1>1, <2>1
  <2> QED
    BY <1>1, <2>2, <2>3
<1>5. n % GridX = c /\ n \div GridX = r
  <2> HIDE DEF n
  <2>1. /\ n \div GridX \in Nat /\ n % GridX \in Nat /\ n % GridX < GridX
        /\ n = GridX * (n \div GridX) + (n % GridX)
    BY <1>1, <1>4, DivisionFacts, ConstantFacts
  <2>2. ASSUME NEW q \in Nat, NEW p \in Nat, NEW a \in 0 .. GridX - 1, NEW b \in 0 .. GridX - 1,
               GridX * q + a = GridX * p + b, q < p
        PROVE  FALSE
    <3>1. PICK s \in Nat : p = q + 1 + s
      BY <2>2
    <3>2. GridX * p = GridX * q + GridX + GridX * s
      BY <1>1, <3>1
    <3>3. GridX * q \in Nat /\ GridX * s \in Nat
      BY <1>1, <2>2, <3>1
    <3> QED
      BY <1>1, <2>2, <3>2, <3>3
  <2>3. n \div GridX = r
    <3>1. n = GridX * r + c
      BY DEF n
    <3>2. ~ (n \div GridX < r) /\ ~ (r < n \div GridX)
      BY <1>1, <2>1, <2>2, <3>1
    <3> QED
      BY <2>1, <3>2
  <2> QED
    BY <1>1, <2>1, <2>3 DEF n
<1> QED
  BY <1>2, <1>3, <1>4, <1>5, RootCovers
-----------------------------------------------------------------------------
(***************************************************************************)
(* What the steps do to the leaves of the tree.                            *)
(***************************************************************************)

\* Which cells are leaves of the tree.
LEMMA TreeLeafFacts ==
  ASSUME NEW m
  PROVE  /\ m \in TreeLeaves <=> IsLeaf(m) /\ ~ (m >= NRoots /\ cells[m].parent = None)
         /\ m \in TreeLeaves' <=> IsLeaf(m)' /\ ~ (m >= NRoots /\ cells'[m].parent = None)
BY PlaceFacts DEF TreeLeaves

\* The leaves of the tree have proper boxes.
LEMMA TreeLeafBox ==
  ASSUME TypeOK, NEW m \in TreeLeaves
  PROVE  m \in Allocated /\ m \in Indices /\ Proper(cells[m].box)
BY TreeLeafFacts, AllocatedFacts, CellFacts DEF IsLeaf

\* A cell wide enough to be split is not a lost slot.
LEMMA WideLeaf ==
  ASSUME TypeOK, RootedInv, NEW n, IsLeaf(n), CanHalve(cells[n].box)
  PROVE  n \in TreeLeaves
<1>1. ~ CanHalve(NoBox)
  BY DEF CanHalve, NoBox, Geometry!MidX
<1> QED
  BY <1>1, TreeLeafFacts, LiveFacts DEF RootedInv

\* Except in a split or a merge, the leaves and their boxes stay.
Stays == /\ TreeLeaves' = TreeLeaves
         /\ \A m \in TreeLeaves : cells'[m].box = cells[m].box
         /\ \A m : IsInner(m)' => IsInner(m) /\ cells'[m].box = cells[m].box

\* A split puts four leaves in the place of one.
Splits(n) ==
  /\ n \in TreeLeaves /\ CanHalve(cells[n].box)
  /\ \A k \in 1 .. 4 : count + k - 1 \notin TreeLeaves
  /\ \A m : m \in TreeLeaves' <=>
       (m \in TreeLeaves /\ m # n) \/ \E k \in 1 .. 4 : m = count + k - 1
  /\ \A m \in TreeLeaves : cells'[m].box = cells[m].box
  /\ \A k \in 1 .. 4 : \A m : m = count + k - 1 =>
       cells'[m].box = Geometry!Quadrant(cells[n].box, k)
  /\ \A m : IsInner(m)' => m = n \/ (IsInner(m) /\ cells'[m].box = cells[m].box)

\* A merge puts one leaf in the place of its four children.
Merges(n) ==
  /\ IsInner(n) /\ n \notin TreeLeaves
  /\ \A m : m \in TreeLeaves' <=> m = n \/ (m \in TreeLeaves /\ m \notin Children(n))
  /\ Children(n) \subseteq TreeLeaves
  /\ \A k \in 1 .. 4 : cells[cells[n].child[k]].box = Geometry!Quadrant(cells[n].box, k)
  /\ \A m \in TreeLeaves' : cells'[m].box = cells[m].box
  /\ \A m : IsInner(m)' => IsInner(m) /\ cells'[m].box = cells[m].box

\* Every step is one of these.
LEMMA LeafSteps ==
  ASSUME IInv, [Next]_vars
  PROVE  Stays \/ \E n : Splits(n) \/ Merges(n)
<1>1. TypeOK /\ TreeWellFormed /\ RootedInv
  BY DEF IInv
<1>2. /\ MaxCells \in Nat /\ count \in Nat /\ NRoots \in Nat /\ NRoots <= count
      /\ Allocated \subseteq Indices /\ Allocated \subseteq Nat
      /\ \A m \in Allocated : m < count
  BY <1>1, ConstantFacts, AllocatedFacts
<1>3. \A m : m \in TreeLeaves => m \in Allocated /\ IsLeaf(m)
  BY TreeLeafFacts, LiveFacts
<1>4. CASE UNCHANGED <<cells, count>>
  BY <1>4 DEF Stays, TreeLeaves, Leaves, Orphans, IsLeaf, IsInner, Allocated, NRoots
<1>5. CASE BeginStep
  <2>1. ASSUME NEW m
        PROVE  /\ m \in TreeLeaves' <=> m \in TreeLeaves
               /\ m \in TreeLeaves => cells'[m].box = cells[m].box
               /\ IsInner(m)' => IsInner(m) /\ cells'[m].box = cells[m].box
    <3>1. CASE m \in Allocated
      BY <1>1, <1>5, <3>1, BeginEffect, TreeLeafFacts
    <3>2. CASE m \notin Allocated
      BY <1>1, <1>5, <3>2, BeginEffect, TreeLeafFacts, LiveFacts
    <3> QED
      BY <3>1, <3>2
  <2> QED
    BY <2>1 DEF Stays
<1>6. ASSUME NEW n, NEW v, SplitStep(n, v)
      PROVE  Splits(n)
  <2>1. n \in Allocated /\ IsLeaf(n) /\ CanHalve(cells[n].box) /\ n # None
    BY <1>1, <1>2, <1>6, SplitEffect DEF None
  <2>2. n \in TreeLeaves
    BY <1>1, <2>1, WideLeaf
  <2>3. \A k \in 1 .. 4 : count + k - 1 \notin TreeLeaves
    BY <1>1, <1>3, <1>6, SplitEffect
  <2>4. ASSUME NEW m
        PROVE  m \in TreeLeaves' <=>
                 (m \in TreeLeaves /\ m # n) \/ \E k \in 1 .. 4 : m = count + k - 1
    <3>1. CASE \E k \in 1 .. 4 : m = count + k - 1
      <4>1. IsLeaf(m)' /\ cells'[m].parent = n
        BY <1>1, <1>6, <3>1, SplitEffect
      <4> QED
        BY <2>1, <3>1, <4>1, TreeLeafFacts
    <3>2. CASE m = n
      BY <1>1, <1>6, <2>1, <3>2, SplitEffect, TreeLeafFacts
    <3>3. CASE m # n /\ ~ \E k \in 1 .. 4 : m = count + k - 1
      <4>1. CASE m \in Allocated
        <5>1. m \in Allocated'
          BY <1>1, <1>2, <1>6, <4>1, SplitEffect DEF Allocated
        <5> QED
          BY <1>1, <1>6, <3>3, <4>1, <5>1, SplitEffect, Same, TreeLeafFacts
      <4>2. CASE m \notin Allocated
        BY <1>1, <1>6, <3>3, <4>2, SplitEffect, TreeLeafFacts, LiveFacts
      <4> QED
        BY <4>1, <4>2
    <3> QED
      BY <3>1, <3>2, <3>3
  <2>5. \A m \in TreeLeaves : cells'[m].box = cells[m].box
    BY <1>1, <1>3, <1>6, SplitEffect
  <2>6. \A k \in 1 .. 4 : \A m : m = count + k - 1 =>
          cells'[m].box = Geometry!Quadrant(cells[n].box, k)
    BY <1>1, <1>6, SplitEffect
  <2>7. ASSUME NEW m, IsInner(m)', m # n
        PROVE  IsInner(m) /\ cells'[m].box = cells[m].box
    <3>1. m \in Allocated /\ m \in Allocated'
      BY <1>1, <1>6, <2>7, SplitEffect, LiveFacts
    <3> QED
      BY <1>1, <1>6, <2>7, <3>1, SplitEffect, Same
  <2> QED
    BY <2>1, <2>2, <2>3, <2>4, <2>5, <2>6, <2>7 DEF Splits
<1>7. ASSUME NEW n, NEW v, GiveUpStep(n, v)
      PROVE  Stays
  <2>1. ASSUME NEW m
        PROVE  /\ m \in TreeLeaves' <=> m \in TreeLeaves
               /\ m \in TreeLeaves => cells'[m].box = cells[m].box
               /\ IsInner(m)' => IsInner(m) /\ cells'[m].box = cells[m].box
    <3>1. CASE m \in Allocated
      BY <1>1, <1>7, <3>1, GiveUpEffect, Same, TreeLeafFacts
    <3>2. CASE m \notin Allocated
      BY <1>1, <1>7, <3>2, GiveUpEffect, TreeLeafFacts, LiveFacts
    <3> QED
      BY <3>1, <3>2
  <2> QED
    BY <2>1 DEF Stays
<1>8. ASSUME NEW n, NEW v, MergeStep(n, v)
      PROVE  Merges(n)
  <2>1. IsInner(n) /\ n \in Allocated /\ ~ IsLeaf(n) /\ Live(n) /\ n # None
    BY <1>1, <1>2, <1>8, MergeEffect, LiveFacts DEF None
  <2>2. \A k \in 1 .. 4 : \A m : m = cells[n].child[k] =>
          IsLeaf(m) /\ cells[m].parent = n /\ cells[m].box = Geometry!Quadrant(cells[n].box, k)
    <3>1. \A m \in Children(n) : IsLeaf(m)
      BY <1>1, <1>8, MergeEffect
    <3> QED
      BY <1>1, <2>1, <3>1, TreeFacts DEF Children
  <2>3. Children(n) \subseteq TreeLeaves
    BY <2>1, <2>2, TreeLeafFacts DEF Children
  <2>4. ASSUME NEW m
        PROVE  /\ m \in TreeLeaves' <=> m = n \/ (m \in TreeLeaves /\ m \notin Children(n))
               /\ m \in TreeLeaves' => cells'[m].box = cells[m].box
               /\ IsInner(m)' => IsInner(m) /\ cells'[m].box = cells[m].box
    <3>1. CASE m = n
      <4>1. ~ (n >= NRoots /\ cells[n].parent = None)
        BY <1>1, <2>1, LiveFacts DEF RootedInv
      <4> QED
        BY <1>1, <1>8, <2>1, <3>1, <4>1, MergeEffect, TreeLeafFacts
    <3>2. CASE m \in Children(n)
      BY <1>1, <1>8, <3>2, MergeEffect, TreeLeafFacts, LiveFacts
    <3>3. CASE m # n /\ m \notin Children(n)
      <4>1. CASE m \in Allocated
        BY <1>1, <1>8, <3>3, <4>1, MergeEffect, Same, TreeLeafFacts
      <4>2. CASE m \notin Allocated
        BY <1>1, <1>8, <3>3, <4>2, MergeEffect, TreeLeafFacts, LiveFacts
      <4> QED
        BY <4>1, <4>2
    <3> QED
      BY <3>1, <3>2, <3>3
  <2> QED
    BY <2>1, <2>2, <2>3, <2>4, TreeLeafFacts DEF Merges
<1>9. BeginStep \/ UNCHANGED <<cells, count>>
      \/ (\E n, v : SplitStep(n, v) \/ GiveUpStep(n, v) \/ MergeStep(n, v))
  BY StepCases DEF RefineDone, EndStep, vars, RefinePasses, CoarsenPasses, KeepStep, Coarsens
<1> QED
  BY <1>4, <1>5, <1>6, <1>7, <1>8, <1>9
-----------------------------------------------------------------------------
(***************************************************************************)
(* The leaves tile the domain.                                             *)
(***************************************************************************)

\* The initial leaves are the roots.
LEMMA InitLeaves ==
  ASSUME Init
  PROVE  /\ \A n : n \in TreeLeaves <=> n \in 0 .. NRoots - 1
         /\ \A n \in TreeLeaves : cells[n].box = Root(n)
         /\ \A n : ~ IsInner(n)
<1>1. /\ count = NRoots /\ NRoots \in Nat
      /\ \A n \in Allocated : n \in Indices /\ n < NRoots /\ IsLeaf(n) /\ ~ IsInner(n)
           /\ cells[n].box = Root(n)
  BY InitCells, ConstantFacts
<1>2. \A n : n \in TreeLeaves <=> n \in 0 .. NRoots - 1
  <2>1. \A n : n \in TreeLeaves => n \in Allocated
    BY TreeLeafFacts, LiveFacts
  <2>2. \A n \in Allocated : IsLeaf(n) /\ n \in Nat /\ n < NRoots
    BY <1>1 DEF Indices
  <2>3. \A n \in Allocated : n \in TreeLeaves
    BY <1>1, <2>2, TreeLeafFacts
  <2> QED
    BY <1>1, <2>1, <2>3 DEF Allocated
<1>3. \A n : n \in TreeLeaves => n \in Allocated
  BY TreeLeafFacts, LiveFacts
<1> QED
  BY <1>1, <1>2, <1>3, LiveFacts

\* The mesh invariant holds at first.
LEMMA MeshInit == Init => MeshInv
<1> SUFFICES ASSUME Init PROVE MeshInv
  OBVIOUS
<1>1. ApartInv
  <2> SUFFICES ASSUME NEW m \in TreeLeaves, NEW n \in TreeLeaves,
                      NEW x \in 0 .. Scale - 1, NEW y \in 0 .. Scale - 1,
                      Geometry!Covers(cells[m].box, x, y), Geometry!Covers(cells[n].box, x, y)
               PROVE  m = n
    BY DEF ApartInv
  <2> QED
    BY InitLeaves, RootsApart, ConstantFacts
<1> QED
  BY <1>1, InitIInv, InitLeaves DEF MeshInv, WideInv

\* The children of a wide cell have a point each, and different boxes.
LEMMA ChildBoxes ==
  ASSUME NEW b, Proper(b), CanHalve(b), NEW k \in 1 .. 4
  PROVE  \E x, y \in 0 .. Scale - 1 : Geometry!Covers(Geometry!Quadrant(b, k), x, y)
BY QuadrantsHavePoints, QuadrantProper, HasPoint

\* Splits and merges keep the leaves apart.
LEMMA MeshStep == MeshInv /\ [Next]_vars => MeshInv'
<1> SUFFICES ASSUME MeshInv, [Next]_vars PROVE MeshInv'
  OBVIOUS
<1>1. IInv /\ ApartInv /\ WideInv /\ TypeOK /\ RootedInv
  BY DEF MeshInv, IInv
<1>2. IInv'
  BY <1>1, NextIInv
<1>3. \A m \in TreeLeaves : Proper(cells[m].box)
  BY <1>1, TreeLeafBox
<1>4. \A p : IsInner(p) => CanHalve(cells[p].box) /\ Proper(cells[p].box)
  BY <1>1, LiveFacts, AllocatedFacts, CellFacts DEF WideInv
<1>5. \A m, n \in TreeLeaves : \A x, y \in 0 .. Scale - 1 :
        Geometry!Covers(cells[m].box, x, y) /\ Geometry!Covers(cells[n].box, x, y) => m = n
  BY <1>1 DEF ApartInv
<1>6. ASSUME NEW b, Proper(b), NEW k \in 1 .. 4, NEW x \in 0 .. Scale - 1,
             NEW y \in 0 .. Scale - 1, Geometry!Covers(Geometry!Quadrant(b, k), x, y)
      PROVE  Geometry!Covers(b, x, y)
  BY <1>6, QuadrantsCover
<1>7. ASSUME NEW b, Proper(b), NEW x \in 0 .. Scale - 1,
             NEW y \in 0 .. Scale - 1, Geometry!Covers(b, x, y)
      PROVE  \E k \in 1 .. 4 : Geometry!Covers(Geometry!Quadrant(b, k), x, y)
  BY <1>7, QuadrantsCover
<1>8. ASSUME \A m, n \in TreeLeaves' : \A x, y \in 0 .. Scale - 1 :
               Geometry!Covers(cells'[m].box, x, y) /\ Geometry!Covers(cells'[n].box, x, y)
                 => m = n,
             \A p : IsInner(p)' => CanHalve(cells'[p].box)
      PROVE  MeshInv'
  BY <1>2, <1>8 DEF MeshInv, ApartInv, WideInv, CanHalve
<1>9. CASE Stays
  <2>1. \A m \in TreeLeaves' : m \in TreeLeaves /\ cells'[m].box = cells[m].box
    BY <1>9 DEF Stays
  <2>2. \A p : IsInner(p)' => CanHalve(cells'[p].box)
    BY <1>4, <1>9 DEF Stays
  <2> QED
    BY <1>5, <1>8, <2>1, <2>2
<1>10. ASSUME NEW n, Splits(n)
       PROVE  MeshInv'
  <2>1. /\ n \in TreeLeaves /\ CanHalve(cells[n].box) /\ Proper(cells[n].box)
        /\ \A m : m \in TreeLeaves' <=>
             (m \in TreeLeaves /\ m # n) \/ \E k \in 1 .. 4 : m = count + k - 1
        /\ \A m \in TreeLeaves : cells'[m].box = cells[m].box
        /\ \A k \in 1 .. 4 : \A m : m = count + k - 1 =>
             cells'[m].box = Geometry!Quadrant(cells[n].box, k)
    BY <1>3, <1>10 DEF Splits
  <2>2. \A p : IsInner(p)' => CanHalve(cells'[p].box)
    BY <1>4, <1>10, <2>1 DEF Splits
  <2>3. ASSUME NEW l \in TreeLeaves', NEW m \in TreeLeaves',
               NEW x \in 0 .. Scale - 1, NEW y \in 0 .. Scale - 1,
               Geometry!Covers(cells'[l].box, x, y), Geometry!Covers(cells'[m].box, x, y)
        PROVE  l = m
    <3>1. CASE l \in TreeLeaves /\ l # n /\ m \in TreeLeaves /\ m # n
      BY <1>5, <2>1, <2>3, <3>1
    <3>2. ASSUME NEW p \in TreeLeaves, p # n, Geometry!Covers(cells'[p].box, x, y),
                 NEW k \in 1 .. 4, NEW q, q = count + k - 1, Geometry!Covers(cells'[q].box, x, y)
          PROVE  FALSE
      <4>1. Geometry!Covers(cells[p].box, x, y)
        BY <2>1, <3>2
      <4>2. Geometry!Covers(cells[n].box, x, y)
        BY <1>6, <2>1, <3>2
      <4> QED
        BY <1>5, <2>1, <3>2, <4>1, <4>2
    <3>3. ASSUME NEW k \in 1 .. 4, l = count + k - 1, NEW j \in 1 .. 4, m = count + j - 1
          PROVE  l = m
      <4>1. /\ Geometry!Covers(Geometry!Quadrant(cells[n].box, k), x, y)
            /\ Geometry!Covers(Geometry!Quadrant(cells[n].box, j), x, y)
        BY <2>1, <2>3, <3>3
      <4>2. x \in Int /\ y \in Int
        OBVIOUS
      <4>3. PICK b : b = cells[n].box
        OBVIOUS
      <4>4. /\ Proper(b) /\ Geometry!Covers(Geometry!Quadrant(b, k), x, y)
            /\ Geometry!Covers(Geometry!Quadrant(b, j), x, y)
        BY <2>1, <4>1, <4>3
      <4>5. k = j
        BY <4>2, <4>4, QuadrantsDisjoint
      <4> QED
        BY <3>3, <4>5
    <3> QED
      BY <2>1, <2>3, <3>1, <3>2, <3>3
  <2> QED
    BY <1>8, <2>2, <2>3
<1>11. ASSUME NEW n, Merges(n)
       PROVE  MeshInv'
  <2>1. /\ IsInner(n) /\ Proper(cells[n].box)
        /\ \A m : m \in TreeLeaves' <=> m = n \/ (m \in TreeLeaves /\ m \notin Children(n))
        /\ \A k \in 1 .. 4 : cells[n].child[k] \in TreeLeaves /\ cells[n].child[k] \in Children(n)
        /\ \A k \in 1 .. 4 : cells[cells[n].child[k]].box = Geometry!Quadrant(cells[n].box, k)
        /\ \A m \in TreeLeaves' : cells'[m].box = cells[m].box
    BY <1>4, <1>11 DEF Merges, Children
  <2>2. \A p : IsInner(p)' => CanHalve(cells'[p].box)
    BY <1>4, <1>11 DEF Merges
  <2>3. ASSUME NEW l \in TreeLeaves', NEW m \in TreeLeaves',
               NEW x \in 0 .. Scale - 1, NEW y \in 0 .. Scale - 1,
               Geometry!Covers(cells'[l].box, x, y), Geometry!Covers(cells'[m].box, x, y)
        PROVE  l = m
    <3>1. Geometry!Covers(cells[l].box, x, y) /\ Geometry!Covers(cells[m].box, x, y)
      BY <2>1, <2>3
    <3>2. ASSUME NEW q \in TreeLeaves, q \notin Children(n),
                 Geometry!Covers(cells[q].box, x, y), Geometry!Covers(cells[n].box, x, y)
          PROVE  FALSE
      <4>1. PICK k \in 1 .. 4 : Geometry!Covers(Geometry!Quadrant(cells[n].box, k), x, y)
        BY <1>7, <2>1, <3>2
      <4>2. Geometry!Covers(cells[cells[n].child[k]].box, x, y)
        BY <2>1, <4>1
      <4>3. cells[n].child[k] = q
        BY <1>5, <2>1, <3>2, <4>2
      <4> QED
        BY <2>1, <3>2, <4>3
    <3>3. CASE l # n /\ m # n
      BY <1>5, <2>1, <2>3, <3>1, <3>3
    <3> QED
      BY <2>1, <2>3, <3>1, <3>2, <3>3
  <2> QED
    BY <1>8, <2>2, <2>3
<1> QED
  BY <1>1, <1>9, <1>10, <1>11, LeafSteps

\* Splits and merges keep every point covered.
LEMMA CoveredStep == MeshInv /\ CoveredInv /\ [Next]_vars => CoveredInv'
<1> SUFFICES ASSUME MeshInv, CoveredInv, [Next]_vars PROVE CoveredInv'
  OBVIOUS
<1>1. IInv /\ WideInv /\ TypeOK
  BY DEF MeshInv, IInv
<1>2. \A x, y \in 0 .. Scale - 1 : \E m \in TreeLeaves : Geometry!Covers(cells[m].box, x, y)
  BY DEF CoveredInv
<1>3. ASSUME \A x, y \in 0 .. Scale - 1 :
               \E m \in TreeLeaves' : Geometry!Covers(cells'[m].box, x, y)
      PROVE  CoveredInv'
  BY <1>3 DEF CoveredInv
<1>4. \A m \in TreeLeaves : Proper(cells[m].box)
  BY <1>1, TreeLeafBox
<1>5. \A p : IsInner(p) => Proper(cells[p].box)
  BY <1>1, LiveFacts, AllocatedFacts, CellFacts
<1>6. ASSUME NEW b, Proper(b), NEW x \in 0 .. Scale - 1, NEW y \in 0 .. Scale - 1
      PROVE  Geometry!Covers(b, x, y) <=>
               \E k \in 1 .. 4 : Geometry!Covers(Geometry!Quadrant(b, k), x, y)
  BY <1>6, QuadrantsCover
<1>7. SUFFICES ASSUME NEW x \in 0 .. Scale - 1, NEW y \in 0 .. Scale - 1,
                      NEW m \in TreeLeaves, Geometry!Covers(cells[m].box, x, y)
               PROVE  \E q \in TreeLeaves' : Geometry!Covers(cells'[q].box, x, y)
  BY <1>2, <1>3
<1>8. CASE Stays
  BY <1>7, <1>8 DEF Stays
<1>9. ASSUME NEW n, Splits(n)
      PROVE  \E q \in TreeLeaves' : Geometry!Covers(cells'[q].box, x, y)
  <2>1. CASE m # n
    BY <1>7, <1>9, <2>1 DEF Splits
  <2>2. CASE m = n
    <3>1. PICK k \in 1 .. 4 : Geometry!Covers(Geometry!Quadrant(cells[n].box, k), x, y)
      BY <1>4, <1>6, <1>7, <2>2
    <3>2. PICK q : q = count + k - 1
      OBVIOUS
    <3>3. q \in TreeLeaves' /\ cells'[q].box = Geometry!Quadrant(cells[n].box, k)
      BY <1>9, <3>2 DEF Splits
    <3> QED
      BY <3>1, <3>3
  <2> QED
    BY <2>1, <2>2
<1>10. ASSUME NEW n, Merges(n)
       PROVE  \E q \in TreeLeaves' : Geometry!Covers(cells'[q].box, x, y)
  <2>1. CASE m \notin Children(n)
    BY <1>7, <1>10, <2>1 DEF Merges
  <2>2. CASE m \in Children(n)
    <3>1. PICK k \in 1 .. 4 : m = cells[n].child[k]
      BY <2>2 DEF Children
    <3>2. Geometry!Covers(Geometry!Quadrant(cells[n].box, k), x, y)
      BY <1>7, <1>10, <3>1 DEF Merges
    <3>3. Geometry!Covers(cells[n].box, x, y)
      BY <1>5, <1>6, <1>10, <3>2 DEF Merges
    <3>4. n \in TreeLeaves' /\ cells'[n].box = cells[n].box
      BY <1>10 DEF Merges
    <3> QED
      BY <3>3, <3>4
  <2> QED
    BY <2>1, <2>2
<1> QED
  BY <1>1, <1>8, <1>9, <1>10, LeafSteps

\* The initial leaves cover the domain if there is room for all of the roots.
LEMMA CoveredInit == GridX * GridY <= MaxCells /\ Init => CoveredInv
BY InitLeaves, RootsCover DEF CoveredInv

\* Leaves that are apart and cover every point tile the domain.
LEMMA TilingFromCells == MeshInv /\ CoveredInv => LeavesTileDomain
<1> SUFFICES ASSUME MeshInv, CoveredInv PROVE LeavesTileDomain
  OBVIOUS
<1>1. \A n \in Orphans : cells[n].box = NoBox
  BY PlaceFacts, LiveFacts DEF MeshInv, IInv, RootedInv
<1>2. ASSUME NEW x \in 0 .. Scale - 1, NEW y \in 0 .. Scale - 1
      PROVE  \E b \in {cells[n].box : n \in Leaves \ Orphans} :
               /\ Geometry!Covers(b, x, y)
               /\ \A c \in {cells[n].box : n \in Leaves \ Orphans} :
                    Geometry!Covers(c, x, y) => c = b
  <2>1. PICK m \in TreeLeaves : Geometry!Covers(cells[m].box, x, y)
    BY <1>2 DEF CoveredInv
  <2>2. \A n \in TreeLeaves : Geometry!Covers(cells[n].box, x, y) => n = m
    BY <1>2, <2>1 DEF MeshInv, ApartInv
  <2> QED
    BY <2>1, <2>2 DEF TreeLeaves
<1> QED
  BY <1>1, <1>2 DEF LeavesTileDomain, Geometry!Tiling

\* Every point of the domain is in exactly one live leaf in every state, and a
\* lost slot covers nothing, if the pool has room for the roots (init_roots
\* stops silently if it has not).
THEOREM Tiles == ASSUME GridX * GridY <= MaxCells PROVE Spec => []LeavesTileDomain
<1>1. Init => MeshInv /\ CoveredInv
  BY MeshInit, CoveredInit
<1>2. MeshInv /\ CoveredInv /\ [Next]_vars => (MeshInv /\ CoveredInv)'
  BY MeshStep, CoveredStep
<1>3. MeshInv /\ CoveredInv => LeavesTileDomain
  BY TilingFromCells
<1> QED
  BY <1>1, <1>2, <1>3, PTL DEF Spec
-----------------------------------------------------------------------------
(***************************************************************************)
(* The steps are steps of Mesh.                                            *)
(***************************************************************************)

Boxes == {cells[n].box : n \in TreeLeaves}

\* Both instances of Mesh have the same quadrants.
LEMMA SameQuadrants ==
  ASSUME NEW b, NEW k \in 1 .. 4
  PROVE  AMesh!Quadrant(b, k) = Geometry!Quadrant(b, k)
BY DEF AMesh!Quadrant, Geometry!Quadrant, AMesh!MidX, Geometry!MidX, AMesh!MidY, Geometry!MidY

\* A proper box is given by its corners.
LEMMA BoxIsCorners ==
  ASSUME NEW b, Proper(b)
  PROVE  b = [x0 |-> b.x0, y0 |-> b.y0, x1 |-> b.x1, y1 |-> b.y1]
BY DEF Proper, Geometry!Box

\* A split refines a tile.
LEMMA SplitRefines ==
  ASSUME MeshInv, NEW n, Splits(n)
  PROVE  AMesh!Refine(cells[n].box) /\ cells[n].box \in Boxes
<1> DEFINE b == cells[n].box
<1>1. /\ n \in TreeLeaves /\ CanHalve(b) /\ Proper(b)
      /\ \A m : m \in TreeLeaves' <=>
           (m \in TreeLeaves /\ m # n) \/ \E k \in 1 .. 4 : m = count + k - 1
      /\ \A m \in TreeLeaves : cells'[m].box = cells[m].box
      /\ \A k \in 1 .. 4 : \A m : m = count + k - 1 => cells'[m].box = Geometry!Quadrant(b, k)
  BY TreeLeafBox DEF Splits, MeshInv, IInv
<1>2. b \in Boxes
  BY <1>1 DEF Boxes
<1>3. ASSUME NEW m \in TreeLeaves, cells[m].box = b
      PROVE  m = n
  <2>1. PICK x \in 0 .. Scale - 1, y \in 0 .. Scale - 1 : Geometry!Covers(b, x, y)
    <3>1. PICK x \in 0 .. Scale - 1, y \in 0 .. Scale - 1 :
            Geometry!Covers(Geometry!Quadrant(b, 1), x, y)
      BY <1>1, ChildBoxes
    <3> QED
      BY <1>1, <3>1, QuadrantsCover
  <2> QED
    BY <1>1, <1>3, <2>1 DEF MeshInv, ApartInv
<1> HIDE DEF b
<1>4. Boxes' = (Boxes \ {b}) \cup AMesh!Quadrants(b)
  <2>1. ASSUME NEW c \in Boxes'
        PROVE  c \in (Boxes \ {b}) \cup AMesh!Quadrants(b)
    <3>1. PICK m \in TreeLeaves' : c = cells'[m].box
      BY <2>1 DEF Boxes
    <3>2. CASE m \in TreeLeaves /\ m # n
      BY <1>1, <1>3, <3>1, <3>2 DEF Boxes
    <3>3. CASE \E k \in 1 .. 4 : m = count + k - 1
      BY <1>1, <3>1, <3>3, SameQuadrants DEF AMesh!Quadrants
    <3> QED
      BY <1>1, <3>1, <3>2, <3>3
  <2>2. ASSUME NEW c \in Boxes, c # b
        PROVE  c \in Boxes'
    <3>1. PICK m \in TreeLeaves : c = cells[m].box
      BY <2>2 DEF Boxes
    <3>2. m # n
      BY <2>2, <3>1 DEF b
    <3>3. m \in TreeLeaves' /\ cells'[m].box = c
      BY <1>1, <3>1, <3>2
    <3> QED
      BY <3>3 DEF Boxes
  <2>3. ASSUME NEW k \in 1 .. 4
        PROVE  AMesh!Quadrant(b, k) \in Boxes'
    <3>1. PICK m : m = count + k - 1
      OBVIOUS
    <3>2. m \in TreeLeaves' /\ cells'[m].box = Geometry!Quadrant(b, k)
      BY <1>1, <3>1
    <3> QED
      BY <3>2, SameQuadrants DEF Boxes
  <2> QED
    BY <2>1, <2>2, <2>3 DEF AMesh!Quadrants
<1> QED
  BY <1>2, <1>4 DEF AMesh!Refine, Boxes, TreeLeaves, b

\* A merge coarsens four tiles.
LEMMA MergeCoarsens ==
  ASSUME MeshInv, NEW n, Merges(n)
  PROVE  \E p, q \in Boxes : AMesh!Coarsen(AMesh!Hull(p, q))
<1> DEFINE b == cells[n].box
           Child(k) == cells[n].child[k]
<1>1. /\ n \notin TreeLeaves /\ CanHalve(b) /\ Proper(b)
      /\ \A m : m \in TreeLeaves' <=> m = n \/ (m \in TreeLeaves /\ m \notin Children(n))
      /\ \A k \in 1 .. 4 : Child(k) \in TreeLeaves /\ cells[Child(k)].box = Geometry!Quadrant(b, k)
      /\ \A m \in TreeLeaves' : cells'[m].box = cells[m].box
  <2>1. IsInner(n) /\ n \in Allocated
    BY LiveFacts DEF Merges
  <2>2. CanHalve(b) /\ Proper(b)
    BY <2>1, AllocatedFacts, CellFacts DEF MeshInv, IInv, WideInv
  <2> QED
    BY <2>1, <2>2 DEF Merges, Children
<1>2. \A m : m \in Children(n) <=> \E k \in 1 .. 4 : m = Child(k)
  BY DEF Children
<1>3. ASSUME NEW m \in TreeLeaves, NEW k \in 1 .. 4, cells[m].box = Geometry!Quadrant(b, k)
      PROVE  m = Child(k)
  <2>1. PICK x \in 0 .. Scale - 1, y \in 0 .. Scale - 1 :
          Geometry!Covers(Geometry!Quadrant(b, k), x, y)
    BY <1>1, ChildBoxes
  <2> QED
    BY <1>1, <1>3, <2>1 DEF MeshInv, ApartInv
<1>4. n \in TreeLeaves' /\ cells'[n].box = b
  BY <1>1
<1> HIDE DEF b, Child
<1>5. ASSUME NEW k \in 1 .. 4
      PROVE  AMesh!Quadrant(b, k) \in Boxes /\ Geometry!Quadrant(b, k) \in Boxes
  BY <1>1, <1>5, SameQuadrants DEF Boxes
<1>6. Boxes' = (Boxes \ AMesh!Quadrants(b)) \cup {b}
  <2>1. ASSUME NEW c \in Boxes'
        PROVE  c \in (Boxes \ AMesh!Quadrants(b)) \cup {b}
    <3>1. PICK m \in TreeLeaves' : c = cells'[m].box
      BY <2>1 DEF Boxes
    <3>2. CASE m = n
      BY <1>4, <3>1, <3>2
    <3>3. CASE m \in TreeLeaves /\ m \notin Children(n)
      <4>1. c = cells[m].box /\ c \in Boxes
        BY <1>1, <3>1, <3>3 DEF Boxes
      <4>2. \A k \in 1 .. 4 : c # AMesh!Quadrant(b, k)
        BY <1>2, <1>3, <3>3, <4>1, SameQuadrants
      <4> QED
        BY <4>1, <4>2 DEF AMesh!Quadrants
    <3> QED
      BY <1>1, <3>1, <3>2, <3>3
  <2>2. ASSUME NEW c \in Boxes, c \notin AMesh!Quadrants(b)
        PROVE  c \in Boxes'
    <3>1. PICK m \in TreeLeaves : c = cells[m].box
      BY <2>2 DEF Boxes
    <3>2. m \notin Children(n)
      BY <1>1, <1>2, <2>2, <3>1, SameQuadrants DEF AMesh!Quadrants
    <3>3. m \in TreeLeaves' /\ cells'[m].box = c
      BY <1>1, <3>1, <3>2
    <3> QED
      BY <3>3 DEF Boxes
  <2>3. b \in Boxes'
    BY <1>4 DEF Boxes
  <2> QED
    BY <2>1, <2>2, <2>3
<1>7. AMesh!Coarsen(b)
  BY <1>5, <1>6 DEF AMesh!Coarsen, AMesh!Quadrants, Boxes, TreeLeaves
<1>8. AMesh!Hull(Geometry!Quadrant(b, 3), Geometry!Quadrant(b, 2)) = b
  BY <1>1, QuadrantCorners, BoxIsCorners DEF AMesh!Hull
<1>9. Geometry!Quadrant(b, 3) \in Boxes /\ Geometry!Quadrant(b, 2) \in Boxes
  BY <1>5
<1>10. PICK p \in Boxes, q \in Boxes : AMesh!Hull(p, q) = b
  BY <1>8, <1>9
<1>11. AMesh!Coarsen(AMesh!Hull(p, q))
  BY <1>7, <1>10 DEF AMesh!Coarsen
<1> QED
  BY <1>11

\* The workload keeps an adaptive mesh: its leaves start as the roots, and every
\* step replaces one tile by its quadrants, four quadrants by their tile, or
\* leaves the mesh as it is.
THEOREM KeepsMesh == Spec => ImplementsMesh
<1>1. Init => AMesh!Init
  <2> SUFFICES ASSUME Init PROVE Boxes = {Root(n) : n \in 0 .. NRoots - 1}
    BY DEF AMesh!Init, Boxes, TreeLeaves
  <2> QED
    BY InitLeaves DEF Boxes
<1>2. MeshInv /\ [Next]_vars => [AMesh!Next]_{cells[n].box : n \in Leaves \ Orphans}
  <2> SUFFICES ASSUME MeshInv, [Next]_vars
               PROVE  AMesh!Next \/ Boxes' = Boxes
    BY DEF Boxes, TreeLeaves
  <2>1. CASE Stays
    BY <2>1 DEF Stays, Boxes
  <2>2. ASSUME NEW n, Splits(n)
        PROVE  AMesh!Next
    <3>1. PICK b \in Boxes : b = cells[n].box
      BY <2>2, SplitRefines
    <3>2. AMesh!Refine(b)
      BY <2>2, <3>1, SplitRefines DEF AMesh!Refine
    <3> QED
      BY <3>2 DEF AMesh!Next, Boxes, TreeLeaves
  <2>3. ASSUME NEW n, Merges(n)
        PROVE  AMesh!Next
    BY <2>3, MergeCoarsens DEF AMesh!Next, Boxes, TreeLeaves
  <2> QED
    BY <2>1, <2>2, <2>3, LeafSteps DEF MeshInv
<1> QED
  BY <1>1, <1>2, MeshInit, MeshStep, PTL DEF Spec, ImplementsMesh, AMesh!Spec
=============================================================================

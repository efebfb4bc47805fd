------------------------- MODULE GraphCoarsenProofs -------------------------
(***************************************************************************)
(* Proofs about the graph coarsening workload, for every number of nodes   *)
(* and edges, every bound on the levels and every graph drawn.             *)
(***************************************************************************)
EXTENDS GraphCoarsen, FiniteSetTheorems, FunctionTheorems, SequenceTheorems, WellFoundedInduction, TLAPS

(***************************************************************************)
(* The inductive invariant.  The graphs are graphs without loops, the one  *)
(* that is filled up included, whose rows from u on are still empty; the   *)
(* array sizes are those of the level.                                     *)
(***************************************************************************)
NoLoops(g) ==
  \A x \in Nodes(g), e \in DOMAIN g.col_idx : InRow(g, e, x) => g.col_idx[e] # x

Graph(g) ==
  /\ g = [num_nodes |-> g.num_nodes, row_ptr |-> g.row_ptr, col_idx |-> g.col_idx]
  /\ WellFormed(g) /\ NoLoops(g)

FilledTo(g, n) == n \in 0 .. g.num_nodes
                  /\ \A y \in n .. g.num_nodes : g.row_ptr[y] = Len(g.col_idx)

\* What the provers have to know of a graph's type.
GraphSet == [num_nodes : 1 .. NNodes,
             row_ptr : UNION {[0 .. n -> Nat] : n \in Nat}, col_idx : Seq(Nat)]

ShapeInv ==
  /\ pc \in {"generate", "level", "match", "number", "rows", "done"}
  /\ level \in 0 .. MAX_LEVELS - 1
  /\ pc \in {"match", "number", "rows"} => level < MAX_LEVELS - 1
  /\ levels \in Seq(GraphSet)
  /\ Len(levels) \in {level + 1, level + 2}
  /\ pc \in {"generate", "level", "match", "number"} => Len(levels) = level + 1
  /\ pc = "rows" => Len(levels) = level + 2
  /\ \A k \in DOMAIN levels : Graph(levels[k])
  /\ u \in Nat /\ c \in Nat
  /\ match \in [Nodes(Fine) -> Nodes(Fine) \cup {None}]
  /\ coarse_id \in [Nodes(Fine) -> Int]

LoopInv ==
  /\ pc = "generate" => level = 0 /\ Fine.num_nodes = NNodes /\ FilledTo(Fine, u)
  /\ pc \in {"generate", "level"} => match = Unset(Fine)
  /\ pc \in {"match", "number"} => u <= Fine.num_nodes
  /\ pc = "rows" => levels[level + 2].num_nodes = c /\ FilledTo(levels[level + 2], u)

(***************************************************************************)
(* The matching is an involution at every time, and a node that was left   *)
(* alone has been passed.                                                  *)
(***************************************************************************)
Pairs ==
  \A x \in Nodes(Fine) : match[x] # None =>
    /\ match[match[x]] = x
    /\ match[x] # x => match[x] \in Targets(Fine, x) \/ x \in Targets(Fine, match[x])

Alone ==
  \A x \in Nodes(Fine) : match[x] = x =>
    \A y \in Targets(Fine, x) : match[y] # None /\ (match[y] = y => y < x)

MatchInv ==
  /\ Pairs /\ Alone
  /\ pc = "match" => \A x \in Nodes(Fine) : /\ x < u => match[x] # None
                                            /\ match[x] = x => x < u
  /\ pc \in {"number", "rows"} => \A x \in Nodes(Fine) : match[x] # None

(***************************************************************************)
(* A pair is numbered when the scan meets the smaller of the two.          *)
(***************************************************************************)
Numbered == {x \in Nodes(Fine) : x < u \/ match[x] < u}

NumberedBy(S) ==
  /\ {coarse_id[x] : x \in S} = 0 .. c - 1
  /\ \A x, y \in S : coarse_id[x] = coarse_id[y] <=> y \in {x, match[x]}

NumberInv ==
  /\ pc = "number" => NumberedBy(Numbered) /\ c <= u /\ (u > 0 => c > 0)
  /\ pc = "rows" => NumberedBy(Nodes(Fine)) /\ c > 0

(***************************************************************************)
(* The rows filled so far have the fine edges that leave their nodes, each *)
(* once.                                                                   *)
(***************************************************************************)
Members(i) == {x \in Nodes(Fine) : coarse_id[x] = i}
Edges == 1 .. Len(Fine.col_idx)
LeavingBefore(n) == {e \in Edges : \E i \in 0 .. n - 1 : Leaves(e, i)}

RowsInv ==
  pc = "rows" =>
    LET coarse == levels[level + 2] IN
    /\ Len(coarse.col_idx) = Cardinality(LeavingBefore(u))
    /\ \A i \in 0 .. u - 1, j \in 0 .. c - 1 :
         EdgesBetween(coarse, {i}, {j})
           = IF i = j THEN 0 ELSE EdgesBetween(Fine, Members(i), Members(j))

(***************************************************************************)
(* Four markers for each level that has ended, in the order of Kinds.      *)
(***************************************************************************)
Kinds == <<"begin", "enter", "exit", "end">>
MarkAt(k) == /\ marks[k].t \in 0 .. level /\ k - 4 * marks[k].t \in 1 .. 4
             /\ marks[k] = [kind |-> Kinds[k - 4 * marks[k].t], t |-> marks[k].t]

MarksInv ==
  /\ marks \in Seq([kind : {"begin", "enter", "exit", "end"}, t : Nat])
  /\ pc = "generate" => level = 0
  /\ pc \in {"generate", "level"} => Len(marks) = 4 * level
  /\ pc \in {"match", "number", "rows"} => Len(marks) = 4 * level + 2
  /\ pc = "done" => Len(marks) = IF level < MAX_LEVELS - 1 THEN 4 * level + 4 ELSE 4 * level + 1
  /\ \A k \in DOMAIN marks :
       \/ MarkAt(k)
       \/ pc = "done" /\ level = MAX_LEVELS - 1 /\ k = Len(marks)
  /\ pc = "done" /\ level = MAX_LEVELS - 1 =>
       marks[Len(marks)] = [kind |-> "end", t |-> level]

CoarsenInv == ShapeInv /\ LoopInv /\ MatchInv /\ NumberInv /\ RowsInv /\ MarksInv
-----------------------------------------------------------------------------
(***************************************************************************)
(* Graphs.                                                                 *)
(***************************************************************************)
\* The types behind a graph.
LEMMA GraphType ==
  ASSUME NEW g, Graph(g)
  PROVE  /\ g \in GraphSet
         /\ g.num_nodes \in 1 .. NNodes /\ g.num_nodes \in Nat /\ NNodes \in Nat
         /\ g.row_ptr \in [0 .. g.num_nodes -> Nat]
         /\ \A y \in 0 .. g.num_nodes : g.row_ptr[y] \in 0 .. Len(g.col_idx)
         /\ g.col_idx \in Seq(Nodes(g)) /\ Len(g.col_idx) \in 0 .. MAX_EDGES
         /\ DOMAIN g.col_idx = 1 .. Len(g.col_idx)
         /\ MAX_EDGES \in Nat
<1>1. /\ g = [num_nodes |-> g.num_nodes, row_ptr |-> g.row_ptr, col_idx |-> g.col_idx]
      /\ g.num_nodes \in 1 .. NNodes
      /\ g.row_ptr \in [0 .. g.num_nodes -> 0 .. MAX_EDGES]
      /\ \A x, y \in 0 .. g.num_nodes : x <= y => g.row_ptr[x] <= g.row_ptr[y]
      /\ g.row_ptr[g.num_nodes] = Len(g.col_idx)
      /\ g.col_idx \in Seq(Nodes(g))
  BY DEF Graph, WellFormed
<1>2. MAX_EDGES \in Nat /\ NNodes \in Nat
  BY CoarsenAssumption
<1>3. g.num_nodes \in Nat /\ Nodes(g) \subseteq Nat
  BY <1>1, <1>2 DEF Nodes
<1>4. g.row_ptr \in [0 .. g.num_nodes -> Nat]
  BY <1>1, <1>2
<1>5. g.col_idx \in Seq(Nat) /\ Len(g.col_idx) \in Nat /\ DOMAIN g.col_idx = 1 .. Len(g.col_idx)
  BY <1>1, <1>3, LenProperties
<1>6. Len(g.col_idx) \in 0 .. MAX_EDGES
  BY <1>1, <1>2, <1>3
<1>7. g.row_ptr \in UNION {[0 .. n -> Nat] : n \in Nat}
  BY <1>3, <1>4
<1>8. g \in GraphSet
  BY <1>1, <1>5, <1>7 DEF GraphSet
<1>9. \A y \in 0 .. g.num_nodes : g.row_ptr[y] \in 0 .. Len(g.col_idx)
  <2> TAKE y \in 0 .. g.num_nodes
  <2>1. y <= g.num_nodes /\ g.num_nodes \in 0 .. g.num_nodes
    BY <1>3
  <2>2. g.row_ptr[y] <= g.row_ptr[g.num_nodes]
    BY <1>1, <2>1
  <2> QED
    BY <1>1, <1>4, <1>5, <2>2
<1> QED
  BY <1>1, <1>2, <1>3, <1>4, <1>5, <1>6, <1>8, <1>9

\* An edge is in one row.
LEMMA OneRow ==
  ASSUME NEW g, Graph(g), NEW e \in DOMAIN g.col_idx,
         NEW x \in Nodes(g), NEW y \in Nodes(g), InRow(g, e, x), InRow(g, e, y)
  PROVE  x = y
<1>1. /\ g.num_nodes \in Nat /\ g.row_ptr \in [0 .. g.num_nodes -> Nat] /\ e \in Nat
      /\ \A m, n \in 0 .. g.num_nodes : m <= n => g.row_ptr[m] <= g.row_ptr[n]
  BY GraphType DEF Graph, WellFormed
<1>2. /\ x \in 0 .. g.num_nodes /\ x + 1 \in 0 .. g.num_nodes
      /\ y \in 0 .. g.num_nodes /\ y + 1 \in 0 .. g.num_nodes
  BY <1>1 DEF Nodes
<1>3. x < y => x + 1 <= y
  BY <1>2
<1>4. y < x => y + 1 <= x
  BY <1>2
<1>5. ASSUME x < y PROVE FALSE
  <2>1. g.row_ptr[x + 1] <= g.row_ptr[y]
    BY <1>1, <1>2, <1>3, <1>5
  <2>2. e <= g.row_ptr[x + 1] /\ g.row_ptr[y] < e
    BY DEF InRow
  <2>3. g.row_ptr[x + 1] \in Nat /\ g.row_ptr[y] \in Nat
    BY <1>1, <1>2
  <2> QED
    BY <1>1, <2>1, <2>2, <2>3
<1>6. ASSUME y < x PROVE FALSE
  <2>1. g.row_ptr[y + 1] <= g.row_ptr[x]
    BY <1>1, <1>2, <1>4, <1>6
  <2>2. e <= g.row_ptr[y + 1] /\ g.row_ptr[x] < e
    BY DEF InRow
  <2>3. g.row_ptr[y + 1] \in Nat /\ g.row_ptr[x] \in Nat
    BY <1>1, <1>2
  <2> QED
    BY <1>1, <2>1, <2>2, <2>3
<1> QED
  BY <1>2, <1>5, <1>6

\* The neighbours of a node are the ends of the edges in its row, and are not it.
LEMMA RowTargets ==
  ASSUME NEW g, Graph(g), NEW x \in Nodes(g)
  PROVE  /\ Row(g, x) \in Seq(Nodes(g))
         /\ DOMAIN Row(g, x) \subseteq Nat
         /\ Targets(g, x) = {Row(g, x)[k] : k \in DOMAIN Row(g, x)}
         /\ Targets(g, x) \subseteq Nodes(g) \ {x}
<1>1. /\ g.num_nodes \in Nat /\ g.row_ptr \in [0 .. g.num_nodes -> Nat]
      /\ Len(g.col_idx) \in Nat /\ DOMAIN g.col_idx = 1 .. Len(g.col_idx)
      /\ \A y \in 0 .. g.num_nodes : g.row_ptr[y] \in 0 .. Len(g.col_idx)
      /\ g.col_idx \in Seq(Nodes(g))
  BY GraphType
<1>2. x \in 0 .. g.num_nodes /\ x + 1 \in 0 .. g.num_nodes
  BY <1>1 DEF Nodes
<1>a. PICK a \in 0 .. Len(g.col_idx) : a = g.row_ptr[x]
  BY <1>1, <1>2
<1>b. PICK b \in 0 .. Len(g.col_idx) : b = g.row_ptr[x + 1]
  BY <1>1, <1>2
<1>3. a \in Int /\ b \in Int /\ a + 1 \in Int
  BY <1>1
<1>4. \A i \in a + 1 .. b : i \in 1 .. Len(g.col_idx)
  BY <1>1
<1>5. \A i \in a + 1 .. b : g.col_idx[i] \in Nodes(g)
  BY <1>1, <1>4, ElementOfSeq
<1>6. /\ SubSeq(g.col_idx, a + 1, b) \in Seq(Nodes(g))
      /\ Len(SubSeq(g.col_idx, a + 1, b)) = IF a + 1 <= b THEN b - (a + 1) + 1 ELSE 0
      /\ \A i \in 1 .. b - (a + 1) + 1 : SubSeq(g.col_idx, a + 1, b)[i] = g.col_idx[(a + 1) + i - 1]
  BY ONLY <1>3, <1>5, SubSeqProperties, SMTT(30)
<1>7. Row(g, x) = SubSeq(g.col_idx, a + 1, b)
  BY <1>a, <1>b DEF Row
<1> DEFINE r == Row(g, x)
<1>8. r \in Seq(Nodes(g)) /\ Len(r) \in Nat /\ DOMAIN r = 1 .. Len(r)
  BY <1>6, <1>7, LenProperties
<1>9. Targets(g, x) = {r[k] : k \in DOMAIN r}
  BY DEF Targets
<1>10. ASSUME NEW k \in DOMAIN r
       PROVE  r[k] \in Nodes(g) \ {x}
  <2>1. k \in Nat /\ k \in 1 .. b - (a + 1) + 1 /\ k \in 1 .. Len(r)
    BY <1>3, <1>6, <1>7, <1>8
  <2>1a. k \in Nat /\ 1 <= k /\ k <= b - a
    BY ONLY <1>3, <2>1
  <2>2. a + k \in 1 .. Len(g.col_idx) /\ a < a + k /\ a + k <= b /\ (a + 1) + k - 1 = a + k
    BY ONLY <1>1, <2>1a, a \in 0 .. Len(g.col_idx), b \in 0 .. Len(g.col_idx)
  <2>3. r[k] = g.col_idx[a + k]
    BY <1>6, <1>7, <2>1, <2>2
  <2>4. InRow(g, a + k, x)
    BY <1>a, <1>b, <2>2 DEF InRow
  <2>5. g.col_idx[a + k] # x
    BY <1>1, <2>2, <2>4 DEF Graph, NoLoops
  <2>6. r[k] \in Nodes(g)
    BY <1>8, <2>1, ElementOfSeq
  <2> QED
    BY <2>3, <2>5, <2>6
<1> QED
  BY <1>8, <1>9, <1>10

\* A graph without edges.
LEMMA EmptyGraph ==
  ASSUME NEW n \in 1 .. NNodes
  PROVE  Graph(Empty(n)) /\ FilledTo(Empty(n), 0) /\ Empty(n).num_nodes = n
         /\ Len(Empty(n).col_idx) = 0
<1>1. NNodes \in Nat /\ MAX_EDGES \in Nat /\ n \in Nat
  BY CoarsenAssumption
<1> DEFINE g == Empty(n)
<1>2. /\ g.num_nodes = n /\ g.col_idx = << >> /\ g.row_ptr = [x \in 0 .. n |-> 0]
      /\ g = [num_nodes |-> g.num_nodes, row_ptr |-> g.row_ptr, col_idx |-> g.col_idx]
  BY DEF Empty
<1>3. Len(g.col_idx) = 0 /\ DOMAIN g.col_idx = {} /\ g.col_idx \in Seq(Nodes(g))
  BY <1>2, EmptySeq
<1>4. WellFormed(g)
  BY <1>1, <1>2, <1>3 DEF WellFormed
<1>5. NoLoops(g)
  BY <1>3 DEF NoLoops
<1>6. FilledTo(g, 0)
  BY <1>1, <1>2, <1>3 DEF FilledTo
<1> QED
  BY <1>2, <1>3, <1>4, <1>5, <1>6 DEF Graph

\* What fits of a row, and that all of it does if there is room.
LEMMA FittingRow ==
  ASSUME NEW g, Graph(g), NEW S, NEW row \in Seq(S)
  PROVE  /\ Fitting(g, row) \in Seq(S)
         /\ Len(g.col_idx) + Len(Fitting(g, row)) <= MAX_EDGES
         /\ Len(g.col_idx) + Len(row) <= MAX_EDGES => Fitting(g, row) = row
<1>1. Len(g.col_idx) \in 0 .. MAX_EDGES /\ MAX_EDGES \in Nat
  BY GraphType
<1>2. Len(row) \in Nat /\ DOMAIN row = 1 .. Len(row)
  BY LenProperties
<1> DEFINE room == MAX_EDGES - Len(g.col_idx)
<1>a. room \in Nat /\ Len(g.col_idx) + room = MAX_EDGES
  BY <1>1
<1>b. PICK n : n = IF Len(row) <= room THEN Len(row) ELSE room
  OBVIOUS
<1>4. Fitting(g, row) = SubSeq(row, 1, n)
  BY <1>b DEF Fitting
<1>3. /\ n \in 0 .. Len(row) /\ n <= room /\ n \in Int
      /\ Len(row) <= room => n = Len(row)
  <2> HIDE DEF room
  <2>1. CASE Len(row) <= room
    BY <1>2, <1>a, <1>b, <2>1
  <2>2. CASE ~ Len(row) <= room
    <3>1. n = room
      BY <1>b, <2>2
    <3>2. Len(row) \in Nat /\ room \in Nat
      BY <1>2, <1>a
    <3> QED
      BY <2>2, <3>1, <3>2
  <2> QED
    BY <2>1, <2>2
<1>5. \A i \in 1 .. n : row[i] \in S
  <2>1. Len(row) \in Nat /\ n \in 0 .. Len(row)
    BY <1>2, <1>3
  <2>2. \A i \in 1 .. n : i \in 1 .. Len(row)
    BY <2>1
  <2> QED
    BY <2>2, ElementOfSeq
<1>6. /\ SubSeq(row, 1, n) \in Seq(S)
      /\ Len(SubSeq(row, 1, n)) = IF 1 <= n THEN n - 1 + 1 ELSE 0
  BY <1>3, <1>5, SubSeqProperties
<1>7. Len(SubSeq(row, 1, n)) = n
  BY <1>3, <1>6
<1>8. Len(g.col_idx) + n <= MAX_EDGES
  <2> HIDE DEF room
  <2> QED
    BY <1>1, <1>3, <1>a
<1>9. Len(g.col_idx) + Len(row) <= MAX_EDGES => n = Len(row)
  <2>1. Len(g.col_idx) + Len(row) <= MAX_EDGES => Len(row) <= room
    <3> HIDE DEF room
    <3> QED
      BY <1>1, <1>2, <1>a
  <2> QED
    BY <1>3, <2>1
<1>10. SubSeq(row, 1, Len(row)) = row
  BY SubSeqFull
<1> QED
  BY <1>4, <1>6, <1>7, <1>8, <1>9, <1>10

\* A row more: the graph is a graph, its other rows stay, and the new row has the
\* new edges, in their order.
LEMMA RowAdded ==
  ASSUME NEW g, Graph(g), NEW x \in Nodes(g), FilledTo(g, x),
         NEW row \in Seq(Nodes(g) \ {x}), Len(g.col_idx) + Len(row) <= MAX_EDGES,
         NEW h, h = AddRow(g, x, row)
  PROVE  /\ Graph(h) /\ FilledTo(h, x + 1) /\ h.num_nodes = g.num_nodes
         /\ Len(h.col_idx) = Len(g.col_idx) + Len(row)
         /\ \A y \in 0 .. x - 1 : {e \in DOMAIN h.col_idx : InRow(h, e, y)}
                                    = {e \in DOMAIN g.col_idx : InRow(g, e, y)}
         /\ {e \in DOMAIN h.col_idx : InRow(h, e, x)}
              = Len(g.col_idx) + 1 .. Len(g.col_idx) + Len(row)
         /\ \A e \in DOMAIN g.col_idx : h.col_idx[e] = g.col_idx[e]
         /\ \A k \in 1 .. Len(row) : h.col_idx[Len(g.col_idx) + k] = row[k]
<1>1. /\ g.num_nodes \in Nat /\ g.num_nodes \in 1 .. NNodes /\ MAX_EDGES \in Nat
      /\ g.row_ptr \in [0 .. g.num_nodes -> Nat]
      /\ Len(g.col_idx) \in Nat /\ DOMAIN g.col_idx = 1 .. Len(g.col_idx)
      /\ \A y \in 0 .. g.num_nodes : g.row_ptr[y] \in 0 .. Len(g.col_idx)
      /\ g.col_idx \in Seq(Nodes(g))
  BY GraphType
<1>2. /\ x \in Nat /\ x \in 0 .. g.num_nodes /\ x + 1 \in 0 .. g.num_nodes
      /\ g.num_nodes \in x + 1 .. g.num_nodes
  BY <1>1 DEF Nodes
<1>3. /\ \A y \in x .. g.num_nodes : g.row_ptr[y] = Len(g.col_idx)
  BY DEF FilledTo
<1>4. /\ row \in Seq(Nodes(g)) /\ Len(row) \in Nat /\ DOMAIN row = 1 .. Len(row)
      /\ \A k \in 1 .. Len(row) : row[k] \in Nodes(g) \ {x}
  BY LenProperties, ElementOfSeq
<1> DEFINE old == Len(g.col_idx)
           new == Len(g.col_idx) + Len(row)
<1>5. /\ h.num_nodes = g.num_nodes
      /\ h.row_ptr = [y \in 0 .. g.num_nodes |->
                        IF y <= x THEN g.row_ptr[y] ELSE Len(g.col_idx \o row)]
      /\ h.col_idx = g.col_idx \o row
      /\ h = [num_nodes |-> h.num_nodes, row_ptr |-> h.row_ptr, col_idx |-> h.col_idx]
  <2>1. DOMAIN g.row_ptr = 0 .. g.num_nodes
    BY <1>1
  <2> QED
    BY <2>1 DEF AddRow
<1>6. /\ h.col_idx \in Seq(Nodes(g)) /\ Len(h.col_idx) = new
      /\ \A i \in 1 .. old + Len(row) :
           h.col_idx[i] = IF i <= old THEN g.col_idx[i] ELSE row[i - old]
  BY <1>1, <1>4, <1>5, ConcatProperties
<1>7. DOMAIN h.col_idx = 1 .. new /\ new \in Nat
  BY <1>1, <1>4, <1>6, LenProperties
<1>8. \A y \in 0 .. g.num_nodes : h.row_ptr[y] = IF y <= x THEN g.row_ptr[y] ELSE new
  BY <1>5, <1>6
<1>9. h.row_ptr \in [0 .. h.num_nodes -> 0 .. MAX_EDGES]
  <2>1. \A y \in 0 .. g.num_nodes : (IF y <= x THEN g.row_ptr[y] ELSE new) \in 0 .. MAX_EDGES
    BY <1>1, <1>2, <1>4, <1>7
  <2> QED
    BY <2>1, <1>5, <1>6
<1>10. \A y, z \in 0 .. h.num_nodes : y <= z => h.row_ptr[y] <= h.row_ptr[z]
  <2> SUFFICES ASSUME NEW y \in 0 .. g.num_nodes, NEW z \in 0 .. g.num_nodes, y <= z
               PROVE  h.row_ptr[y] <= h.row_ptr[z]
    BY <1>5
  <2>1. CASE z <= x
    <3>1. y <= x
      BY <1>2, <2>1
    <3>2. g.row_ptr[y] <= g.row_ptr[z]
      BY DEF Graph, WellFormed
    <3> QED
      BY <1>8, <2>1, <3>1, <3>2
  <2>2. CASE ~ z <= x
    <3>1. h.row_ptr[z] = new /\ new >= old
      BY <1>1, <1>4, <1>8, <2>2
    <3>2. g.row_ptr[y] <= old /\ g.row_ptr[y] \in Nat
      BY <1>1
    <3>3. h.row_ptr[y] = g.row_ptr[y] \/ h.row_ptr[y] = new
      BY <1>8
    <3>4. g.row_ptr[y] <= new
      BY <1>1, <1>7, <3>1, <3>2
    <3>5. new <= new
      BY <1>7
    <3> QED
      BY <3>1, <3>3, <3>4, <3>5
  <2> QED
    BY <2>1, <2>2
<1>11. h.row_ptr[0] = 0 /\ h.row_ptr[h.num_nodes] = Len(h.col_idx)
  <2>1. 0 \in 0 .. g.num_nodes /\ 0 <= x /\ g.num_nodes \in 0 .. g.num_nodes /\ ~ g.num_nodes <= x
    BY <1>1, <1>2
  <2>2. g.row_ptr[0] = 0
    BY DEF Graph, WellFormed
  <2> QED
    BY <1>5, <1>6, <1>8, <2>1, <2>2
<1>12. Nodes(h) = Nodes(g)
  BY <1>5 DEF Nodes
<1>13. WellFormed(h)
  BY <1>1, <1>5, <1>6, <1>9, <1>10, <1>11, <1>12 DEF WellFormed
<1>14. \A y \in 0 .. x - 1, e \in 1 .. new :
         InRow(h, e, y) <=> e \in 1 .. old /\ InRow(g, e, y)
  <2> TAKE y \in 0 .. x - 1, e \in 1 .. new
  <2>1. y \in 0 .. g.num_nodes /\ y <= x /\ y + 1 \in 0 .. g.num_nodes /\ y + 1 <= x
    BY <1>1, <1>2
  <2>2. h.row_ptr[y] = g.row_ptr[y] /\ h.row_ptr[y + 1] = g.row_ptr[y + 1]
    BY <1>8, <2>1
  <2>3. g.row_ptr[y + 1] \in 0 .. old /\ g.row_ptr[y] \in 0 .. old
    BY <1>1, <2>1
  <2> QED
    BY <1>1, <1>7, <2>2, <2>3 DEF InRow
<1>15. \A e \in 1 .. new : InRow(h, e, x) <=> e \in old + 1 .. new
  <2>1. h.row_ptr[x] = old /\ h.row_ptr[x + 1] = new
    <3>1. x \in x .. g.num_nodes /\ ~ x + 1 <= x /\ x <= x
      BY <1>1, <1>2
    <3> QED
      BY <1>2, <1>3, <1>8, <3>1
  <2> QED
    BY <1>1, <1>7, <2>1 DEF InRow
<1>16. \A e \in 1 .. old : e \in 1 .. new /\ h.col_idx[e] = g.col_idx[e]
  BY <1>1, <1>4, <1>6
<1>17. \A k \in 1 .. Len(row) : h.col_idx[old + k] = row[k]
  <2> TAKE k \in 1 .. Len(row)
  <2>1. old + k \in 1 .. old + Len(row) /\ ~ old + k <= old /\ (old + k) - old = k
    BY <1>1, <1>4
  <2> QED
    BY <1>6, <2>1
<1>18. NoLoops(h)
  <2> SUFFICES ASSUME NEW y \in Nodes(g), NEW e \in 1 .. new, InRow(h, e, y)
               PROVE  h.col_idx[e] # y
    BY <1>7, <1>12 DEF NoLoops
  <2>0. y \in 0 .. g.num_nodes - 1 /\ y \in Nat /\ y + 1 \in 0 .. g.num_nodes
    BY <1>1 DEF Nodes
  <2>1. CASE y < x
    <3>1. y \in 0 .. x - 1
      BY <1>2, <2>0, <2>1
    <3>2. e \in DOMAIN g.col_idx /\ InRow(g, e, y)
      BY <1>1, <1>14, <3>1
    <3> QED
      BY <1>1, <1>16, <3>2 DEF Graph, NoLoops
  <2>2. CASE y = x
    <3>1. e \in old + 1 .. new
      BY <1>15, <2>2
    <3>2. e - old \in 1 .. Len(row) /\ old + (e - old) = e
      BY <1>1, <1>4, <3>1
    <3>3. h.col_idx[e] = row[e - old]
      BY <1>17, <3>2
    <3> QED
      BY <1>4, <2>2, <3>2, <3>3
  <2>3. CASE y > x
    <3>1. h.row_ptr[y] = new
      BY <1>2, <1>8, <2>0, <2>3
    <3> QED
      BY <1>7, <3>1 DEF InRow
  <2> QED
    BY <1>2, <2>0, <2>1, <2>2, <2>3
<1>19. FilledTo(h, x + 1)
  <2>1. \A y \in x + 1 .. g.num_nodes : y \in 0 .. g.num_nodes /\ ~ y <= x
    BY <1>1, <1>2
  <2> QED
    BY <1>2, <1>5, <1>6, <1>8, <2>1 DEF FilledTo
<1>20. Graph(h)
  BY <1>5, <1>13, <1>18 DEF Graph
<1>21. \A y \in 0 .. x - 1 : {e \in DOMAIN h.col_idx : InRow(h, e, y)}
                               = {e \in DOMAIN g.col_idx : InRow(g, e, y)}
  BY <1>1, <1>7, <1>14, <1>16
<1>22. {e \in DOMAIN h.col_idx : InRow(h, e, x)} = old + 1 .. new
  <2>1. old + 1 .. new \subseteq 1 .. new
    BY <1>1, <1>7
  <2> QED
    BY <1>7, <1>15, <2>1
<1> QED
  BY <1>1, <1>5, <1>6, <1>16, <1>17, <1>19, <1>20, <1>21, <1>22
-----------------------------------------------------------------------------
(***************************************************************************)
(* The edges that leave a coarse node.  The provers have no induction, but *)
(* they know that < is well-founded: what a recursive function computes is *)
(* proved by the least argument where it would be wrong.                   *)
(***************************************************************************)
\* A set of natural numbers that is not empty has a least element.
LEMMA LeastNatural ==
  ASSUME NEW T \in SUBSET Nat, T # {}
  PROVE  \E n \in T : \A m \in T : n <= m
<1>1. PICK R : R = OpToRel(<, Nat)
  OBVIOUS
<1>2. IsWellFoundedOn(R, Nat)
  BY <1>1, NatLessThanWellFounded
<1>3. PICK n \in T : \A m \in T : ~ (<<m, n>> \in R)
  BY <1>2, WFMin
<1>4. ASSUME NEW m \in T, m < n
      PROVE  FALSE
  <2>1. <<m, n>> \in R
    BY <1>1, <1>4 DEF OpToRel
  <2> QED
    BY <1>3, <2>1
<1>5. \A m \in T : n <= m
  BY <1>4
<1> QED
  BY <1>5

\* The function that the recursion in Leaving defines.
Taken(f, N, L, w) ==
  f = [e \in 0 .. N |-> IF e = 0 THEN << >>
                        ELSE IF e \in L THEN Append(f[e - 1], w[e]) ELSE f[e - 1]]

\* It exists.
LEMMA TakenExists ==
  ASSUME NEW N \in Nat, NEW L, NEW w
  PROVE  \E f : Taken(f, N, L, w)
<1> DEFINE T == {n \in Nat : ~ \E f : Taken(f, n, L, w)}
<1> SUFFICES ASSUME T # {} PROVE FALSE
  OBVIOUS
<1>1. PICK n \in T : \A m \in T : n <= m
  <2>1. T \in SUBSET Nat
    OBVIOUS
  <2> HIDE DEF T
  <2> QED
    BY <2>1, LeastNatural
<1>2. n # 0
  <2>1. Taken([e \in 0 .. 0 |-> << >>], 0, L, w)
    BY DEF Taken
  <2> QED
    BY <2>1
<1>3. n - 1 \in Nat /\ ~ n <= n - 1
  BY <1>2
<1>4. PICK f : Taken(f, n - 1, L, w)
  BY <1>1, <1>3
<1> DEFINE h == [e \in 0 .. n |->
                   IF e = 0 THEN << >>
                   ELSE IF e \in L THEN Append(f[e - 1], w[e]) ELSE f[e - 1]]
<1>5. \A e \in 0 .. n - 1 : h[e] = f[e]
  <2> TAKE e \in 0 .. n - 1
  <2>1. e \in 0 .. n
    BY <1>3
  <2>2. f[e] = IF e = 0 THEN << >>
               ELSE IF e \in L THEN Append(f[e - 1], w[e]) ELSE f[e - 1]
    BY <1>4 DEF Taken
  <2> QED
    BY <2>1, <2>2
<1>6. \A e \in 0 .. n : e # 0 => e - 1 \in 0 .. n - 1 /\ h[e - 1] = f[e - 1]
  <2>1. \A e \in 0 .. n : e # 0 => e - 1 \in 0 .. n - 1
    BY <1>3
  <2> HIDE DEF h
  <2> QED
    BY <1>5, <2>1
<1>7. h = [e \in 0 .. n |-> IF e = 0 THEN << >>
                            ELSE IF e \in L THEN Append(h[e - 1], w[e]) ELSE h[e - 1]]
  <2> HIDE DEF h
  <2>1. h = [e \in 0 .. n |->
                   IF e = 0 THEN << >>
                   ELSE IF e \in L THEN Append(f[e - 1], w[e]) ELSE f[e - 1]]
    BY DEF h
  <2> QED
    BY <1>6, <2>1
<1>8. Taken(h, n, L, w)
  <2> HIDE DEF h
  <2> QED
    BY <1>7 DEF Taken
<1> QED
  BY <1>8

\* A sequence over S made of the values of w on L, each once.
MadeOf(r, S, n, L, w) ==
  /\ r \in Seq(S)
  /\ Len(r) = Cardinality({e \in 1 .. n : e \in L})
  /\ \A j : Cardinality({k \in 1 .. Len(r) : r[k] = j})
              = Cardinality({e \in 1 .. n : e \in L /\ w[e] = j})
Values(w, N, L, S) == \A e \in 1 .. N : e \in L => w[e] \in S

\* It takes the edges of L, each once.
LEMMA TakenCounts ==
  ASSUME NEW N \in Nat, NEW L, NEW S, NEW w, Values(w, N, L, S),
         NEW f, Taken(f, N, L, w), NEW n \in 0 .. N
  PROVE  MadeOf(f[n], S, n, L, w)
<1> USE DEF Values, MadeOf
<1> DEFINE R(m) == MadeOf(f[m], S, m, L, w)
           T == {m \in Nat : m <= N /\ ~ R(m)}
<1>0. SUFFICES T = {}
  <2>1. n \in Nat /\ n <= N
    OBVIOUS
  <2> QED
    BY <2>1
<1> SUFFICES ASSUME T # {} PROVE FALSE
  OBVIOUS
<1>1. PICK m \in T : \A o \in T : m <= o
  <2>1. T \in SUBSET Nat
    OBVIOUS
  <2> HIDE DEF T
  <2> QED
    BY <2>1, LeastNatural
<1>2. m \in Nat /\ m <= N /\ ~ R(m)
  BY <1>1
<1>3. \A e \in 0 .. N : f[e] = IF e = 0 THEN << >>
                             ELSE IF e \in L THEN Append(f[e - 1], w[e]) ELSE f[e - 1]
  BY DEF Taken
<1>4. R(0)
  <2>1. f[0] = << >> /\ 1 .. 0 = {}
    BY <1>3
  <2>2. f[0] \in Seq(S) /\ Len(f[0]) = 0
    BY <2>1, EmptySeq
  <2>3. {e \in 1 .. 0 : e \in L} = {}
    BY <2>1
  <2>4. \A j : /\ {k \in 1 .. Len(f[0]) : f[0][k] = j} = {}
               /\ {e \in 1 .. 0 : e \in L /\ w[e] = j} = {}
    BY <2>1, <2>2
  <2> QED
    BY <2>2, <2>3, <2>4, FS_EmptySet
<1>5. m # 0
  <2> HIDE DEF R
  <2> QED
    BY <1>2, <1>4
<1>6. m - 1 \in Nat /\ m - 1 <= N /\ ~ m <= m - 1 /\ m \in 1 .. N /\ m \in 0 .. N
  BY <1>2, <1>5
<1>7. R(m - 1)
  BY <1>1, <1>6
<1>8. PICK s : s = f[m - 1]
  OBVIOUS
<1>9. /\ s \in Seq(S) /\ Len(s) \in Nat
      /\ Len(s) = Cardinality({e \in 1 .. m - 1 : e \in L})
      /\ \A j : Cardinality({k \in 1 .. Len(s) : s[k] = j})
                  = Cardinality({e \in 1 .. m - 1 : e \in L /\ w[e] = j})
  BY <1>7, <1>8, LenProperties
<1>10. 1 .. m = (1 .. m - 1) \cup {m} /\ m \notin 1 .. m - 1
  BY <1>2, <1>5
<1>11. \A X : IsFiniteSet({e \in 1 .. m - 1 : e \in X})
  <2>1. IsFiniteSet(1 .. m - 1)
    BY <1>6, FS_Interval
  <2> QED
    BY <2>1, FS_Subset
<1>12. CASE m \notin L
  <2>1. f[m] = s
    BY <1>3, <1>5, <1>6, <1>8, <1>12
  <2>2. {e \in 1 .. m : e \in L} = {e \in 1 .. m - 1 : e \in L}
    BY <1>10, <1>12
  <2>3. \A j : {e \in 1 .. m : e \in L /\ w[e] = j} = {e \in 1 .. m - 1 : e \in L /\ w[e] = j}
    BY <1>10, <1>12
  <2>4. R(m)
    BY <1>9, <2>1, <2>2, <2>3
  <2> QED
    BY <1>2, <2>4
<1>13. CASE m \in L
  <2>1. f[m] = Append(s, w[m]) /\ w[m] \in S
    BY <1>3, <1>5, <1>6, <1>8, <1>13
  <2>2. PICK r : r = Append(s, w[m])
    OBVIOUS
  <2>3. /\ r \in Seq(S) /\ Len(r) = Len(s) + 1 /\ r[Len(s) + 1] = w[m]
        /\ \A k \in 1 .. Len(s) : r[k] = s[k]
    <3>1. s \in Seq(S) /\ w[m] \in S
      BY <1>9, <2>1
    <3> QED
      BY <2>2, <3>1, AppendProperties
  <2>4. 1 .. Len(r) = (1 .. Len(s)) \cup {Len(r)} /\ Len(r) \notin 1 .. Len(s)
    <3>1. Len(s) \in Nat /\ Len(r) = Len(s) + 1
      BY <1>9, <2>3
    <3> QED
      BY <3>1
  <2>5. Len(r) = Cardinality({e \in 1 .. m : e \in L})
    <3>1. {e \in 1 .. m : e \in L} = {e \in 1 .. m - 1 : e \in L} \cup {m}
      BY <1>10, <1>13
    <3>2. m \notin {e \in 1 .. m - 1 : e \in L}
      BY <1>10
    <3>3. PICK A : A = {e \in 1 .. m - 1 : e \in L}
      OBVIOUS
    <3>4. IsFiniteSet(A) /\ m \notin A
      BY <1>11, <3>2, <3>3
    <3>5. Cardinality(A \cup {m}) = Cardinality(A) + 1
      BY <3>4, FS_AddElement
    <3>6. Len(r) = Cardinality(A) + 1
      BY <1>9, <2>3, <3>3
    <3> QED
      BY <3>1, <3>3, <3>5, <3>6
  <2>6. ASSUME NEW j
        PROVE  Cardinality({k \in 1 .. Len(r) : r[k] = j})
                 = Cardinality({e \in 1 .. m : e \in L /\ w[e] = j})
    <3> DEFINE A == {k \in 1 .. Len(s) : s[k] = j}
               B == {e \in 1 .. m - 1 : e \in L /\ w[e] = j}
    <3>1. Cardinality(A) = Cardinality(B)
      BY <1>9
    <3>2. IsFiniteSet(A)
      <4>1. IsFiniteSet(1 .. Len(s))
        BY <1>9, FS_Interval
      <4> QED
        BY <4>1, FS_Subset
    <3>3. IsFiniteSet(B)
      <4>1. B = {e \in 1 .. m - 1 : e \in {d \in L : w[d] = j}}
        OBVIOUS
      <4> QED
        BY <1>11, <4>1
    <3>4. CASE w[m] = j
      <4>1. {k \in 1 .. Len(r) : r[k] = j} = A \cup {Len(r)} /\ Len(r) \notin A
        BY <2>3, <2>4, <3>4
      <4>2. {e \in 1 .. m : e \in L /\ w[e] = j} = B \cup {m} /\ m \notin B
        BY <1>10, <1>13, <3>4
      <4> HIDE DEF A, B
      <4>3. Cardinality(A \cup {Len(r)}) = Cardinality(A) + 1
        BY <3>2, <4>1, FS_AddElement
      <4>4. Cardinality(B \cup {m}) = Cardinality(B) + 1
        BY <3>3, <4>2, FS_AddElement
      <4> QED
        BY <3>1, <4>1, <4>2, <4>3, <4>4
    <3>5. CASE w[m] # j
      <4>1. {k \in 1 .. Len(r) : r[k] = j} = A
        BY <2>3, <2>4, <3>5
      <4>2. {e \in 1 .. m : e \in L /\ w[e] = j} = B
        BY <1>10, <3>5
      <4> HIDE DEF A, B
      <4> QED
        BY <3>1, <4>1, <4>2
    <3> QED
      BY <3>4, <3>5
  <2>7. f[m] = r
    BY <2>1, <2>2
  <2>8. R(m)
    BY <2>3, <2>5, <2>6, <2>7
  <2> QED
    BY <1>2, <2>8
<1> QED
  BY <1>12, <1>13

\* How often j is in a row, and the edges from coarse node i to coarse node j.
Count(row, j) == Cardinality({k \in 1 .. Len(row) : row[k] = j})
LeavingTo(i, j) == {e \in Edges : Leaves(e, i) /\ coarse_id[Fine.col_idx[e]] = j}

\* The row of coarse node i has the edges that leave its nodes, each once.
LEMMA LeavingRow ==
  ASSUME Graph(Fine), NEW C, coarse_id \in [Nodes(Fine) -> C], NEW i
  PROVE  /\ Leaving(i) \in Seq(C \ {i})
         /\ Len(Leaving(i)) = Cardinality({e \in Edges : Leaves(e, i)})
         /\ \A j : Count(Leaving(i), j) = Cardinality(LeavingTo(i, j))
<1> DEFINE N == Len(Fine.col_idx)
           L == {e \in 1 .. N : Leaves(e, i)}
           w == [e \in 1 .. N |-> coarse_id[Fine.col_idx[e]]]
           F == CHOOSE f : f = [e \in 0 .. N |->
                  IF e = 0 THEN << >>
                  ELSE IF Leaves(e, i) THEN Append(f[e - 1], coarse_id[Fine.col_idx[e]])
                  ELSE f[e - 1]]
<1>1. N \in Nat /\ Fine.col_idx \in Seq(Nodes(Fine))
  BY GraphType
<1>2. Leaving(i) = F[N]
  BY DEF Leaving
<1>3. \A e \in 0 .. N : e # 0 => e \in 1 .. N
  BY <1>1
<1>4. ASSUME NEW f
      PROVE  Taken(f, N, L, w)
             <=> f = [e \in 0 .. N |->
                  IF e = 0 THEN << >>
                  ELSE IF Leaves(e, i) THEN Append(f[e - 1], coarse_id[Fine.col_idx[e]])
                  ELSE f[e - 1]]
  <2>1. ASSUME NEW e \in 0 .. N, e # 0
        PROVE  (e \in L <=> Leaves(e, i)) /\ w[e] = coarse_id[Fine.col_idx[e]]
    BY <1>3, <2>1
  <2> HIDE DEF L, w, N
  <2> QED
    BY <2>1 DEF Taken
<1>5. Taken(F, N, L, w)
  <2>1. \E f : Taken(f, N, L, w)
    <3> HIDE DEF L, w, N
    <3> QED
      BY <1>1, TakenExists
  <2> HIDE DEF L, w, N
  <2>2. \E f : f = [e \in 0 .. N |->
                  IF e = 0 THEN << >>
                  ELSE IF Leaves(e, i) THEN Append(f[e - 1], coarse_id[Fine.col_idx[e]])
                  ELSE f[e - 1]]
    BY <1>4, <2>1, Zenon
  <2>3. F = [e \in 0 .. N |->
                  IF e = 0 THEN << >>
                  ELSE IF Leaves(e, i) THEN Append(F[e - 1], coarse_id[Fine.col_idx[e]])
                  ELSE F[e - 1]]
    BY <2>2, Zenon
  <2> HIDE DEF F
  <2> QED
    BY <1>4, <2>3
<1>6. \A e \in 1 .. N : e \in L => w[e] \in C \ {i}
  <2> SUFFICES ASSUME NEW e \in 1 .. N, Leaves(e, i)
               PROVE  w[e] \in C \ {i}
    OBVIOUS
  <2>1. Fine.col_idx[e] \in Nodes(Fine)
    BY <1>1, ElementOfSeq
  <2>2. coarse_id[Fine.col_idx[e]] \in C
    BY <2>1
  <2> QED
    BY <2>2 DEF Leaves
<1>7. PICK r : r = F[N]
  OBVIOUS
<1>8. /\ r \in Seq(C \ {i})
      /\ Len(r) = Cardinality({e \in 1 .. N : e \in L})
      /\ \A j : Cardinality({k \in 1 .. Len(r) : r[k] = j})
                  = Cardinality({e \in 1 .. N : e \in L /\ w[e] = j})
  <2>1. N \in 0 .. N
    BY <1>1
  <2> HIDE DEF L, w, N, F
  <2>2. PICK S : S = C \ {i}
    OBVIOUS
  <2>3. Values(w, N, L, S)
    BY <1>6, <2>2 DEF Values
  <2>4. /\ F[N] \in Seq(S)
        /\ Len(F[N]) = Cardinality({e \in 1 .. N : e \in L})
        /\ \A j : Cardinality({k \in 1 .. Len(F[N]) : F[N][k] = j})
                    = Cardinality({e \in 1 .. N : e \in L /\ w[e] = j})
    <3>1. MadeOf(F[N], S, N, L, w)
      BY <1>1, <1>5, <2>1, <2>3, TakenCounts
    <3> QED
      BY <3>1 DEF MadeOf
  <2>5. r \in Seq(C \ {i})
    BY <1>7, <2>2, <2>4, Zenon
  <2>6. Len(r) = Cardinality({e \in 1 .. N : e \in L})
    BY <1>7, <2>4, Zenon
  <2>7. \A j : Cardinality({k \in 1 .. Len(r) : r[k] = j})
              = Cardinality({e \in 1 .. N : e \in L /\ w[e] = j})
    BY <1>7, <2>4, Zenon
  <2> QED
    BY <2>5, <2>6, <2>7
<1>9. {e \in 1 .. N : e \in L} = {e \in Edges : Leaves(e, i)}
  BY DEF Edges
<1>10. \A j : {e \in 1 .. N : e \in L /\ w[e] = j}
                = LeavingTo(i, j)
  BY DEF Edges, LeavingTo
<1>11. Leaving(i) = r
  BY <1>2, <1>7
<1> HIDE DEF L, w, N, F
<1> QED
  BY <1>8, <1>9, <1>10, <1>11 DEF Count
-----------------------------------------------------------------------------
(***************************************************************************)
(* The graphs stay graphs, and the arrays have the size of the level.      *)
(***************************************************************************)
\* The graph of the level, and the coarse one while it is filled.
LEMMA LevelGraphs ==
  ASSUME ShapeInv
  PROVE  /\ level \in Nat /\ Len(levels) \in Nat /\ DOMAIN levels = 1 .. Len(levels)
         /\ level + 1 \in DOMAIN levels /\ Graph(Fine)
         /\ Len(levels) = level + 2 => level + 2 \in DOMAIN levels /\ Graph(levels[level + 2])
<1>1. /\ level \in 0 .. MAX_LEVELS - 1 /\ levels \in Seq(GraphSet)
      /\ Len(levels) \in {level + 1, level + 2}
      /\ \A k \in DOMAIN levels : Graph(levels[k])
  BY DEF ShapeInv
<1>2. level \in Nat /\ Len(levels) \in Nat /\ DOMAIN levels = 1 .. Len(levels)
  BY <1>1, CoarsenAssumption, LenProperties
<1>3. level + 1 \in 1 .. Len(levels)
  <2>1. PICK n : n = Len(levels)
    OBVIOUS
  <2>2. level \in Nat /\ (n = level + 1 \/ n = level + 2)
    BY <1>1, <1>2, <2>1
  <2>3. level + 1 \in 1 .. n
    BY <2>2
  <2> QED
    BY <2>1, <2>3
<1>4. Len(levels) = level + 2 => level + 2 \in 1 .. Len(levels)
  <2>1. level \in Nat => level + 2 \in 1 .. level + 2
    OBVIOUS
  <2> QED
    BY <1>2, <2>1
<1> QED
  BY <1>1, <1>2, <1>3, <1>4 DEF Fine

\* The arrays of a level that has not begun.
LEMMA UnsetType ==
  ASSUME NEW g
  PROVE  /\ Unset(g) \in [Nodes(g) -> Nodes(g) \cup {None}] /\ Unset(g) \in [Nodes(g) -> Int]
         /\ \A x \in Nodes(g) : Unset(g)[x] = None
  BY DEF Unset, None

\* At the start.
LEMMA ShapeInit == CoarsenInit => ShapeInv /\ LoopInv
<1> SUFFICES ASSUME CoarsenInit PROVE ShapeInv /\ LoopInv
  OBVIOUS
<1>1. NNodes \in 1 .. NNodes /\ MAX_LEVELS \in Nat \ {0}
  BY CoarsenAssumption
<1>2. PICK g : g = Empty(NNodes)
  OBVIOUS
<1>3. Graph(g) /\ FilledTo(g, 0) /\ g.num_nodes = NNodes /\ g \in GraphSet
  BY <1>1, <1>2, EmptyGraph, GraphType
<1>4. /\ pc = "generate" /\ levels = <<g>> /\ level = 0 /\ match = Unset(g)
      /\ coarse_id = Unset(g) /\ u = 0 /\ c = 0
  BY <1>2 DEF CoarsenInit
<1>5. levels \in Seq(GraphSet) /\ Len(levels) = 1 /\ DOMAIN levels = 1 .. 1 /\ levels[1] = g
  BY <1>3, <1>4
<1>6. Fine = g /\ \A k \in DOMAIN levels : levels[k] = g
  BY <1>4, <1>5 DEF Fine
<1>7. ShapeInv
  BY <1>1, <1>3, <1>4, <1>5, <1>6, UnsetType DEF ShapeInv
<1>8. LoopInv
  BY <1>3, <1>4, <1>6 DEF LoopInv
<1> QED
  BY <1>7, <1>8

\* The partner of the node the scan is at: a free neighbour, or if none is free the
\* node itself.
PartnerChoice ==
  /\ Partner \in Nodes(Fine)
  /\ Partner # u => Partner \in Targets(Fine, u) /\ match[Partner] = None
  /\ Partner = u => \A y \in Targets(Fine, u) : match[y] # None

\* What Partner is.
LEMMA PartnerType ==
  ASSUME Graph(Fine), u \in Nodes(Fine)
  PROVE  PartnerChoice
<1> DEFINE row == Row(Fine, u)
           free == {k \in DOMAIN row : match[row[k]] = None}
<1>1. /\ DOMAIN row \subseteq Nat /\ Targets(Fine, u) = {row[k] : k \in DOMAIN row}
      /\ Targets(Fine, u) \subseteq Nodes(Fine) \ {u}
  BY RowTargets
<1>2. Partner = IF free = {} THEN u
                ELSE row[CHOOSE k \in free : \A m \in free : k <= m]
  BY DEF Partner
<1>3. CASE free = {}
  BY <1>1, <1>2, <1>3 DEF PartnerChoice
<1>4. CASE free # {}
  <2>1. free \in SUBSET Nat
    BY <1>1
  <2>2. \E k \in free : \A m \in free : k <= m
    <3> HIDE DEF free
    <3> QED
      BY <1>4, <2>1, LeastNatural
  <2>3. PICK k \in free : Partner = row[k]
    <3> HIDE DEF free
    <3> QED
      BY <1>2, <1>4, <2>2
  <2>4. Partner \in Targets(Fine, u) /\ match[Partner] = None
    BY <1>1, <2>3
  <2> QED
    BY <1>1, <2>4 DEF PartnerChoice
<1> QED
  BY <1>3, <1>4

\* A row of the coarse graph is filled, and all of it fits, because the rows so far
\* have as many edges as nodes of theirs have edges to others.
RowStep(h) ==
  /\ h = AddRow(levels[level + 2], u, Leaving(u))
  /\ levels' = [levels EXCEPT ![level + 2] = h]
  /\ u \in Nodes(levels[level + 2]) /\ Leaving(u) \in Seq(Nodes(levels[level + 2]) \ {u})
  /\ Len(levels[level + 2].col_idx) + Len(Leaving(u)) = Cardinality(LeavingBefore(u + 1))
  /\ Len(levels[level + 2].col_idx) + Len(Leaving(u)) <= MAX_EDGES
  /\ Graph(h) /\ FilledTo(h, u + 1) /\ h.num_nodes = c

\* What CoarseRow does.
LEMMA RowFilled ==
  ASSUME ShapeInv, LoopInv, NumberInv, RowsInv, CoarseRow
  PROVE  \E h : RowStep(h)
<1>1. /\ pc = "rows" /\ u < c /\ u \in Nat /\ c \in Nat /\ Len(levels) = level + 2
      /\ levels' = [levels EXCEPT ![level + 2] =
                      AddRow(levels[level + 2], u, Fitting(levels[level + 2], Leaving(u)))]
      /\ coarse_id \in [Nodes(Fine) -> Int]
  BY DEF CoarseRow, ShapeInv
<1>2. PICK g : g = levels[level + 2]
  OBVIOUS
<1>3. /\ Graph(Fine) /\ Graph(g) /\ g.num_nodes = c /\ FilledTo(g, u)
      /\ level + 2 \in DOMAIN levels
  BY <1>1, <1>2, LevelGraphs DEF LoopInv
<1>4. Nodes(g) = 0 .. c - 1 /\ u \in Nodes(g)
  BY <1>1, <1>3 DEF Nodes
<1>5. coarse_id \in [Nodes(Fine) -> Nodes(g)]
  <2>1. \A x \in Nodes(Fine) : coarse_id[x] \in 0 .. c - 1
    BY <1>1 DEF NumberInv, NumberedBy
  <2> QED
    BY <1>1, <1>4, <2>1
<1>6. PICK row : row = Leaving(u)
  OBVIOUS
<1>7. row \in Seq(Nodes(g) \ {u}) /\ Len(row) = Cardinality({e \in Edges : Leaves(e, u)})
  BY <1>3, <1>5, <1>6, LeavingRow
<1>8. Len(g.col_idx) = Cardinality(LeavingBefore(u))
  BY <1>1, <1>2 DEF RowsInv
<1>9. /\ Len(Fine.col_idx) \in Nat /\ Len(Fine.col_idx) <= MAX_EDGES /\ MAX_EDGES \in Nat
      /\ DOMAIN Fine.col_idx = Edges
  BY <1>3, GraphType DEF Edges
<1>10. IsFiniteSet(Edges) /\ Cardinality(Edges) = Len(Fine.col_idx)
  BY <1>9, FS_Interval DEF Edges
<1> DEFINE A == LeavingBefore(u)
           B == {e \in Edges : Leaves(e, u)}
<1>11. A \cup B = LeavingBefore(u + 1)
  <2>1. 0 .. (u + 1) - 1 = (0 .. u - 1) \cup {u}
    BY <1>1
  <2> QED
    BY <2>1 DEF LeavingBefore
<1>12. A \cap B = {}
  <2> SUFFICES ASSUME NEW e \in Edges, NEW i \in 0 .. u - 1, Leaves(e, i), Leaves(e, u)
               PROVE  FALSE
    BY DEF LeavingBefore
  <2>1. PICK x \in Nodes(Fine) : coarse_id[x] = i /\ InRow(Fine, e, x)
    BY DEF Leaves
  <2>2. PICK y \in Nodes(Fine) : coarse_id[y] = u /\ InRow(Fine, e, y)
    BY DEF Leaves
  <2>3. x = y
    BY <1>3, <1>9, <2>1, <2>2, OneRow
  <2> QED
    BY <1>1, <2>1, <2>2, <2>3
<1>13. IsFiniteSet(A) /\ IsFiniteSet(B) /\ A \cup B \in SUBSET Edges
  <2>1. A \in SUBSET Edges /\ B \in SUBSET Edges
    BY DEF LeavingBefore
  <2> HIDE DEF A, B
  <2> QED
    BY <1>10, <2>1, FS_Subset
<1>14. Cardinality(A \cup B) = Cardinality(A) + Cardinality(B)
  <2> HIDE DEF A, B
  <2>1. Cardinality(A \cup B) = Cardinality(A) + Cardinality(B) - Cardinality({})
    BY <1>12, <1>13, FS_Union
  <2>2. Cardinality(A) \in Nat /\ Cardinality(B) \in Nat /\ Cardinality({}) = 0
    BY <1>13, FS_CardinalityType, FS_EmptySet
  <2> QED
    BY <2>1, <2>2
<1>15. Cardinality(A \cup B) <= Len(Fine.col_idx)
  <2> HIDE DEF A, B
  <2> QED
    BY <1>10, <1>13, FS_Subset
<1>16. Len(g.col_idx) + Len(row) = Cardinality(LeavingBefore(u + 1))
  BY <1>7, <1>8, <1>11, <1>14
<1>17. Len(g.col_idx) + Len(row) <= MAX_EDGES
  <2>1. /\ Len(g.col_idx) \in Nat /\ Len(row) \in Nat
    BY <1>3, <1>7, GraphType, LenProperties
  <2>2. PICK m : m = Cardinality(A \cup B)
    OBVIOUS
  <2>3. Len(g.col_idx) + Len(row) = m /\ m <= Len(Fine.col_idx)
    BY <1>11, <1>15, <1>16, <2>2
  <2> QED
    BY <1>9, <2>1, <2>3
<1>18. Fitting(g, row) = row
  BY <1>3, <1>7, <1>17, FittingRow
<1>19. PICK h : h = AddRow(g, u, row)
  OBVIOUS
<1>20. Graph(h) /\ FilledTo(h, u + 1) /\ h.num_nodes = c
  <2>1. /\ Graph(g) /\ u \in Nodes(g) /\ FilledTo(g, u) /\ row \in Seq(Nodes(g) \ {u})
        /\ Len(g.col_idx) + Len(row) <= MAX_EDGES
    BY <1>3, <1>4, <1>7, <1>17
  <2>2. Graph(h) /\ FilledTo(h, u + 1) /\ h.num_nodes = g.num_nodes
    BY <1>19, <2>1, RowAdded
  <2> QED
    BY <1>3, <2>2
<1>21. levels' = [levels EXCEPT ![level + 2] = h]
  BY <1>1, <1>2, <1>6, <1>18, <1>19
<1>22. RowStep(h)
  BY <1>2, <1>4, <1>6, <1>7, <1>16, <1>17, <1>19, <1>20, <1>21 DEF RowStep
<1> QED
  BY <1>22

\* In steps that leave the graphs alone.
LEMMA SameGraphs ==
  ASSUME levels' = levels, level' = level
  PROVE  /\ Fine' = Fine /\ Nodes(Fine)' = Nodes(Fine) /\ Unset(Fine)' = Unset(Fine)
         /\ levels[level + 2]' = levels[level + 2]
<1>1. Fine' = Fine
  BY DEF Fine
<1>2. Nodes(Fine)' = Nodes(Fine)
  BY <1>1 DEF Nodes
<1>3. Unset(Fine)' = Unset(Fine)
  BY <1>1, <1>2 DEF Unset
<1> QED
  BY <1>1, <1>2, <1>3

\* In every step.
LEMMA ShapeNext == CoarsenInv /\ [CoarsenNext]_coarsenVars => ShapeInv' /\ LoopInv'
<1> SUFFICES ASSUME CoarsenInv, [CoarsenNext]_coarsenVars PROVE ShapeInv' /\ LoopInv'
  OBVIOUS
<1>1. ShapeInv /\ LoopInv /\ MatchInv /\ NumberInv /\ RowsInv
  BY DEF CoarsenInv
<1>2. /\ MAX_LEVELS \in Nat \ {0} /\ NNodes \in Nat \ {0} /\ DEG \in Nat
  BY CoarsenAssumption
<1>3. /\ level \in Nat /\ Len(levels) \in Nat /\ DOMAIN levels = 1 .. Len(levels)
      /\ level + 1 \in DOMAIN levels /\ Graph(Fine)
  BY <1>1, LevelGraphs
<1>4. /\ Fine.num_nodes \in Nat /\ Fine.num_nodes \in 1 .. NNodes
      /\ Nodes(Fine) = 0 .. Fine.num_nodes - 1
  BY <1>3, GraphType DEF Nodes
<1>5. /\ levels \in Seq(GraphSet) /\ u \in Nat /\ c \in Nat /\ level \in 0 .. MAX_LEVELS - 1
      /\ \A k \in DOMAIN levels : Graph(levels[k])
      /\ match \in [Nodes(Fine) -> Nodes(Fine) \cup {None}]
      /\ coarse_id \in [Nodes(Fine) -> Int]
      /\ Len(levels) \in {level + 1, level + 2}
  BY <1>1 DEF ShapeInv
<1>6. CASE GenerateRow
  <2>1. /\ pc = "generate" /\ u < NNodes /\ u' = u + 1 /\ pc' = pc /\ level' = level
        /\ match' = match /\ coarse_id' = coarse_id /\ c' = c /\ level = 0 /\ Len(levels) = 1
        /\ Fine.num_nodes = NNodes /\ FilledTo(Fine, u) /\ match = Unset(Fine)
    BY <1>1, <1>6 DEF GenerateRow, ShapeInv, LoopInv
  <2>a. PICK n \in 0 .. DEG : \E row \in [1 .. n -> Nodes(Fine) \ {u}] :
          levels' = <<AddRow(Fine, u, Fitting(Fine, row))>>
    BY <1>6 DEF GenerateRow
  <2>2. PICK row \in [1 .. n -> Nodes(Fine) \ {u}] :
          levels' = <<AddRow(Fine, u, Fitting(Fine, row))>>
    BY <2>a
  <2>3. u \in Nodes(Fine)
    BY <1>2, <1>4, <1>5, <2>1
  <2>4. row \in Seq(Nodes(Fine) \ {u})
    <3>1. n \in Nat
      BY <1>2
    <3> QED
      BY <3>1
  <2>5. PICK fit : fit = Fitting(Fine, row)
    OBVIOUS
  <2>6. fit \in Seq(Nodes(Fine) \ {u}) /\ Len(Fine.col_idx) + Len(fit) <= MAX_EDGES
    BY <1>3, <2>4, <2>5, FittingRow
  <2>7. PICK h : h = AddRow(Fine, u, fit)
    OBVIOUS
  <2>8. Graph(h) /\ FilledTo(h, u + 1) /\ h.num_nodes = Fine.num_nodes
    BY <1>3, <2>1, <2>3, <2>6, <2>7, RowAdded
  <2>9. levels' = <<h>> /\ h \in GraphSet
    BY <2>2, <2>5, <2>7, <2>8, GraphType
  <2>10. levels' \in Seq(GraphSet) /\ Len(levels') = 1 /\ DOMAIN levels' = 1 .. 1 /\ levels'[1] = h
    BY <2>9
  <2>11. Fine' = h
    BY <2>1, <2>10 DEF Fine
  <2>12. Nodes(Fine)' = Nodes(Fine) /\ Unset(Fine)' = Unset(Fine)
    BY <2>8, <2>11 DEF Nodes, Unset
  <2>13. \A k \in DOMAIN levels' : Graph(levels'[k])
    BY <2>8, <2>10
  <2>14. u' \in Nat
    BY <1>5, <2>1
  <2>15. ShapeInv'
    BY <1>5, <2>1, <2>10, <2>12, <2>13, <2>14 DEF ShapeInv
  <2>16. LoopInv'
    BY <2>1, <2>8, <2>11, <2>12 DEF LoopInv
  <2> QED
    BY <2>15, <2>16
<1>7. ASSUME levels' = levels, level' = level
      PROVE  /\ Fine' = Fine /\ Nodes(Fine)' = Nodes(Fine) /\ Unset(Fine)' = Unset(Fine)
             /\ levels[level + 2]' = levels[level + 2]
             /\ \A k \in DOMAIN levels' : Graph(levels'[k])
  BY <1>5, <1>7, SameGraphs
<1>8. CASE GenerateEnd
  BY <1>1, <1>5, <1>7, <1>8 DEF GenerateEnd, ShapeInv, LoopInv
<1>9. CASE LevelBegin
  <2>1. /\ pc = "level" /\ level < MAX_LEVELS - 1 /\ pc' = "match" /\ u' = 0
        /\ match' = Unset(Fine) /\ coarse_id' = Unset(Fine)
        /\ levels' = levels /\ level' = level /\ c' = c /\ Len(levels) = level + 1
    BY <1>1, <1>9 DEF LevelBegin, ShapeInv
  <2>2. ShapeInv'
    BY <1>5, <1>7, <2>1, UnsetType DEF ShapeInv
  <2>3. LoopInv'
    BY <1>4, <1>7, <2>1 DEF LoopInv
  <2> QED
    BY <2>2, <2>3
<1>10. CASE LevelsUsedUp
  BY <1>1, <1>5, <1>7, <1>10 DEF LevelsUsedUp, ShapeInv, LoopInv
<1>11. CASE MatchNode
  <2>1. /\ pc = "match" /\ u < Fine.num_nodes /\ u' = u + 1 /\ pc' = pc /\ level' = level
        /\ levels' = levels /\ coarse_id' = coarse_id /\ c' = c
        /\ match' = IF match[u] # None THEN match
                    ELSE [match EXCEPT ![u] = Partner, ![Partner] = u]
    BY <1>11 DEF MatchNode
  <2>2. u \in Nodes(Fine) /\ u + 1 <= Fine.num_nodes /\ u + 1 \in Nat
    BY <1>4, <1>5, <2>1
  <2>3. PartnerChoice
    BY <1>3, <1>5, <2>2, PartnerType
  <2>4. match' \in [Nodes(Fine) -> Nodes(Fine) \cup {None}]
    BY <1>5, <2>1, <2>2, <2>3 DEF PartnerChoice
  <2>5. ShapeInv'
    BY <1>1, <1>5, <1>7, <2>1, <2>2, <2>4 DEF ShapeInv
  <2>6. LoopInv'
    BY <1>7, <2>1, <2>2 DEF LoopInv
  <2> QED
    BY <2>5, <2>6
<1>12. CASE MatchEnd
  BY <1>1, <1>4, <1>5, <1>7, <1>12 DEF MatchEnd, ShapeInv, LoopInv
<1>13. CASE NumberNode
  <2>1. /\ pc = "number" /\ u < Fine.num_nodes /\ u' = u + 1 /\ pc' = pc /\ level' = level
        /\ levels' = levels /\ match' = match
        /\ IF u <= match[u]
             THEN coarse_id' = [coarse_id EXCEPT ![u] = c, ![match[u]] = c] /\ c' = c + 1
             ELSE coarse_id' = coarse_id /\ c' = c
    BY <1>13 DEF NumberNode
  <2>2. u \in Nodes(Fine) /\ u + 1 <= Fine.num_nodes /\ u + 1 \in Nat /\ c' \in Nat
    BY <1>4, <1>5, <2>1
  <2>3. coarse_id' \in [Nodes(Fine) -> Int]
    BY <1>5, <2>1
  <2>4. ShapeInv'
    BY <1>1, <1>5, <1>7, <2>1, <2>2, <2>3 DEF ShapeInv
  <2>5. LoopInv'
    BY <1>7, <2>1, <2>2 DEF LoopInv
  <2> QED
    BY <2>4, <2>5
<1>14. CASE NumberEnd
  <2>1. /\ pc = "number" /\ u = Fine.num_nodes /\ pc' = "rows" /\ u' = 0
        /\ levels' = Append(levels, Empty(c)) /\ level' = level /\ match' = match
        /\ coarse_id' = coarse_id /\ c' = c /\ Len(levels) = level + 1
        /\ level < MAX_LEVELS - 1
    BY <1>1, <1>14 DEF NumberEnd, ShapeInv
  <2>2. c \in 1 .. NNodes
    BY <1>1, <1>2, <1>4, <1>5, <2>1 DEF NumberInv
  <2>3. PICK g : g = Empty(c)
    OBVIOUS
  <2>4. Graph(g) /\ FilledTo(g, 0) /\ g.num_nodes = c /\ g \in GraphSet
    BY <2>2, <2>3, EmptyGraph, GraphType
  <2>5. /\ levels' \in Seq(GraphSet) /\ Len(levels') = Len(levels) + 1
        /\ \A k \in 1 .. Len(levels) : levels'[k] = levels[k]
        /\ levels'[Len(levels) + 1] = g
    BY <1>5, <2>1, <2>3, <2>4, AppendProperties
  <2>6. DOMAIN levels' = (1 .. Len(levels)) \cup {Len(levels) + 1}
    <3>1. DOMAIN levels' = 1 .. Len(levels) + 1
      BY <2>5, LenProperties
    <3> QED
      BY <1>3, <3>1
  <2>7. \A k \in DOMAIN levels' : Graph(levels'[k])
    BY <1>3, <1>5, <2>4, <2>5, <2>6
  <2>8. Fine' = Fine /\ Nodes(Fine)' = Nodes(Fine) /\ levels'[level + 2] = g
        /\ Len(levels') = level + 2
    <3>1. Len(levels) + 1 = level + 2
      BY <1>3, <2>1
    <3>2. Fine' = Fine
      BY <1>3, <2>1, <2>5 DEF Fine
    <3> QED
      BY <2>5, <3>1, <3>2 DEF Nodes
  <2>9. ShapeInv'
    BY <1>5, <2>1, <2>5, <2>7, <2>8 DEF ShapeInv
  <2>10. LoopInv'
    BY <2>1, <2>4, <2>8 DEF LoopInv
  <2> QED
    BY <2>9, <2>10
<1>15. CASE CoarseRow
  <2>1. /\ pc = "rows" /\ u < c /\ u' = u + 1 /\ pc' = pc /\ level' = level /\ match' = match
        /\ coarse_id' = coarse_id /\ c' = c /\ Len(levels) = level + 2
    BY <1>1, <1>15 DEF CoarseRow, ShapeInv
  <2>2. PICK h : RowStep(h)
    BY <1>1, <1>3, <1>15, RowFilled
  <2>3. /\ Graph(h) /\ FilledTo(h, u + 1) /\ h.num_nodes = c /\ h \in GraphSet
        /\ levels' = [levels EXCEPT ![level + 2] = h]
    BY <2>2, GraphType DEF RowStep
  <2>4. /\ levels' \in Seq(GraphSet) /\ Len(levels') = Len(levels) /\ DOMAIN levels' = DOMAIN levels
    BY <1>3, <1>5, <2>1, <2>3
  <2>5. \A k \in DOMAIN levels' : levels'[k] = IF k = level + 2 THEN h ELSE levels[k]
    BY <1>3, <1>5, <2>1, <2>3, <2>4
  <2>6. \A k \in DOMAIN levels' : Graph(levels'[k])
    BY <1>5, <2>3, <2>4, <2>5
  <2>7. Fine' = Fine /\ Nodes(Fine)' = Nodes(Fine) /\ levels'[level + 2] = h
    <3>1. level + 1 # level + 2 /\ level + 2 \in 1 .. level + 2
      BY <1>3
    <3>2. Fine' = Fine
      BY <1>3, <2>1, <2>4, <2>5, <3>1 DEF Fine
    <3> QED
      BY <1>3, <2>1, <2>4, <2>5, <3>1, <3>2 DEF Nodes
  <2>8. u' \in Nat
    BY <1>5, <2>1
  <2>9. ShapeInv'
    BY <1>1, <1>5, <2>1, <2>4, <2>6, <2>7, <2>8 DEF ShapeInv
  <2>10. LoopInv'
    BY <2>1, <2>3, <2>7 DEF LoopInv
  <2> QED
    BY <2>9, <2>10
<1>16. CASE LevelEnd
  <2>1. /\ pc = "rows" /\ u = c /\ levels' = levels /\ u' = u /\ c' = c
        /\ Len(levels) = level + 2 /\ level < MAX_LEVELS - 1
    BY <1>1, <1>16 DEF LevelEnd, ShapeInv
  <2>2. CASE Stops
    <3>1. pc' = "done" /\ level' = level /\ match' = match /\ coarse_id' = coarse_id
      BY <1>16, <2>2 DEF LevelEnd
    <3> QED
      BY <1>1, <1>5, <1>7, <2>1, <3>1 DEF ShapeInv, LoopInv
  <2>3. CASE ~ Stops
    <3>1. /\ pc' = "level" /\ level' = level + 1
          /\ match' = Unset(levels[level + 2]) /\ coarse_id' = Unset(levels[level + 2])
      BY <1>16, <2>3 DEF LevelEnd
    <3>2. Fine' = levels[level + 2] /\ (level + 1) + 1 = level + 2
      BY <1>3, <2>1, <3>1 DEF Fine
    <3>3. /\ level + 1 \in 0 .. MAX_LEVELS - 1 /\ Len(levels) = (level + 1) + 1
      BY <1>2, <1>3, <2>1
    <3>4. /\ Unset(Fine)' = Unset(levels[level + 2])
          /\ Nodes(Fine)' = Nodes(levels[level + 2])
      BY <3>2 DEF Unset, Nodes
    <3>5. \A k \in DOMAIN levels' : Graph(levels'[k])
      BY <1>5, <2>1
    <3>6. ShapeInv'
      <4>1. /\ match' \in [Nodes(Fine)' -> Nodes(Fine)' \cup {None}]
            /\ coarse_id' \in [Nodes(Fine)' -> Int]
        BY <3>1, <3>4, UnsetType
      <4> QED
        BY <1>5, <2>1, <3>1, <3>3, <3>5, <4>1 DEF ShapeInv
    <3>7. LoopInv'
      BY <3>1, <3>4 DEF LoopInv
    <3> QED
      BY <3>6, <3>7
  <2> QED
    BY <2>2, <2>3
<1>17. CASE UNCHANGED coarsenVars
  BY <1>1, <1>5, <1>7, <1>17 DEF coarsenVars, ShapeInv, LoopInv
<1>18. CASE CoarsenStopped
  BY <1>17, <1>18 DEF CoarsenStopped
<1> QED
  BY <1>6, <1>8, <1>9, <1>10, <1>11, <1>12, <1>13, <1>14, <1>15, <1>16, <1>17, <1>18
     DEF CoarsenNext

\* Appending to a sequence keeps what is in it.
LEMMA KeepsElement ==
  ASSUME NEW S, NEW s \in Seq(S), NEW g, NEW k \in 1 .. Len(s)
  PROVE  Append(s, g)[k] = s[k]
<1>1. s \in Seq(S \cup {g}) /\ g \in S \cup {g}
  OBVIOUS
<1> QED
  BY <1>1, AppendProperties

\* Filling a row does not touch the finer graph.
LEMMA RowKeepsFine ==
  ASSUME ShapeInv, CoarseRow
  PROVE  Fine' = Fine
<1>1. /\ level \in Nat /\ level' = level /\ levels \in Seq(GraphSet)
      /\ \E h : levels' = [levels EXCEPT ![level + 2] = h]
      /\ level + 1 \in DOMAIN levels
  BY LevelGraphs DEF CoarseRow, ShapeInv
<1>2. level + 1 # level + 2
  BY <1>1
<1>3. levels'[level + 1] = levels[level + 1]
  BY <1>1, <1>2
<1> QED
  BY <1>1, <1>3 DEF Fine
-----------------------------------------------------------------------------
(***************************************************************************)
(* The matching.  When the scan finds a free neighbour of u, both were     *)
(* None and no pair is broken; when it finds none, every neighbour has a   *)
(* partner already, and those that are their own come before u because     *)
(* only nodes passed are.  A graph has no loops, or u would be its own     *)
(* free neighbour.                                                         *)
(***************************************************************************)
\* One step of the scan.
LEMMA MatchScan ==
  ASSUME ShapeInv, MatchInv, MatchNode
  PROVE  Pairs' /\ Alone' /\ \A x \in Nodes(Fine) : /\ x < u' => match'[x] # None
                                                    /\ match'[x] = x => x < u'
<1>1. /\ pc = "match" /\ u < Fine.num_nodes /\ u' = u + 1 /\ Fine' = Fine
      /\ match' = IF match[u] # None THEN match
                  ELSE [match EXCEPT ![u] = Partner, ![Partner] = u]
  BY DEF MatchNode, Fine
<1>2. /\ Graph(Fine) /\ u \in Nat /\ match \in [Nodes(Fine) -> Nodes(Fine) \cup {None}]
      /\ Nodes(Fine)' = Nodes(Fine)
  BY <1>1, LevelGraphs DEF ShapeInv, Nodes
<1>3. Nodes(Fine) \subseteq Nat /\ u \in Nodes(Fine) /\ None \notin Nodes(Fine)
  BY <1>1, <1>2, GraphType DEF Nodes, None
<1>4. /\ Pairs /\ Alone
      /\ \A x \in Nodes(Fine) : /\ x < u => match[x] # None
                                /\ match[x] = x => x < u
  BY <1>1 DEF MatchInv
<1>5. /\ \A x \in Nodes(Fine) : Targets(Fine, x) \subseteq Nodes(Fine) \ {x}
      /\ \A x : Targets(Fine, x)' = Targets(Fine, x)
  BY <1>1, <1>2, RowTargets DEF Targets, Row
<1>6. PartnerChoice
  BY <1>2, <1>3, PartnerType
<1>7. CASE match[u] # None
  <2>1. match' = match
    BY <1>1, <1>7
  <2>2. Pairs' /\ Alone'
    BY <1>1, <1>2, <1>4, <1>5, <2>1 DEF Pairs, Alone
  <2>3. \A x \in Nodes(Fine) : (x < u' => x < u \/ x = u) /\ (x < u => x < u')
    BY <1>1, <1>2, <1>3
  <2> QED
    BY <1>4, <1>7, <2>1, <2>2, <2>3
<1>8. CASE match[u] = None
  <2>1. PICK p : p = Partner
    OBVIOUS
  <2>2. /\ p \in Nodes(Fine) /\ match' = [match EXCEPT ![u] = p, ![p] = u]
        /\ p # u => p \in Targets(Fine, u) /\ match[p] = None
        /\ p = u => \A y \in Targets(Fine, u) : match[y] # None
    BY <1>1, <1>6, <1>8, <2>1 DEF PartnerChoice
  <2>3. \A x \in Nodes(Fine) : match'[x] = IF x = u THEN p ELSE IF x = p THEN u ELSE match[x]
    BY <1>2, <1>3, <2>2
  <2>4. match[p] = None
    BY <1>8, <2>2
  <2>5. \A x \in Nodes(Fine) : match[x] # None => match[x] # u /\ match[x] # p /\ x # u /\ x # p
                                                  /\ match[x] \in Nodes(Fine)
    <3> TAKE x \in Nodes(Fine)
    <3> HAVE match[x] # None
    <3>1. match[x] \in Nodes(Fine) /\ match[match[x]] = x /\ x # None
      BY <1>2, <1>3, <1>4 DEF Pairs
    <3> QED
      BY <1>8, <2>4, <3>1
  <2>6. Pairs'
    <3> SUFFICES ASSUME NEW x \in Nodes(Fine), match'[x] # None
                 PROVE  /\ match'[match'[x]] = x
                        /\ match'[x] # x => \/ match'[x] \in Targets(Fine, x)
                                            \/ x \in Targets(Fine, match'[x])
      BY <1>1, <1>2, <1>5 DEF Pairs
    <3>1. CASE x = u
      <4>1. match'[x] = p /\ match'[p] = u
        BY <1>3, <2>2, <2>3, <3>1
      <4> QED
        BY <2>2, <3>1, <4>1
    <3>2. CASE x # u /\ x = p
      <4>1. match'[x] = u /\ match'[u] = p
        BY <1>3, <2>2, <2>3, <3>2
      <4> QED
        BY <2>2, <3>2, <4>1
    <3>3. CASE x # u /\ x # p
      <4>1. match'[x] = match[x] /\ match[x] # None
        BY <2>3, <3>3
      <4>2. match'[match[x]] = match[match[x]]
        BY <2>3, <2>5, <4>1
      <4> QED
        BY <1>4, <4>1, <4>2 DEF Pairs
    <3> QED
      BY <3>1, <3>2, <3>3
  <2>7. ASSUME NEW x \in Nodes(Fine), match'[x] = x
        PROVE  (x = u /\ p = u) \/ (x # u /\ x # p /\ match[x] = x /\ x < u)
    BY <1>3, <1>4, <2>2, <2>3, <2>7
  <2>8. Alone'
    <3> SUFFICES ASSUME NEW x \in Nodes(Fine), match'[x] = x, NEW y \in Targets(Fine, x)
                 PROVE  match'[y] # None /\ (match'[y] = y => y < x)
      BY <1>1, <1>2, <1>5 DEF Alone
    <3>1. y \in Nodes(Fine) /\ y # x
      BY <1>5
    <3>2. match[y] # None
      BY <1>4, <2>2, <2>7 DEF Alone
    <3>3. match'[y] = match[y]
      BY <2>3, <2>5, <3>1, <3>2
    <3>4. ASSUME match[y] = y PROVE y < x
      BY <1>4, <2>7, <3>1, <3>4 DEF Alone
    <3> QED
      BY <3>2, <3>3, <3>4
  <2>9. ASSUME NEW x \in Nodes(Fine)
        PROVE  (x < u' => match'[x] # None) /\ (match'[x] = x => x < u')
    <3>1. (x < u' => x < u \/ x = u) /\ (x < u => x < u') /\ u < u'
      BY <1>1, <1>2, <1>3
    <3>2. x < u' => match'[x] # None
      BY <1>3, <1>4, <2>2, <2>3, <3>1
    <3>3. match'[x] = x => x < u'
      BY <2>7, <3>1
    <3> QED
      BY <3>2, <3>3
  <2> QED
    BY <2>6, <2>8, <2>9
<1> QED
  BY <1>7, <1>8

\* In every step.
LEMMA MatchNext == CoarsenInv /\ [CoarsenNext]_coarsenVars => MatchInv'
<1> SUFFICES ASSUME CoarsenInv, [CoarsenNext]_coarsenVars PROVE MatchInv'
  OBVIOUS
<1>1. ShapeInv /\ LoopInv /\ MatchInv /\ ShapeInv' /\ LoopInv'
  BY ShapeNext DEF CoarsenInv
<1>2. Graph(Fine) /\ u \in Nat /\ Nodes(Fine) = 0 .. Fine.num_nodes - 1 /\ Fine.num_nodes \in Nat
  BY <1>1, LevelGraphs, GraphType DEF ShapeInv, Nodes
<1>3. Pairs /\ Alone
  BY <1>1 DEF MatchInv
<1>4. ASSUME levels' = levels, level' = level, match' = match
      PROVE  Pairs' /\ Alone' /\ Nodes(Fine)' = Nodes(Fine)
  <2>1. Fine' = Fine /\ Nodes(Fine)' = Nodes(Fine)
    BY <1>4, SameGraphs
  <2>2. \A x : Targets(Fine, x)' = Targets(Fine, x)
    BY <2>1 DEF Targets, Row
  <2> QED
    BY <1>3, <1>4, <2>1, <2>2 DEF Pairs, Alone
<1>5. ASSUME match' = Unset(Fine)'
      PROVE  Pairs' /\ Alone' /\ \A x \in Nodes(Fine)' : match'[x] = None /\ match'[x] # x
  <2>1. \A x \in Nodes(Fine)' : match'[x] = None
    BY <1>5 DEF Unset
  <2>2. \A x \in Nodes(Fine)' : x # None
    BY DEF Nodes, None
  <2> QED
    BY <2>1, <2>2 DEF Pairs, Alone
<1>6. CASE pc' \in {"generate", "level"}
  <2>1. match' = Unset(Fine)'
    BY <1>1, <1>6 DEF LoopInv
  <2>2. pc' \notin {"match", "number", "rows"}
    BY <1>6
  <2> QED
    BY <1>5, <2>1, <2>2 DEF MatchInv
<1>7. CASE LevelBegin
  <2>1. pc' = "match" /\ u' = 0 /\ match' = Unset(Fine) /\ levels' = levels /\ level' = level
    BY <1>7 DEF LevelBegin
  <2>2. match' = Unset(Fine)' /\ Nodes(Fine)' = Nodes(Fine)
    BY <2>1, SameGraphs
  <2>3. \A x \in Nodes(Fine)' : ~ x < 0
    BY <1>2, <2>2
  <2> QED
    BY <1>5, <2>1, <2>2, <2>3 DEF MatchInv
<1>8. CASE MatchNode
  <2>1. pc' = "match" /\ Nodes(Fine)' = Nodes(Fine)
    BY <1>8, SameGraphs DEF MatchNode
  <2> QED
    BY <1>1, <1>8, <2>1, MatchScan DEF MatchInv
<1>9. CASE MatchEnd
  <2>1. /\ pc = "match" /\ u = Fine.num_nodes /\ pc' = "number"
        /\ levels' = levels /\ level' = level /\ match' = match
    BY <1>9 DEF MatchEnd
  <2>2. \A x \in Nodes(Fine) : match[x] # None
    <3>1. \A x \in Nodes(Fine) : x < u
      BY <1>2, <2>1
    <3> QED
      BY <1>1, <2>1, <3>1 DEF MatchInv
  <2> QED
    BY <1>4, <2>1, <2>2 DEF MatchInv
<1>10. CASE NumberNode
  BY <1>1, <1>4, <1>10 DEF NumberNode, MatchInv
<1>11. CASE NumberEnd
  <2>1. /\ pc = "number" /\ pc' = "rows" /\ level' = level /\ match' = match
        /\ levels' = Append(levels, Empty(c)) /\ Len(levels) = level + 1
    BY <1>1, <1>11 DEF NumberEnd, ShapeInv
  <2>2. level + 1 \in 1 .. Len(levels) /\ levels \in Seq(GraphSet)
    BY <1>1, LevelGraphs DEF ShapeInv
  <2>3. Fine' = Fine
    <3>1. levels'[level + 1] = levels[level + 1]
      BY <2>1, <2>2, KeepsElement
    <3> QED
      BY <2>1, <3>1 DEF Fine
  <2>4. Nodes(Fine)' = Nodes(Fine) /\ \A x : Targets(Fine, x)' = Targets(Fine, x)
    BY <2>3 DEF Nodes, Targets, Row
  <2>5. Pairs' /\ Alone'
    BY <1>3, <2>1, <2>3, <2>4 DEF Pairs, Alone
  <2> QED
    BY <1>1, <2>1, <2>4, <2>5 DEF MatchInv
<1>12. CASE CoarseRow
  <2>1. /\ pc = "rows" /\ pc' = "rows" /\ level' = level /\ match' = match
    BY <1>12 DEF CoarseRow
  <2>2. Fine' = Fine
    BY <1>1, <1>12, RowKeepsFine
  <2>3. Nodes(Fine)' = Nodes(Fine) /\ \A x : Targets(Fine, x)' = Targets(Fine, x)
    BY <2>2 DEF Nodes, Targets, Row
  <2>4. Pairs' /\ Alone'
    BY <1>3, <2>1, <2>2, <2>3 DEF Pairs, Alone
  <2> QED
    BY <1>1, <2>1, <2>3, <2>4 DEF MatchInv
<1>13. CASE LevelEnd /\ ~ pc' \in {"generate", "level"}
  <2>1. levels' = levels /\ level' = level /\ match' = match /\ pc' = "done"
    BY <1>13 DEF LevelEnd
  <2> QED
    BY <1>4, <2>1 DEF MatchInv
<1>14. CASE LevelsUsedUp
  BY <1>4, <1>14 DEF LevelsUsedUp, MatchInv
<1>15. CASE UNCHANGED coarsenVars
  BY <1>1, <1>4, <1>15 DEF coarsenVars, MatchInv
<1>16. GenerateRow => pc' \in {"generate", "level"}
  BY DEF GenerateRow
<1>17. GenerateEnd => pc' \in {"generate", "level"}
  BY DEF GenerateEnd
<1> QED
  BY <1>6, <1>7, <1>8, <1>9, <1>10, <1>11, <1>12, <1>13, <1>14, <1>15, <1>16, <1>17
     DEF CoarsenNext, CoarsenStopped
-----------------------------------------------------------------------------
(***************************************************************************)
(* The numbering.  A pair gets its number at its smaller node, because the *)
(* matching is an involution, and no node passed is without one.           *)
(***************************************************************************)
\* One step of the scan.
LEMMA NumberScan ==
  ASSUME ShapeInv, MatchInv, NumberInv, NumberNode
  PROVE  NumberedBy(Numbered)' /\ c' <= u' /\ c' > 0
<1>1. /\ pc = "number" /\ u < Fine.num_nodes /\ u' = u + 1 /\ Fine' = Fine /\ match' = match
      /\ IF u <= match[u]
           THEN coarse_id' = [coarse_id EXCEPT ![u] = c, ![match[u]] = c] /\ c' = c + 1
           ELSE coarse_id' = coarse_id /\ c' = c
  BY DEF NumberNode, Fine
<1>2. /\ Graph(Fine) /\ u \in Nat /\ match \in [Nodes(Fine) -> Nodes(Fine) \cup {None}]
      /\ Nodes(Fine)' = Nodes(Fine) /\ c \in Nat /\ coarse_id \in [Nodes(Fine) -> Int]
  BY <1>1, LevelGraphs DEF ShapeInv, Nodes
<1>3. Nodes(Fine) \subseteq Nat /\ u \in Nodes(Fine)
  BY <1>1, <1>2, GraphType DEF Nodes
<1>4. \A x \in Nodes(Fine) : match[x] \in Nodes(Fine) /\ match[match[x]] = x
  BY <1>1, <1>2 DEF MatchInv, Pairs
<1>5. PICK S : S = Numbered
  OBVIOUS
<1>6. /\ {coarse_id[x] : x \in S} = 0 .. c - 1 /\ c <= u /\ (u > 0 => c > 0)
      /\ \A x, y \in S : coarse_id[x] = coarse_id[y] <=> y \in {x, match[x]}
  BY <1>1, <1>5 DEF NumberInv, NumberedBy
<1>7. \A x \in Nodes(Fine) : x \in S <=> x < u \/ match[x] < u
  BY <1>5 DEF Numbered
<1>8. S \subseteq Nodes(Fine)
  BY <1>5 DEF Numbered
<1>9. PICK p : p = match[u]
  OBVIOUS
<1>10. p \in Nodes(Fine) /\ match[p] = u /\ p \in Nat
  BY <1>3, <1>4, <1>9
<1>11. Numbered' = S \cup {u, p}
  <2>1. Numbered' = {x \in Nodes(Fine) : x < u + 1 \/ match[x] < u + 1}
    BY <1>1, <1>2 DEF Numbered
  <2>2. ASSUME NEW x \in Nodes(Fine)
        PROVE  x < u + 1 \/ match[x] < u + 1 <=> x \in S \cup {u, p}
    <3>1. x \in Nat /\ match[x] \in Nat
      BY <1>3, <1>4
    <3>2. (x < u + 1 <=> x < u \/ x = u) /\ (match[x] < u + 1 <=> match[x] < u \/ match[x] = u)
      BY <1>2, <3>1
    <3>3. match[x] = u <=> x = p
      BY <1>4, <1>9, <1>10
    <3> QED
      BY <1>7, <3>2, <3>3
  <2> QED
    BY <1>3, <1>8, <1>10, <2>1, <2>2
<1>12. CASE u <= match[u]
  <2>1. /\ \A x \in Nodes(Fine) : coarse_id'[x] = IF x \in {u, p} THEN c ELSE coarse_id[x]
        /\ c' = c + 1
    BY <1>1, <1>2, <1>3, <1>9, <1>10, <1>12
  <2>2. u \notin S /\ p \notin S
    <3>1. ~ u < u /\ ~ p < u
      BY <1>2, <1>9, <1>10, <1>12
    <3> QED
      BY <1>3, <1>7, <1>9, <1>10, <3>1
  <2>3. \A x \in S : coarse_id'[x] = coarse_id[x] /\ coarse_id[x] \in 0 .. c - 1
                     /\ coarse_id[x] # c
    <3>1. \A x \in S : coarse_id[x] \in 0 .. c - 1
      BY <1>6
    <3>2. c \notin 0 .. c - 1
      BY <1>2
    <3> QED
      BY <1>8, <2>1, <2>2, <3>1, <3>2
  <2>4. coarse_id'[u] = c /\ coarse_id'[p] = c
    BY <1>3, <1>10, <2>1
  <2>5. {coarse_id'[x] : x \in S \cup {u, p}} = 0 .. c' - 1
    <3>1. {coarse_id'[x] : x \in S \cup {u, p}} = {coarse_id[x] : x \in S} \cup {c}
      BY <2>3, <2>4
    <3>2. 0 .. c' - 1 = (0 .. c - 1) \cup {c}
      BY <1>2, <2>1
    <3> QED
      BY <1>6, <3>1, <3>2
  <2>6. \A x \in S : match[x] \notin {u, p}
    <3>1. \A x \in S : match[x] = u => x = p
      BY <1>4, <1>8, <1>9
    <3>2. \A x \in S : match[x] = p => x = u
      BY <1>4, <1>8, <1>10
    <3> QED
      BY <2>2, <3>1, <3>2
  <2>7. ASSUME NEW x \in S \cup {u, p}, NEW y \in S \cup {u, p}
        PROVE  coarse_id'[x] = coarse_id'[y] <=> y \in {x, match[x]}
    <3>1. CASE x \in S /\ y \in S
      BY <1>6, <2>3, <3>1
    <3>2. CASE x \in S /\ y \in {u, p}
      BY <2>2, <2>3, <2>4, <2>6, <3>2
    <3>3. CASE x \in {u, p} /\ y \in S
      BY <1>9, <1>10, <2>2, <2>3, <2>4, <3>3
    <3>4. CASE x \in {u, p} /\ y \in {u, p}
      BY <1>9, <1>10, <2>4, <3>4
    <3> QED
      BY <3>1, <3>2, <3>3, <3>4
  <2>8. NumberedBy(Numbered)'
    BY <1>1, <1>11, <2>5, <2>7 DEF NumberedBy
  <2>9. c' <= u' /\ c' > 0
    BY <1>1, <1>2, <1>6, <2>1
  <2> QED
    BY <2>8, <2>9
<1>13. CASE ~ u <= match[u]
  <2>1. coarse_id' = coarse_id /\ c' = c
    BY <1>1, <1>13
  <2>2. p < u
    BY <1>2, <1>9, <1>10, <1>13
  <2>3. u \in S /\ p \in S
    BY <1>3, <1>7, <1>9, <1>10, <2>2
  <2>4. Numbered' = S
    BY <1>11, <2>3
  <2>5. NumberedBy(Numbered)'
    BY <1>1, <1>6, <2>1, <2>4 DEF NumberedBy
  <2>6. c' <= u' /\ c' > 0
    BY <1>1, <1>2, <1>6, <1>10, <2>1, <2>2
  <2> QED
    BY <2>5, <2>6
<1> QED
  BY <1>12, <1>13

\* In every step.
LEMMA NumberNext == CoarsenInv /\ [CoarsenNext]_coarsenVars => NumberInv'
<1> SUFFICES ASSUME CoarsenInv, [CoarsenNext]_coarsenVars PROVE NumberInv'
  OBVIOUS
<1>1. ShapeInv /\ LoopInv /\ MatchInv /\ NumberInv
  BY DEF CoarsenInv
<1>2. /\ Graph(Fine) /\ Nodes(Fine) = 0 .. Fine.num_nodes - 1 /\ Fine.num_nodes \in Nat \ {0}
      /\ match \in [Nodes(Fine) -> Nodes(Fine) \cup {None}]
      /\ u \in Nat /\ c \in Nat /\ level + 1 \in 1 .. Len(levels) /\ levels \in Seq(GraphSet)
  BY <1>1, LevelGraphs, GraphType DEF ShapeInv, Nodes
<1>3. CASE MatchEnd
  <2>1. /\ pc = "match" /\ u = Fine.num_nodes /\ pc' = "number" /\ u' = 0 /\ c' = 0
        /\ match' = match /\ levels' = levels /\ level' = level
    BY <1>3 DEF MatchEnd
  <2>2. \A x \in Nodes(Fine) : x < u
    BY <1>2, <2>1
  <2>3. \A x \in Nodes(Fine) : match[x] \in Nodes(Fine)
    BY <1>1, <1>2, <2>1, <2>2 DEF MatchInv
  <2>4. \A x \in Nodes(Fine) : ~ x < 0
    BY <1>2
  <2>5. Numbered' = {}
    <3>1. Nodes(Fine)' = Nodes(Fine)
      BY <2>1, SameGraphs
    <3> QED
      BY <2>1, <2>3, <2>4, <3>1 DEF Numbered
  <2>6. 0 .. c' - 1 = {}
    BY <2>1
  <2>7. NumberedBy(Numbered)'
    BY <2>5, <2>6 DEF NumberedBy
  <2>8. c' <= u' /\ (u' > 0 => c' > 0)
    BY <2>1
  <2> QED
    BY <2>1, <2>7, <2>8 DEF NumberInv
<1>4. CASE NumberNode
  <2>1. pc' = "number"
    BY <1>4 DEF NumberNode
  <2> QED
    BY <1>1, <1>4, <2>1, NumberScan DEF NumberInv
<1>5. CASE NumberEnd
  <2>1. /\ pc = "number" /\ u = Fine.num_nodes /\ pc' = "rows" /\ level' = level
        /\ match' = match /\ coarse_id' = coarse_id /\ c' = c
        /\ levels' = Append(levels, Empty(c))
    BY <1>5 DEF NumberEnd
  <2>2. Numbered = Nodes(Fine)
    <3>1. \A x \in Nodes(Fine) : x < u
      BY <1>2, <2>1
    <3> QED
      BY <3>1 DEF Numbered
  <2>3. Fine' = Fine
    <3>1. levels'[level + 1] = levels[level + 1]
      BY <1>2, <2>1, KeepsElement
    <3> QED
      BY <2>1, <3>1 DEF Fine
  <2>4. Nodes(Fine)' = Nodes(Fine)
    BY <2>3 DEF Nodes
  <2>5. NumberedBy(Nodes(Fine)) /\ c > 0
    BY <1>1, <1>2, <2>1, <2>2 DEF NumberInv
  <2>6. NumberedBy(Nodes(Fine))'
    BY <2>1, <2>4, <2>5 DEF NumberedBy
  <2> QED
    BY <2>1, <2>5, <2>6 DEF NumberInv
<1>6. CASE CoarseRow
  <2>1. /\ pc = "rows" /\ pc' = "rows" /\ match' = match /\ coarse_id' = coarse_id /\ c' = c
    BY <1>6 DEF CoarseRow
  <2>2. Fine' = Fine
    BY <1>1, <1>6, RowKeepsFine
  <2>3. Nodes(Fine)' = Nodes(Fine)
    BY <2>2 DEF Nodes
  <2>4. NumberedBy(Nodes(Fine))'
    BY <1>1, <2>1, <2>3 DEF NumberInv, NumberedBy
  <2> QED
    BY <1>1, <2>1, <2>4 DEF NumberInv
<1>7. CASE UNCHANGED coarsenVars
  <2>1. /\ pc' = pc /\ match' = match /\ coarse_id' = coarse_id /\ c' = c /\ u' = u
        /\ levels' = levels /\ level' = level
    BY <1>7 DEF coarsenVars
  <2>2. Nodes(Fine)' = Nodes(Fine)
    BY <2>1, SameGraphs
  <2>3. Numbered' = Numbered
    BY <2>1, <2>2 DEF Numbered
  <2> QED
    BY <1>1, <2>1, <2>2, <2>3 DEF NumberInv, NumberedBy
<1>8. CASE pc' \notin {"number", "rows"}
  BY <1>8 DEF NumberInv
<1>9. GenerateRow \/ GenerateEnd \/ LevelBegin \/ LevelsUsedUp \/ MatchNode \/ LevelEnd
      => pc' \notin {"number", "rows"}
  BY DEF GenerateRow, GenerateEnd, LevelBegin, LevelsUsedUp, MatchNode, LevelEnd
<1> QED
  BY <1>3, <1>4, <1>5, <1>6, <1>7, <1>8, <1>9 DEF CoarsenNext, CoarsenStopped
-----------------------------------------------------------------------------
(***************************************************************************)
(* The quotient.                                                           *)
(***************************************************************************)
\* A set of numbers and the same set moved by a distance have one size.
LEMMA MovedSet ==
  ASSUME NEW A, A \subseteq Nat, IsFiniteSet(A), NEW d \in Nat
  PROVE  Cardinality({d + k : k \in A}) = Cardinality(A)
<1> DEFINE f == [k \in A |-> d + k]
           B == {d + k : k \in A}
<1>1. f \in [A -> B]
  OBVIOUS
<1>2. \A b \in B : \E k \in A : f[k] = b
  OBVIOUS
<1>3. \A k, m \in A : f[k] = f[m] => k = m
  <2>1. \A k, m \in Nat : d + k = d + m => k = m
    OBVIOUS
  <2> QED
    BY <2>1
<1>4. f \in Bijection(A, B)
  <2> HIDE DEF f, B
  <2> QED
    BY <1>1, <1>2, <1>3, Fun_IsBij
<1>5. ExistsBijection(A, B)
  BY <1>4 DEF ExistsBijection
<1> HIDE DEF B
<1>6. Cardinality(B) = Cardinality(A)
  BY <1>5, FS_Bijection
<1> QED
  BY <1>6 DEF B

\* The edges from a node to a node.
RowTo(g, x, j) == {e \in {e \in DOMAIN g.col_idx : InRow(g, e, x)} : g.col_idx[e] = j}

\* A row that is added has the edges it was added for, and the others keep theirs.
RowCounted(g, x, row, h, j) ==
  /\ EdgesBetween(h, {x}, {j}) = Count(row, j)
  /\ \A y \in 0 .. x - 1 : EdgesBetween(h, {y}, {j}) = EdgesBetween(g, {y}, {j})

\* What AddRow does.
LEMMA RowCount ==
  ASSUME NEW g, Graph(g), NEW x \in Nodes(g), FilledTo(g, x),
         NEW row \in Seq(Nodes(g) \ {x}), Len(g.col_idx) + Len(row) <= MAX_EDGES,
         NEW h, h = AddRow(g, x, row), NEW j
  PROVE  RowCounted(g, x, row, h, j)
<1>1. /\ \A y \in 0 .. x - 1 : {e \in DOMAIN h.col_idx : InRow(h, e, y)}
                                    = {e \in DOMAIN g.col_idx : InRow(g, e, y)}
      /\ {e \in DOMAIN h.col_idx : InRow(h, e, x)}
              = Len(g.col_idx) + 1 .. Len(g.col_idx) + Len(row)
      /\ \A e \in DOMAIN g.col_idx : h.col_idx[e] = g.col_idx[e]
      /\ \A k \in 1 .. Len(row) : h.col_idx[Len(g.col_idx) + k] = row[k]
  BY RowAdded
<1>2. PICK d : d = Len(g.col_idx)
  OBVIOUS
<1>3. d \in Nat /\ Len(row) \in Nat
  BY <1>2, GraphType, LenProperties
<1>4. \A f, y : EdgesBetween(f, {y}, {j}) = Cardinality(RowTo(f, y, j))
  <2> TAKE f, y
  <2>1. {e \in DOMAIN f.col_idx : f.col_idx[e] \in {j} /\ \E z \in {y} : InRow(f, e, z)}
        = RowTo(f, y, j)
    BY DEF RowTo
  <2> QED
    BY <2>1 DEF EdgesBetween
<1>5. ASSUME NEW y \in 0 .. x - 1
      PROVE  EdgesBetween(h, {y}, {j}) = EdgesBetween(g, {y}, {j})
  <2>1. RowTo(h, y, j) = RowTo(g, y, j)
    BY <1>1 DEF RowTo
  <2> QED
    BY <1>4, <2>1
<1> DEFINE A == {k \in 1 .. Len(row) : row[k] = j}
<1>6. RowTo(h, x, j) = {d + k : k \in A}
  <2>1. \A e \in d + 1 .. d + Len(row) : e - d \in 1 .. Len(row) /\ e = d + (e - d)
    BY <1>3
  <2>2. \A k \in 1 .. Len(row) : d + k \in d + 1 .. d + Len(row)
    BY <1>3
  <2>3. \A k \in 1 .. Len(row) : h.col_idx[d + k] = row[k]
    BY <1>1, <1>2
  <2>4. {e \in DOMAIN h.col_idx : InRow(h, e, x)} = d + 1 .. d + Len(row)
    BY <1>1, <1>2
  <2>5. {e \in d + 1 .. d + Len(row) : h.col_idx[e] = j} \subseteq {d + k : k \in A}
    BY <2>1, <2>3
  <2>6. {d + k : k \in A} \subseteq {e \in d + 1 .. d + Len(row) : h.col_idx[e] = j}
    BY <2>2, <2>3
  <2> QED
    BY <2>4, <2>5, <2>6 DEF RowTo
<1>7. A \subseteq Nat /\ IsFiniteSet(A)
  <2>1. IsFiniteSet(1 .. Len(row))
    BY <1>3, FS_Interval
  <2>2. A \in SUBSET (1 .. Len(row)) /\ A \subseteq Nat
    OBVIOUS
  <2> HIDE DEF A
  <2> QED
    BY <2>1, <2>2, FS_Subset
<1>8. Cardinality({d + k : k \in A}) = Cardinality(A)
  <2> HIDE DEF A
  <2> QED
    BY <1>3, <1>7, MovedSet
<1>9. EdgesBetween(h, {x}, {j}) = Cardinality(A)
  <2> HIDE DEF A
  <2> QED
    BY <1>4, <1>6, <1>8
<1> QED
  BY <1>5, <1>9 DEF Count, RowCounted

\* The edges that leave a coarse node, by where they go.
LEMMA LeavingCount ==
  ASSUME Graph(Fine), NEW i, NEW j
  PROVE  Cardinality(LeavingTo(i, j))
           = IF i = j THEN 0 ELSE EdgesBetween(Fine, Members(i), Members(j))
<1> DEFINE A == LeavingTo(i, j)
<1> USE DEF LeavingTo
<1>1. CASE i = j
  <2>1. A = {}
    BY <1>1 DEF Leaves
  <2> QED
    BY <1>1, <2>1, FS_EmptySet
<1>2. CASE i # j
  <2>1. DOMAIN Fine.col_idx = Edges /\ \A e \in Edges : Fine.col_idx[e] \in Nodes(Fine)
    BY GraphType, ElementOfSeq DEF Edges
  <2>2. A = {e \in DOMAIN Fine.col_idx :
               Fine.col_idx[e] \in Members(j) /\ \E x \in Members(i) : InRow(Fine, e, x)}
    BY <1>2, <2>1 DEF Leaves, Members
  <2> QED
    BY <1>2, <2>2 DEF EdgesBetween
<1> QED
  BY <1>1, <1>2

\* In every step.
LEMMA RowsNext == CoarsenInv /\ [CoarsenNext]_coarsenVars => RowsInv'
<1> SUFFICES ASSUME CoarsenInv, [CoarsenNext]_coarsenVars PROVE RowsInv'
  OBVIOUS
<1>1. ShapeInv /\ LoopInv /\ NumberInv /\ RowsInv
  BY DEF CoarsenInv
<1>2. /\ Graph(Fine) /\ level \in Nat /\ level + 1 \in 1 .. Len(levels)
      /\ levels \in Seq(GraphSet) /\ u \in Nat /\ c \in Nat /\ Len(levels) \in Nat
  BY <1>1, LevelGraphs DEF ShapeInv
<1>3. ASSUME Fine' = Fine, coarse_id' = coarse_id
      PROVE  /\ \A n : LeavingBefore(n)' = LeavingBefore(n)
             /\ \A i : Members(i)' = Members(i)
  <2>1. /\ Edges' = Edges /\ Nodes(Fine)' = Nodes(Fine)
        /\ \A e, i : Leaves(e, i)' <=> Leaves(e, i)
    BY <1>3 DEF Edges, Nodes, Leaves
  <2> QED
    BY <1>3, <2>1 DEF LeavingBefore, Members
<1>4. CASE NumberEnd
  <2>1. /\ pc = "number" /\ pc' = "rows" /\ u' = 0 /\ level' = level
        /\ levels' = Append(levels, Empty(c)) /\ Len(levels) = level + 1
    BY <1>1, <1>4 DEF NumberEnd, ShapeInv
  <2>2. levels'[level + 2] = Empty(c)
    <3>1. levels \in Seq(GraphSet \cup {Empty(c)}) /\ Empty(c) \in GraphSet \cup {Empty(c)}
      BY <1>2
    <3>2. levels'[Len(levels) + 1] = Empty(c)
      BY <2>1, <3>1, AppendProperties
    <3> QED
      BY <1>2, <2>1, <3>2
  <2>3. Len(Empty(c).col_idx) = 0
    BY DEF Empty
  <2>4. LeavingBefore(u)' = {} /\ 0 .. u' - 1 = {}
    BY <2>1 DEF LeavingBefore
  <2> QED
    BY <2>1, <2>2, <2>3, <2>4, FS_EmptySet DEF RowsInv
<1>5. CASE CoarseRow
  <2>1. /\ pc = "rows" /\ u < c /\ u' = u + 1 /\ pc' = pc /\ level' = level
        /\ coarse_id' = coarse_id /\ c' = c /\ Len(levels) = level + 2
        /\ coarse_id \in [Nodes(Fine) -> Int]
    BY <1>1, <1>5 DEF CoarseRow, ShapeInv
  <2>2. PICK h : RowStep(h)
    BY <1>1, <1>5, RowFilled
  <2>3. PICK g : g = levels[level + 2]
    OBVIOUS
  <2>4. PICK row : row = Leaving(u)
    OBVIOUS
  <2>5. /\ h = AddRow(g, u, row) /\ levels' = [levels EXCEPT ![level + 2] = h]
        /\ u \in Nodes(g) /\ row \in Seq(Nodes(g) \ {u})
        /\ Len(g.col_idx) + Len(row) = Cardinality(LeavingBefore(u + 1))
        /\ Len(g.col_idx) + Len(row) <= MAX_EDGES
    BY <2>2, <2>3, <2>4 DEF RowStep
  <2>6. Graph(g) /\ FilledTo(g, u) /\ level + 2 \in DOMAIN levels
    BY <1>1, <2>1, <2>3, LevelGraphs DEF LoopInv
  <2>7. levels'[level + 2] = h /\ Fine' = Fine
    BY <1>1, <1>2, <1>5, <2>5, <2>6, RowKeepsFine
  <2>8. Len(h.col_idx) = Cardinality(LeavingBefore(u + 1))
    <3>1. Len(h.col_idx) = Len(g.col_idx) + Len(row)
      BY <2>5, <2>6, RowAdded
    <3> QED
      BY <2>5, <3>1
  <2>a. ASSUME NEW j
        PROVE  /\ EdgesBetween(h, {u}, {j}) = Count(row, j)
               /\ \A y \in 0 .. u - 1 : EdgesBetween(h, {y}, {j}) = EdgesBetween(g, {y}, {j})
    <3>1. /\ Graph(g) /\ u \in Nodes(g) /\ FilledTo(g, u) /\ row \in Seq(Nodes(g) \ {u})
          /\ Len(g.col_idx) + Len(row) <= MAX_EDGES /\ h = AddRow(g, u, row)
      BY <2>5, <2>6
    <3>2. RowCounted(g, u, row, h, j)
      BY <3>1, RowCount
    <3> QED
      BY <3>2 DEF RowCounted
  <2>9. ASSUME NEW j
        PROVE  EdgesBetween(h, {u}, {j})
                 = IF u = j THEN 0 ELSE EdgesBetween(Fine, Members(u), Members(j))
    <3>1. EdgesBetween(h, {u}, {j}) = Count(row, j)
      BY <2>a
    <3>2. Count(row, j) = Cardinality(LeavingTo(u, j))
      <4>1. Graph(Fine) /\ coarse_id \in [Nodes(Fine) -> Int]
        BY <1>2, <2>1
      <4> QED
        BY <2>4, <4>1, LeavingRow
    <3>3. Cardinality(LeavingTo(u, j))
            = IF u = j THEN 0 ELSE EdgesBetween(Fine, Members(u), Members(j))
      BY <1>2, LeavingCount
    <3> QED
      BY <3>1, <3>2, <3>3
  <2>10. ASSUME NEW i \in 0 .. u - 1, NEW j \in 0 .. c - 1
         PROVE  EdgesBetween(h, {i}, {j})
                  = IF i = j THEN 0 ELSE EdgesBetween(Fine, Members(i), Members(j))
    <3>1. EdgesBetween(h, {i}, {j}) = EdgesBetween(g, {i}, {j})
      BY <2>a
    <3>2. EdgesBetween(g, {i}, {j})
            = IF i = j THEN 0 ELSE EdgesBetween(Fine, Members(i), Members(j))
      BY <1>1, <2>1, <2>3 DEF RowsInv
    <3> QED
      BY <3>1, <3>2
  <2>11. 0 .. u' - 1 = (0 .. u - 1) \cup {u}
    BY <1>2, <2>1
  <2>12. \A i \in 0 .. u' - 1, j \in 0 .. c - 1 :
           EdgesBetween(h, {i}, {j})
             = IF i = j THEN 0 ELSE EdgesBetween(Fine, Members(i), Members(j))
    BY <2>9, <2>10, <2>11
  <2>13. LeavingBefore(u)' = LeavingBefore(u + 1) /\ \A i : Members(i)' = Members(i)
    BY <1>3, <2>1, <2>7 DEF LeavingBefore
  <2>14. levels[level + 2]' = h
    BY <2>1, <2>7
  <2> QED
    BY <2>1, <2>7, <2>8, <2>12, <2>13, <2>14 DEF RowsInv
<1>6. CASE UNCHANGED coarsenVars
  <2>1. /\ pc' = pc /\ coarse_id' = coarse_id /\ c' = c /\ u' = u
        /\ levels' = levels /\ level' = level
    BY <1>6 DEF coarsenVars
  <2>2. Fine' = Fine /\ levels[level + 2]' = levels[level + 2]
    BY <2>1, SameGraphs
  <2>3. LeavingBefore(u)' = LeavingBefore(u) /\ \A i : Members(i)' = Members(i)
    BY <1>3, <2>1, <2>2 DEF LeavingBefore
  <2> QED
    BY <1>1, <2>1, <2>2, <2>3 DEF RowsInv
<1>7. CASE pc' # "rows"
  BY <1>7 DEF RowsInv
<1>8. GenerateRow \/ GenerateEnd \/ LevelBegin \/ LevelsUsedUp \/ MatchNode \/ MatchEnd
      \/ NumberNode \/ LevelEnd => pc' # "rows"
  BY DEF GenerateRow, GenerateEnd, LevelBegin, LevelsUsedUp, MatchNode, MatchEnd, NumberNode,
         LevelEnd
<1> QED
  BY <1>4, <1>5, <1>6, <1>7, <1>8 DEF CoarsenNext, CoarsenStopped
-----------------------------------------------------------------------------
(***************************************************************************)
(* The markers.                                                            *)
(***************************************************************************)
\* What a marker is.
Markers == [kind : {"begin", "enter", "exit", "end"}, t : Nat]

\* Two more markers.
LEMMA TwoMore ==
  ASSUME NEW s \in Seq(Markers), NEW a \in Markers, NEW b \in Markers
  PROVE  /\ s \o <<a, b>> \in Seq(Markers) /\ Len(s \o <<a, b>>) = Len(s) + 2
         /\ \A k \in 1 .. Len(s) : (s \o <<a, b>>)[k] = s[k]
         /\ (s \o <<a, b>>)[Len(s) + 1] = a /\ (s \o <<a, b>>)[Len(s) + 2] = b
<1>1. PICK r : r = <<a, b>>
  OBVIOUS
<1>2. r \in Seq(Markers) /\ Len(r) = 2 /\ r[1] = a /\ r[2] = b
  BY <1>1
<1>3. Len(s) \in Nat
  BY LenProperties
<1>4. /\ s \o r \in Seq(Markers) /\ Len(s \o r) = Len(s) + Len(r)
      /\ \A i \in 1 .. Len(s) + Len(r) :
           (s \o r)[i] = IF i <= Len(s) THEN s[i] ELSE r[i - Len(s)]
  BY <1>2, ConcatProperties
<1>5. /\ \A k \in 1 .. Len(s) : k \in 1 .. Len(s) + 2 /\ k <= Len(s)
      /\ Len(s) + 1 \in 1 .. Len(s) + 2 /\ ~ Len(s) + 1 <= Len(s) /\ (Len(s) + 1) - Len(s) = 1
      /\ Len(s) + 2 \in 1 .. Len(s) + 2 /\ ~ Len(s) + 2 <= Len(s) /\ (Len(s) + 2) - Len(s) = 2
  BY <1>3
<1> QED
  BY <1>1, <1>2, <1>4, <1>5

\* In every step.
LEMMA MarksNext == CoarsenInv /\ [CoarsenNext]_coarsenVars => MarksInv'
<1> SUFFICES ASSUME CoarsenInv, [CoarsenNext]_coarsenVars PROVE MarksInv'
  OBVIOUS
<1>1. ShapeInv /\ LoopInv /\ MarksInv
  BY DEF CoarsenInv
<1>2. /\ level \in Nat /\ marks \in Seq(Markers) /\ MAX_LEVELS \in Nat
      /\ level \in 0 .. MAX_LEVELS - 1
  BY <1>1, LevelGraphs, CoarsenAssumption DEF ShapeInv, MarksInv, Markers
<1>3. Len(marks) \in Nat /\ DOMAIN marks = 1 .. Len(marks)
      /\ \A k \in DOMAIN marks : marks[k] \in Markers /\ k \in Nat
  BY <1>2, LenProperties, ElementOfSeq
<1>4. pc # "done" => \A k \in DOMAIN marks : MarkAt(k)
  BY <1>1 DEF MarksInv
<1>5. ASSUME marks' = marks, level' = level
      PROVE  \A k : MarkAt(k)' <=> MarkAt(k)
  BY <1>5 DEF MarkAt
<1>6. CASE pc # "done" /\ marks' = marks /\ level' = level /\ pc' # "done"
  <2>1. \A k \in DOMAIN marks' : MarkAt(k)'
    BY <1>4, <1>5, <1>6
  <2>2. /\ pc' = "generate" => level' = 0
        /\ pc' \in {"generate", "level"} => Len(marks') = 4 * level'
        /\ pc' \in {"match", "number", "rows"} => Len(marks') = 4 * level' + 2
    <3>1. /\ pc' = "generate" => pc = "generate"
          /\ pc' \in {"generate", "level"} => pc \in {"generate", "level"}
          /\ pc' \in {"match", "number", "rows"} => pc \in {"match", "number", "rows"}
      <4>1. ~ LevelBegin /\ ~ LevelEnd
        <5>1. ASSUME NEW a \in Markers, NEW b \in Markers, marks' = marks \o <<a, b>>
              PROVE  FALSE
          <6>1. Len(marks) = Len(marks) + 2
            BY <1>2, <1>6, <5>1, TwoMore
          <6> QED
            BY <1>3, <6>1
        <5>2. Mark("begin") \in Markers /\ Mark("enter") \in Markers /\ Mark("exit") \in Markers
              /\ Mark("end") \in Markers
          BY <1>2 DEF Mark, Markers
        <5> QED
          BY <5>1, <5>2 DEF LevelBegin, LevelEnd
      <4> QED
        BY <1>6, <4>1 DEF CoarsenNext, CoarsenStopped, coarsenVars, GenerateRow, GenerateEnd,
             LevelsUsedUp, MatchNode, MatchEnd, NumberNode, NumberEnd, CoarseRow
    <3> QED
      BY <1>1, <1>6, <3>1 DEF MarksInv
  <2>3. marks' \in Seq(Markers)
    BY <1>2, <1>6
  <2> QED
    BY <1>6, <2>1, <2>2, <2>3 DEF MarksInv, Markers
<1>7. CASE LevelBegin
  <2>1. /\ pc = "level" /\ pc' = "match" /\ level' = level
        /\ marks' = marks \o <<Mark("begin"), Mark("enter")>>
    BY <1>7 DEF LevelBegin
  <2>2. PICK n : n = Len(marks)
    OBVIOUS
  <2>3. n = 4 * level /\ n \in Nat
    BY <1>1, <1>3, <2>1, <2>2 DEF MarksInv
  <2>4. Mark("begin") \in Markers /\ Mark("enter") \in Markers
    BY <1>2 DEF Mark, Markers
  <2>5. /\ marks' \in Seq(Markers) /\ Len(marks') = n + 2
        /\ \A k \in 1 .. n : marks'[k] = marks[k]
        /\ marks'[n + 1] = Mark("begin") /\ marks'[n + 2] = Mark("enter")
    BY <1>2, <2>1, <2>2, <2>4, TwoMore
  <2>6. DOMAIN marks' = (1 .. n) \cup {n + 1, n + 2}
    <3>1. DOMAIN marks' = 1 .. n + 2
      BY <2>5, LenProperties
    <3> QED
      BY <2>3, <3>1
  <2>7. \A k \in 1 .. n : MarkAt(k)'
    BY <1>3, <1>4, <2>1, <2>2, <2>5 DEF MarkAt
  <2>8. MarkAt(n + 1)'
    <3>1. marks'[n + 1] = [kind |-> "begin", t |-> level]
      BY <2>5 DEF Mark
    <3>2. level \in 0 .. level' /\ (n + 1) - 4 * level = 1 /\ Kinds[1] = "begin"
      BY <1>2, <2>1, <2>3 DEF Kinds
    <3> QED
      BY <3>1, <3>2 DEF MarkAt, Kinds
  <2>9. MarkAt(n + 2)'
    <3>1. marks'[n + 2] = [kind |-> "enter", t |-> level]
      BY <2>5 DEF Mark
    <3>2. level \in 0 .. level' /\ (n + 2) - 4 * level = 2 /\ Kinds[2] = "enter"
      BY <1>2, <2>1, <2>3 DEF Kinds
    <3> QED
      BY <3>1, <3>2 DEF MarkAt, Kinds
  <2>10. \A k \in DOMAIN marks' : MarkAt(k)'
    BY <2>6, <2>7, <2>8, <2>9
  <2> QED
    BY <2>1, <2>3, <2>5, <2>10 DEF MarksInv, Markers
<1>8. CASE LevelEnd
  <2>1. /\ pc = "rows" /\ marks' = marks \o <<Mark("exit"), Mark("end")>>
        /\ \/ pc' = "done" /\ level' = level
           \/ pc' = "level" /\ level' = level + 1
        /\ level < MAX_LEVELS - 1
    BY <1>1, <1>8 DEF LevelEnd, ShapeInv
  <2>2. PICK n : n = Len(marks)
    OBVIOUS
  <2>3. n = 4 * level + 2 /\ n \in Nat
    BY <1>1, <1>3, <2>1, <2>2 DEF MarksInv
  <2>4. Mark("exit") \in Markers /\ Mark("end") \in Markers
    BY <1>2 DEF Mark, Markers
  <2>5. /\ marks' \in Seq(Markers) /\ Len(marks') = n + 2
        /\ \A k \in 1 .. n : marks'[k] = marks[k]
        /\ marks'[n + 1] = Mark("exit") /\ marks'[n + 2] = Mark("end")
    BY <1>2, <2>1, <2>2, <2>4, TwoMore
  <2>6. DOMAIN marks' = (1 .. n) \cup {n + 1, n + 2}
    <3>1. DOMAIN marks' = 1 .. n + 2
      BY <2>5, LenProperties
    <3> QED
      BY <2>3, <3>1
  <2>7. 0 .. level \subseteq 0 .. level' /\ level \in 0 .. level'
    BY <1>2, <2>1
  <2>8. \A k \in 1 .. n : MarkAt(k)'
    BY <1>3, <1>4, <2>1, <2>2, <2>5, <2>7 DEF MarkAt
  <2>9. MarkAt(n + 1)'
    <3>1. marks'[n + 1] = [kind |-> "exit", t |-> level]
      BY <2>5 DEF Mark
    <3>2. (n + 1) - 4 * level = 3 /\ Kinds[3] = "exit"
      BY <1>2, <2>3 DEF Kinds
    <3> QED
      BY <2>7, <3>1, <3>2 DEF MarkAt, Kinds
  <2>10. MarkAt(n + 2)'
    <3>1. marks'[n + 2] = [kind |-> "end", t |-> level]
      BY <2>5 DEF Mark
    <3>2. (n + 2) - 4 * level = 4 /\ Kinds[4] = "end"
      BY <1>2, <2>3 DEF Kinds
    <3> QED
      BY <2>7, <3>1, <3>2 DEF MarkAt, Kinds
  <2>11. \A k \in DOMAIN marks' : MarkAt(k)'
    BY <2>6, <2>8, <2>9, <2>10
  <2>13. pc' = "done" => ~ level' = MAX_LEVELS - 1
    BY <1>2, <2>1
  <2>12. Len(marks') = 4 * level + 4 /\ 4 * (level + 1) = 4 * level + 4
    BY <1>2, <2>3, <2>5
  <2> QED
    BY <2>1, <2>5, <2>11, <2>12, <2>13 DEF MarksInv, Markers
<1>9. CASE LevelsUsedUp
  <2>1. /\ pc = "level" /\ pc' = "done" /\ level' = level /\ level = MAX_LEVELS - 1
        /\ marks' = Append(marks, Mark("end"))
    BY <1>9 DEF LevelsUsedUp
  <2>2. PICK n : n = Len(marks)
    OBVIOUS
  <2>3. n = 4 * level /\ n \in Nat
    BY <1>1, <1>3, <2>1, <2>2 DEF MarksInv
  <2>4. Mark("end") \in Markers
    BY <1>2 DEF Mark, Markers
  <2>5. /\ marks' \in Seq(Markers) /\ Len(marks') = n + 1
        /\ \A k \in 1 .. n : marks'[k] = marks[k]
        /\ marks'[n + 1] = Mark("end")
    BY <1>2, <2>1, <2>2, <2>4, AppendProperties
  <2>6. DOMAIN marks' = (1 .. n) \cup {n + 1}
    <3>1. DOMAIN marks' = 1 .. n + 1
      BY <2>5, LenProperties
    <3> QED
      BY <2>3, <3>1
  <2>7. \A k \in 1 .. n : MarkAt(k)'
    BY <1>3, <1>4, <2>1, <2>2, <2>5 DEF MarkAt
  <2>8. marks'[n + 1] = [kind |-> "end", t |-> level']
    BY <2>1, <2>5 DEF Mark
  <2>9. ~ level' < MAX_LEVELS - 1 /\ Len(marks') = 4 * level' + 1
    BY <1>2, <2>1, <2>3, <2>5
  <2> QED
    BY <2>1, <2>5, <2>6, <2>7, <2>8, <2>9 DEF MarksInv, Markers
<1>10. CASE UNCHANGED coarsenVars
  <2>1. pc' = pc /\ level' = level /\ marks' = marks
    BY <1>10 DEF coarsenVars
  <2> QED
    BY <1>1, <1>5, <2>1 DEF MarksInv
<1>11. GenerateRow \/ GenerateEnd \/ MatchNode \/ MatchEnd \/ NumberNode \/ NumberEnd \/ CoarseRow
       => pc # "done" /\ marks' = marks /\ level' = level /\ pc' # "done"
  BY DEF GenerateRow, GenerateEnd, MatchNode, MatchEnd, NumberNode, NumberEnd, CoarseRow
<1> QED
  BY <1>6, <1>7, <1>8, <1>9, <1>10, <1>11 DEF CoarsenNext, CoarsenStopped
-----------------------------------------------------------------------------
(***************************************************************************)
(* The theorems.                                                           *)
(***************************************************************************)
\* The invariant is inductive: a run of any size keeps graphs graphs, the matching
\* an involution, the numbering one of pairs, and the coarse rows and the markers
\* those of what has been done so far.
THEOREM CoarsenInductive == CoarsenSpec => []CoarsenInv
<1>1. CoarsenInit => CoarsenInv
  <2> SUFFICES ASSUME CoarsenInit PROVE CoarsenInv
    OBVIOUS
  <2>1. ShapeInv /\ LoopInv /\ Graph(Fine)
    BY ShapeInit, LevelGraphs
  <2>2. pc = "generate" /\ marks = << >> /\ level = 0
    BY DEF CoarsenInit
  <2>3. match = Unset(Fine)
    BY <2>1, <2>2 DEF LoopInv
  <2>4. \A x \in Nodes(Fine) : match[x] = None /\ x # None
    <3>1. \A x \in Nodes(Fine) : x # None
      BY DEF Nodes, None
    <3> QED
      BY <2>3, <3>1, UnsetType
  <2>5. MatchInv
    BY <2>2, <2>4 DEF MatchInv, Pairs, Alone
  <2>6. MarksInv
    <3>1. /\ marks \in Seq([kind : {"begin", "enter", "exit", "end"}, t : Nat])
          /\ Len(marks) = 0 /\ DOMAIN marks = {}
      BY <2>2, EmptySeq
    <3> QED
      BY <2>2, <3>1 DEF MarksInv
  <2> QED
    BY <2>1, <2>2, <2>5, <2>6 DEF CoarsenInv, NumberInv, RowsInv
<1>2. CoarsenInv /\ [CoarsenNext]_coarsenVars => CoarsenInv'
  BY ShapeNext, MatchNext, NumberNext, RowsNext, MarksNext DEF CoarsenInv
<1> QED
  BY <1>1, <1>2, PTL DEF CoarsenSpec

\* The matching is an involution along edges and greedy in the order of the nodes,
\* at every time (greedy_matching).
THEOREM MatchingIsGreedy == CoarsenSpec => []GreedyMatching
<1>1. CoarsenInv => GreedyMatching
  <2> SUFFICES ASSUME CoarsenInv PROVE GreedyMatching
    OBVIOUS
  <2>1. Pairs /\ Alone /\ match \in [Nodes(Fine) -> Nodes(Fine) \cup {None}]
    BY DEF CoarsenInv, MatchInv, ShapeInv
  <2>2. DOMAIN match = Nodes(Fine)
    BY <2>1
  <2> QED
    BY <2>1, <2>2 DEF GreedyMatching, Pairs, Alone
<1> QED
  BY <1>1, CoarsenInductive, PTL

\* When coarse_id is read it is set, the same for the two of a pair and for no others
\* (coarsen_once).
THEOREM AllNumbered == CoarsenSpec => []EveryNodeNumbered
<1>1. CoarsenInv => EveryNodeNumbered
  BY DEF CoarsenInv, NumberInv, NumberedBy, EveryNodeNumbered
<1> QED
  BY <1>1, CoarsenInductive, PTL

\* Every graph is well formed, and when a coarse graph is done it is the quotient of
\* the fine one, with no edge dropped (coarsen_once).
THEOREM CoarseIsQuotient == CoarsenSpec => []Quotient
<1>1. CoarsenInv => Quotient
  <2> SUFFICES ASSUME CoarsenInv PROVE Quotient
    OBVIOUS
  <2>1. \A k \in DOMAIN levels : WellFormed(levels[k])
    BY DEF CoarsenInv, ShapeInv, Graph
  <2>2. ASSUME pc = "rows", u = c
        PROVE  LET coarse == levels[level + 2]
                   members(i) == {x \in Nodes(Fine) : coarse_id[x] = i}
               IN \A i, j \in Nodes(coarse) :
                    EdgesBetween(coarse, {i}, {j})
                      = IF i = j THEN 0 ELSE EdgesBetween(Fine, members(i), members(j))
    <3>1. Nodes(levels[level + 2]) = 0 .. c - 1
      BY <2>2 DEF CoarsenInv, LoopInv, Nodes
    <3>2. \A i \in 0 .. c - 1, j \in 0 .. c - 1 :
            EdgesBetween(levels[level + 2], {i}, {j})
              = IF i = j THEN 0 ELSE EdgesBetween(Fine, Members(i), Members(j))
      BY <2>2 DEF CoarsenInv, RowsInv
    <3> QED
      BY <3>1, <3>2 DEF Members
  <2> QED
    BY <2>1, <2>2 DEF Quotient
<1> QED
  BY <1>1, CoarsenInductive, PTL

\* Every level that began has ended, with its region in between, and only the loop's
\* bound leaves an end without a begin (multilevel_coarsen).
THEOREM MarkersPaired == CoarsenSpec => []LevelMarkers
<1>1. CoarsenInv => LevelMarkers
  <2> SUFFICES ASSUME CoarsenInv, pc = "done" PROVE LevelMarkers
    BY DEF LevelMarkers
  <2>1. /\ level \in Nat /\ marks \in Seq(Markers) /\ level \in 0 .. MAX_LEVELS - 1
        /\ MAX_LEVELS \in Nat
    BY LevelGraphs, CoarsenAssumption DEF CoarsenInv, ShapeInv, MarksInv, Markers
  <2>2. PICK n : n = Len(marks)
    OBVIOUS
  <2>3. n \in Nat /\ DOMAIN marks = 1 .. n
        /\ n = IF level < MAX_LEVELS - 1 THEN 4 * level + 4 ELSE 4 * level + 1
    BY <2>1, <2>2, LenProperties DEF CoarsenInv, MarksInv
  <2>4. \A k \in 1 .. n : \/ MarkAt(k)
                          \/ /\ level = MAX_LEVELS - 1 /\ k = n
                             /\ marks[k] = [kind |-> "end", t |-> level]
    BY <2>2, <2>3 DEF CoarsenInv, MarksInv
  <2>5. ASSUME NEW t \in 0 .. level, 4 * t + 4 <= n
        PROVE  InOrder(t)
    <3>1. t \in Nat /\ \A d \in 1 .. 4 : 4 * t + d \in 1 .. n
      BY <2>1, <2>3, <2>5
    <3>2. ASSUME NEW k \in 1 .. n, marks[k].t = t
          PROVE  MarkAt(k)
      <4>1. CASE level = MAX_LEVELS - 1 /\ k = n /\ marks[k] = [kind |-> "end", t |-> level]
        <5>1. t = level
          BY <3>2, <4>1
        <5>2. n = 4 * level + 1
          BY <2>1, <2>3, <4>1
        <5> QED
          BY <2>1, <2>5, <5>1, <5>2
      <4> QED
        BY <2>4, <4>1
    <3>3. ASSUME NEW k \in 1 .. n, NEW d \in 1 .. 4, MarkAt(k)
          PROVE  marks[k] = [kind |-> Kinds[d], t |-> t] <=> k = 4 * t + d
      <4>1. PICK s \in 0 .. level : s = marks[k].t
        BY <3>3 DEF MarkAt
      <4>2. k - 4 * s \in 1 .. 4 /\ marks[k] = [kind |-> Kinds[k - 4 * s], t |-> s]
        BY <3>3, <4>1 DEF MarkAt
      <4>3. PICK e \in 1 .. 4 : e = k - 4 * s
        BY <4>2
      <4>4. marks[k] = [kind |-> Kinds[e], t |-> s] /\ k \in Nat /\ s \in Nat /\ k = 4 * s + e
        BY <2>1, <2>3, <4>2, <4>3
      <4>5. \A m, o \in 1 .. 4 : Kinds[m] = Kinds[o] => m = o
        BY DEF Kinds
      <4>6. marks[k] = [kind |-> Kinds[d], t |-> t] <=> Kinds[e] = Kinds[d] /\ s = t
        BY <4>4
      <4>7. k = 4 * t + d => s = t /\ e = d
        BY <3>1, <4>4
      <4> QED
        BY <4>4, <4>5, <4>6, <4>7
    <3>4. ASSUME NEW d \in 1 .. 4
          PROVE  Positions(Kinds[d], t) = {4 * t + d}
      <4>1. ASSUME NEW k \in 1 .. n
            PROVE  marks[k] = [kind |-> Kinds[d], t |-> t] <=> k = 4 * t + d
        <5>1. CASE MarkAt(k)
          BY <3>3, <5>1
        <5>2. CASE ~ MarkAt(k)
          <6>1. /\ level = MAX_LEVELS - 1 /\ k = n /\ marks[k].t # t
            BY <2>4, <3>2, <5>2
          <6>2. n = 4 * level + 1 /\ marks[k].t = level
            BY <2>1, <2>3, <2>4, <5>2, <6>1
          <6>3. k # 4 * t + d
            BY <2>1, <2>5, <3>1, <6>1, <6>2
          <6> QED
            BY <6>1, <6>3
        <5> QED
          BY <5>1, <5>2
      <4> QED
        BY <2>3, <3>1, <4>1 DEF Positions
    <3>5. /\ Positions("begin", t) = {4 * t + 1} /\ Positions("enter", t) = {4 * t + 2}
          /\ Positions("exit", t) = {4 * t + 3} /\ Positions("end", t) = {4 * t + 4}
      <4>1. Kinds[1] = "begin" /\ Kinds[2] = "enter" /\ Kinds[3] = "exit" /\ Kinds[4] = "end"
        BY DEF Kinds
      <4>2. 1 \in 1 .. 4 /\ 2 \in 1 .. 4 /\ 3 \in 1 .. 4 /\ 4 \in 1 .. 4
        OBVIOUS
      <4> QED
        BY <3>4, <4>1, <4>2
    <3>6. PICK k \in DOMAIN marks : k = 4 * t + 1
      BY <2>3, <3>1
    <3>7. 4 * t + 2 = k + 1 /\ 4 * t + 3 = k + 2 /\ 4 * t + 4 = k + 3
      BY <3>1, <3>6
    <3> QED
      BY <3>5, <3>6, <3>7 DEF InOrder
  <2>6. \A t \in 0 .. level - 1 : InOrder(t)
    <3> TAKE t \in 0 .. level - 1
    <3>1. t \in 0 .. level /\ 4 * t + 4 <= n
      BY <2>1, <2>3
    <3> QED
      BY <2>5, <3>1
  <2>7. CASE level < MAX_LEVELS - 1
    <3>1. level \in 0 .. level /\ 4 * level + 4 <= n
      BY <2>1, <2>3, <2>7
    <3> QED
      BY <2>5, <2>6, <2>7, <3>1 DEF LevelMarkers
  <2>8. CASE ~ level < MAX_LEVELS - 1
    <3>1. n = 4 * level + 1 /\ level = MAX_LEVELS - 1
      BY <2>1, <2>3, <2>8
    <3>2. ASSUME NEW k \in 1 .. n, MarkAt(k), marks[k].t = level
          PROVE  k = n /\ marks[k].kind = "begin"
      <4>1. k - 4 * level \in 1 .. 4 /\ marks[k] = [kind |-> Kinds[k - 4 * level], t |-> level]
        BY <3>2 DEF MarkAt
      <4>2. k = n /\ k - 4 * level = 1
        BY <2>1, <2>3, <3>1, <4>1
      <4> QED
        BY <4>1, <4>2 DEF Kinds
    <3>3. marks[n] = [kind |-> "end", t |-> level]
      BY <2>2, <3>1 DEF CoarsenInv, MarksInv
    <3>4. Positions("begin", level) = {}
      BY <2>3, <2>4, <3>2, <3>3 DEF Positions
    <3>5. Positions("end", level) = {n}
      BY <2>1, <2>3, <2>4, <3>1, <3>2, <3>3 DEF Positions
    <3> QED
      BY <2>2, <2>6, <2>8, <3>4, <3>5 DEF LevelMarkers
  <2> QED
    BY <2>7, <2>8
<1> QED
  BY <1>1, CoarsenInductive, PTL
=============================================================================

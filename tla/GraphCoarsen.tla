---------------------------- MODULE GraphCoarsen ----------------------------
(***************************************************************************)
(* The graph coarsening workload, graph_coarsening.cpp: a random directed  *)
(* graph is coarsened level by level; a level matches nodes greedily and   *)
(* makes one coarse node of each pair and of each node left alone.         *)
(*                                                                         *)
(* A graph is in compressed rows as in the code: nodes count from 0, and   *)
(* edge e is col_idx[e + 1].  The markers a level writes are recorded, as  *)
(* the windows of all trace tools come from them.                          *)
(***************************************************************************)
EXTENDS Integers, Sequences, FiniteSets

CONSTANTS
  MAX_EDGES, MAX_LEVELS, MIN_COARSE_SIZE, \* as in the source, but small
  NNodes, DEG                             \* N and DEG of _start

ASSUME CoarsenAssumption ==
  /\ MAX_EDGES \in Nat /\ MAX_LEVELS \in Nat \ {0} /\ MIN_COARSE_SIZE \in Nat
  /\ NNodes \in Nat \ {0} /\ DEG \in Nat

VARIABLES
  pc,        \* the loop that runs: "generate", "level" (the while loop), "match",
             \* "number", "rows"; or "done"
  levels,    \* the graphs so far, the first one at 1
  level,
  match, coarse_id,
  u, c,      \* the index of the loop, and the coarse nodes numbered
  marks      \* the markers written

coarsenVars == <<pc, levels, level, match, coarse_id, u, c, marks>>

None == -1  \* in coarse_id: not written yet

Fine == levels[level + 1]
Nodes(g) == 0 .. g.num_nodes - 1
Row(g, x) == SubSeq(g.col_idx, g.row_ptr[x] + 1, g.row_ptr[x + 1])

\* Edge e is in the row of x.
InRow(g, e, x) == g.row_ptr[x] < e /\ e <= g.row_ptr[x + 1]

Empty(n) == [num_nodes |-> n, row_ptr |-> [x \in 0 .. n |-> 0], col_idx |-> << >>]

\* Row x is filled; the row pointers behind it are not in use yet.
AddRow(g, x, row) ==
  LET edges == g.col_idx \o row IN
  [num_nodes |-> g.num_nodes,
   row_ptr |-> [y \in DOMAIN g.row_ptr |-> IF y <= x THEN g.row_ptr[y] ELSE Len(edges)],
   col_idx |-> edges]

\* The edges of the row for which g has room.
Fitting(g, row) ==
  LET room == MAX_EDGES - Len(g.col_idx)
  IN SubSeq(row, 1, IF Len(row) <= room THEN Len(row) ELSE room)

WellFormed(g) ==
  /\ g.num_nodes \in 1 .. NNodes
  /\ g.row_ptr \in [0 .. g.num_nodes -> 0 .. MAX_EDGES]
  /\ \A x, y \in 0 .. g.num_nodes : x <= y => g.row_ptr[x] <= g.row_ptr[y]
  /\ g.row_ptr[0] = 0 /\ g.row_ptr[g.num_nodes] = Len(g.col_idx)
  /\ g.col_idx \in Seq(Nodes(g))
-----------------------------------------------------------------------------
Unset(g) == [x \in Nodes(g) |-> None]

CoarsenInit ==
  /\ pc = "generate" /\ levels = <<Empty(NNodes)>> /\ level = 0
  /\ match = Unset(Empty(NNodes)) /\ coarse_id = Unset(Empty(NNodes))
  /\ u = 0 /\ c = 0 /\ marks = << >>

\* One row of generate_graph; lcg_rand may give any neighbours, and if it gives u
\* itself there is one edge less.
GenerateRow ==
  /\ pc = "generate" /\ u < NNodes
  /\ \E n \in 0 .. DEG : \E row \in [1 .. n -> Nodes(Fine) \ {u}] :
       levels' = <<AddRow(Fine, u, Fitting(Fine, row))>>
  /\ u' = u + 1
  /\ UNCHANGED <<pc, level, match, coarse_id, c, marks>>

GenerateEnd ==
  /\ pc = "generate" /\ u = NNodes
  /\ pc' = "level"
  /\ UNCHANGED <<levels, level, match, coarse_id, u, c, marks>>

Mark(kind) == [kind |-> kind, t |-> level]

\* The head of the loop in multilevel_coarsen, and the start of greedy_matching.
LevelBegin ==
  /\ pc = "level" /\ level < MAX_LEVELS - 1
  /\ marks' = marks \o <<Mark("begin"), Mark("enter")>>
  /\ match' = Unset(Fine) /\ coarse_id' = Unset(Fine)
  /\ u' = 0 /\ pc' = "match"
  /\ UNCHANGED <<levels, level, c>>

\* The loop ends by its bound; the end behind it is of a level that did not begin.
LevelsUsedUp ==
  /\ pc = "level" /\ level = MAX_LEVELS - 1
  /\ marks' = Append(marks, Mark("end"))
  /\ pc' = "done"
  /\ UNCHANGED <<levels, level, match, coarse_id, u, c>>
-----------------------------------------------------------------------------
(* greedy_matching. *)

\* Fault: only the first edge is looked at.
FirstNeighbourFree ==
  LET row == Row(Fine, u)
  IN IF row # << >> /\ match[row[1]] = None THEN row[1] ELSE u

\* The first neighbour that is free, or u itself.
Partner ==
  LET row == Row(Fine, u)
      free == {k \in DOMAIN row : match[row[k]] = None}
  IN IF free = {} THEN u ELSE row[CHOOSE k \in free : \A m \in free : k <= m]

\* Fault: the partner is not told.
MatchOneSide ==
  /\ pc = "match" /\ u < Fine.num_nodes
  /\ match' = IF match[u] # None THEN match ELSE [match EXCEPT ![u] = Partner]
  /\ u' = u + 1
  /\ UNCHANGED <<pc, levels, level, coarse_id, c, marks>>

MatchNode ==
  /\ pc = "match" /\ u < Fine.num_nodes
  /\ match' = IF match[u] # None THEN match
              ELSE [match EXCEPT ![u] = Partner, ![Partner] = u]
  /\ u' = u + 1
  /\ UNCHANGED <<pc, levels, level, coarse_id, c, marks>>

MatchEnd ==
  /\ pc = "match" /\ u = Fine.num_nodes
  /\ pc' = "number" /\ u' = 0 /\ c' = 0
  /\ UNCHANGED <<levels, level, match, coarse_id, marks>>
-----------------------------------------------------------------------------
(* coarsen_once. *)

NumberNode ==
  /\ pc = "number" /\ u < Fine.num_nodes
  /\ IF u <= match[u]
       THEN coarse_id' = [coarse_id EXCEPT ![u] = c, ![match[u]] = c] /\ c' = c + 1
       ELSE UNCHANGED <<coarse_id, c>>
  /\ u' = u + 1
  /\ UNCHANGED <<pc, levels, level, match, marks>>

NumberEnd ==
  /\ pc = "number" /\ u = Fine.num_nodes
  /\ levels' = Append(levels, Empty(c))
  /\ pc' = "rows" /\ u' = 0
  /\ UNCHANGED <<level, match, coarse_id, c, marks>>

\* Fault: edges inside a coarse node are kept.
WithInnerEdges(i) ==
  LET from(e) == \E x \in Nodes(Fine) : coarse_id[x] = i /\ InRow(Fine, e, x)
      taken[e \in 0 .. Len(Fine.col_idx)] ==
        IF e = 0 THEN << >>
        ELSE IF from(e) THEN Append(taken[e - 1], coarse_id[Fine.col_idx[e]])
        ELSE taken[e - 1]
  IN taken[Len(Fine.col_idx)]

\* An edge from a node of coarse node i to one of another coarse node.
Leaves(e, i) ==
  /\ coarse_id[Fine.col_idx[e]] # i
  /\ \E x \in Nodes(Fine) : coarse_id[x] = i /\ InRow(Fine, e, x)

\* The edges that leave coarse node i, in the order of the fine nodes.
Leaving(i) ==
  LET taken[e \in 0 .. Len(Fine.col_idx)] ==
        IF e = 0 THEN << >>
        ELSE IF Leaves(e, i) THEN Append(taken[e - 1], coarse_id[Fine.col_idx[e]])
        ELSE taken[e - 1]
  IN taken[Len(Fine.col_idx)]

CoarseRow ==
  /\ pc = "rows" /\ u < c
  /\ levels' = [levels EXCEPT ![level + 2] = AddRow(@, u, Fitting(@, Leaving(u)))]
  /\ u' = u + 1
  /\ UNCHANGED <<pc, level, match, coarse_id, c, marks>>

Stops == c >= Fine.num_nodes \/ c <= MIN_COARSE_SIZE

\* Fault: the loop is left before the level is ended.
LevelEndOpen ==
  /\ pc = "rows" /\ u = c
  /\ IF Stops
       THEN /\ pc' = "done" /\ marks' = Append(marks, Mark("exit"))
            /\ UNCHANGED <<level, match, coarse_id>>
       ELSE /\ pc' = "level" /\ level' = level + 1
            /\ marks' = marks \o <<Mark("exit"), Mark("end")>>
            /\ match' = Unset(levels[level + 2]) /\ coarse_id' = Unset(levels[level + 2])
  /\ UNCHANGED <<levels, u, c>>

\* coarsen_once returns.  The level is ended, behind the loop or in it.  (The two
\* arrays are coarsen_once's own and are gone; they are unset here.)
LevelEnd ==
  /\ pc = "rows" /\ u = c
  /\ marks' = marks \o <<Mark("exit"), Mark("end")>>
  /\ IF Stops
       THEN pc' = "done" /\ UNCHANGED <<level, match, coarse_id>>
       ELSE /\ pc' = "level" /\ level' = level + 1
            /\ match' = Unset(levels[level + 2]) /\ coarse_id' = Unset(levels[level + 2])
  /\ UNCHANGED <<levels, u, c>>

CoarsenStopped == pc = "done" /\ UNCHANGED coarsenVars

CoarsenNext ==
  \/ GenerateRow \/ GenerateEnd \/ LevelBegin \/ LevelsUsedUp
  \/ MatchNode \/ MatchEnd \/ NumberNode \/ NumberEnd \/ CoarseRow \/ LevelEnd
  \/ CoarsenStopped

CoarsenSpec == CoarsenInit /\ [][CoarsenNext]_coarsenVars
-----------------------------------------------------------------------------
(* What a coarsening is. *)

Targets(g, x) == LET row == Row(g, x) IN {row[k] : k \in DOMAIN row}

\* The matching is an involution along edges, and a node is left alone only if none
\* of its neighbours comes after it alone: greedy in the order of the nodes, over
\* edges that go one way only, so it need not be maximal (greedy_matching 53-72).
GreedyMatching ==
  /\ \A x \in DOMAIN match : match[x] # None =>
       /\ match[match[x]] = x
       /\ match[x] # x => match[x] \in Targets(Fine, x) \/ x \in Targets(Fine, match[x])
  /\ \A x \in DOMAIN match : match[x] = x =>
       \A y \in Targets(Fine, x) : match[y] # None /\ (match[y] = y => y < x)

\* coarse_id is read for every node and every neighbour: by then it is set for all of
\* them, the same for a pair and different otherwise (coarsen_once 82-90).
EveryNodeNumbered ==
  pc = "rows" =>
    /\ c > 0 /\ {coarse_id[x] : x \in Nodes(Fine)} = 0 .. c - 1
    /\ \A x, y \in Nodes(Fine) : coarse_id[x] = coarse_id[y] <=> y \in {x, match[x]}

\* Every graph is a graph at every time, the one a level is filling up too, although
\* edges may be dropped in the middle of a row; and the coarse graph is the quotient:
\* it has as many edges from i to j as the fine graph
\* has between their nodes, none from a node to itself, and none is dropped for want
\* of room, as a graph has no more edges than the finer one (coarsen_once 94-119).
EdgesBetween(g, X, Y) ==
  Cardinality({e \in DOMAIN g.col_idx :
    g.col_idx[e] \in Y /\ \E x \in X : InRow(g, e, x)})
Quotient ==
  /\ \A k \in DOMAIN levels : WellFormed(levels[k])
  /\ pc = "rows" /\ u = c =>
       LET coarse == levels[level + 2]
           members(i) == {x \in Nodes(Fine) : coarse_id[x] = i}
       IN \A i, j \in Nodes(coarse) :
            EdgesBetween(coarse, {i}, {j})
              = IF i = j THEN 0 ELSE EdgesBetween(Fine, members(i), members(j))

\* What the readers of the log find: every level that begins ends, once, with its
\* region in between; and when the loop has ended by its bound there is one more
\* end, of a level that did not begin, for which divideDRAMSimtrace.py raises
\* (multilevel_coarsen 128-143).
Positions(kind, t) == {k \in DOMAIN marks : marks[k] = [kind |-> kind, t |-> t]}
InOrder(t) ==
  \E k \in DOMAIN marks :
    /\ Positions("begin", t) = {k} /\ Positions("enter", t) = {k + 1}
    /\ Positions("exit", t) = {k + 2} /\ Positions("end", t) = {k + 3}
LevelMarkers ==
  pc = "done" =>
    /\ \A t \in 0 .. level - 1 : InOrder(t)
    /\ IF level < MAX_LEVELS - 1 THEN InOrder(level)
       ELSE Positions("begin", level) = {} /\ Positions("end", level) = {Len(marks)}
=============================================================================

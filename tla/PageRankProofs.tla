--------------------------- MODULE PageRankProofs ---------------------------
(***************************************************************************)
(* Proofs about PageRank and the rewriters of RankRewriter: for every      *)
(* graph, every number of nodes, edges and iterations, every division of   *)
(* ticks, and every trace and log that are given instead; what the bursts  *)
(* hold and what the reads of the rewritten trace find is proved of the    *)
(* workload's own trace.                                                   *)
(***************************************************************************)
EXTENDS PageRank, SequenceTheorems, FunctionTheorems, FiniteSetTheorems,
        WellFoundedInduction, TLAPS

OutEntry == [idx : Nat \ {0}, cycle : Nat]

PageType ==
  /\ trace \in Seq(Line)
  /\ windows \in Seq(Windows(Nat)) /\ Successive(windows)
  /\ how \in [method : {"targeted", "blind"}, gap : Nat]
  /\ at \in {"init", "begin", "vertex", "edges", "rewrite"}
  /\ iter \in Nat /\ v \in Nat /\ e \in Nat
  /\ col_idx \in [Edges -> Nodes]
  /\ div \in Nat \ {0} /\ tick \in Nat /\ begin \in Nat

\* While the workload runs the rewriter has not begun, and the windows so far end
\* before what is still to come begins.
WorkInv ==
  at # "rewrite" =>
    /\ RewriterStart
    /\ at = "edges" => v < NODES
    /\ begin <= tick
    /\ \A k \in 1 .. NWindows :
         windows[k].end <= (IF at \in {"vertex", "edges"} THEN begin ELSE tick) \div div

RankType ==
  /\ pc \in {"read", "line", "tail", "done"}
  /\ pos \in 1 .. Len(trace) + 1
  /\ cur \in 1 .. NWindows + 1 /\ next \in 1 .. NWindows + 1
  /\ reads \in Seq(Nat \ {0}) /\ writes \in Seq(Nat \ {0})
  /\ temp \in Seq(OutEntry) /\ out \in Seq(OutEntry)

\* The loop is at an entry, between the window it has reached and its own.
CursorInv ==
  pc = "line" =>
    /\ pos \in Entries(trace) /\ cur <= next
    /\ \A w \in cur .. next - 1 : trace[pos].cycle > windows[w].end
    /\ next <= NWindows => trace[pos].cycle <= windows[next].end

\* What is held has been read, and no line of it is held twice.
Distinct(s) == \A k, m \in DOMAIN s : s[k] = s[m] => k = m
PlaceInv ==
  /\ \A i \in Idxs(reads) \cup Idxs(writes) \cup Idxs(Indices(temp)) :
       i \in Entries(trace) /\ i < pos
  /\ Distinct(reads) /\ Distinct(writes) /\ Distinct(Indices(temp))
  /\ Idxs(reads) \cap Idxs(writes) = {}
  /\ (Idxs(reads) \cup Idxs(writes)) \cap Idxs(Indices(temp)) = {}

\* The trace is one of those whose order is kept.
KeepsOrder ==
  /\ how.gap = 0 /\ (how.method = "blind" => OnlyRequests)
  /\ InCycleOrder(trace)

\* The output is in cycle order and comes before the current window and before one
\* of the lines read; the window's file is in cycle order and within the window.
Reached(i) == i \in 1 .. Len(trace) /\ (i < pos \/ (i = pos /\ pc = "line"))
OrderInv ==
  KeepsOrder =>
    /\ InCycleOrder(out) /\ InCycleOrder(temp)
    /\ \A k \in DOMAIN out :
         /\ cur <= NWindows => out[k].cycle <= windows[cur].begin
         /\ pc \in {"read", "line"} =>
              \E i \in 1 .. Len(trace) : Reached(i) /\ out[k].cycle <= trace[i].cycle
    /\ \A k \in DOMAIN temp :
         /\ cur <= NWindows /\ InWindow(windows[cur], temp[k].cycle)
         /\ temp[k].cycle = trace[temp[k].idx].cycle

PageInv == PageType /\ WorkInv /\ RankType /\ CursorInv /\ PlaceInv /\ OrderInv
-----------------------------------------------------------------------------
(***************************************************************************)
(* Lists.                                                                  *)
(***************************************************************************)

\* Of two line numbers one comes before the other, and not both.
LEMMA BeforeIsOrder ==
  ASSUME NEW t \in Seq(Line), NEW i \in 1 .. Len(t), NEW j \in 1 .. Len(t), NEW k \in 1 .. Len(t)
  PROVE  /\ ~ Before(t, i, i)
         /\ i # j => Before(t, i, j) \/ Before(t, j, i)
         /\ Before(t, i, j) => ~ Before(t, j, i)
         /\ Before(t, i, j) /\ Before(t, j, k) => Before(t, i, k)
<1>1. /\ t[i] \in Line /\ t[j] \in Line /\ t[k] \in Line
      /\ i \in Nat /\ j \in Nat /\ k \in Nat
  OBVIOUS
<1>2. t[i].addr \in Nat /\ t[j].addr \in Nat /\ t[k].addr \in Nat
  BY <1>1 DEF Line
<1> QED
  BY <1>1, <1>2 DEF Before

\* A list of different lines, sorted, has the same lines, each once, in the order of
\* the key: how many lines come before a line is different for each, so each place is
\* taken by one.
LEMMA SortedSeqFacts ==
  ASSUME NEW t \in Seq(Line), NEW s \in Seq(Nat \ {0}), Distinct(s),
         \A i \in Idxs(s) : i \in 1 .. Len(t)
  PROVE  /\ SortedSeq(t, s) \in Seq(Nat \ {0}) /\ Len(SortedSeq(t, s)) = Len(s)
         /\ Idxs(SortedSeq(t, s)) = Idxs(s) /\ Distinct(SortedSeq(t, s))
         /\ \A k, m \in 1 .. Len(s) :
              k < m => Before(t, SortedSeq(t, s)[k], SortedSeq(t, s)[m])
<1> DEFINE n == Len(s)
           D == 1 .. n
           E(m) == {l \in D : Before(t, s[l], s[m])}
<1>1. n \in Nat /\ DOMAIN s = D /\ \A m \in D : s[m] \in 1 .. Len(t) /\ s[m] \in Nat \ {0}
  BY DEF Idxs
<1>2. IsFiniteSet(D) /\ Cardinality(D) = n
  <2> HIDE DEF n
  <2>1. IsFiniteSet(1 .. n) /\ Cardinality(1 .. n) = IF 1 > n THEN 0 ELSE n - 1 + 1
    BY <1>1, FS_Interval
  <2> QED
    BY <1>1, <2>1
<1>3. ASSUME NEW m \in D PROVE Cardinality(E(m)) + 1 \in D
  <2>1. m \notin E(m)
    BY <1>1, BeforeIsOrder
  <2>2. IsFiniteSet(D \ {m}) /\ Cardinality(D \ {m}) = n - 1
    BY <1>2, FS_RemoveElement
  <2>3. E(m) \in SUBSET (D \ {m})
    BY <2>1
  <2>4. IsFiniteSet(E(m)) /\ Cardinality(E(m)) <= n - 1
    BY <2>2, <2>3, FS_Subset
  <2>5. Cardinality(E(m)) \in Nat
    BY <2>4, FS_CardinalityType
  <2> QED
    BY <1>1, <2>4, <2>5
<1>4. ASSUME NEW l \in D, NEW m \in D, Before(t, s[l], s[m])
      PROVE  Cardinality(E(l)) < Cardinality(E(m))
  <2>1. E(l) \in SUBSET E(m)
    BY <1>1, <1>4, BeforeIsOrder
  <2>2. l \in E(m) /\ l \notin E(l)
    BY <1>1, <1>4, BeforeIsOrder
  <2>3. IsFiniteSet(E(m)) /\ E(m) \in SUBSET D
    BY <1>2, FS_Subset
  <2>4. /\ IsFiniteSet(E(l)) /\ Cardinality(E(l)) <= Cardinality(E(m))
        /\ Cardinality(E(m)) = Cardinality(E(l)) => E(m) = E(l)
    BY <2>1, <2>3, FS_Subset
  <2>5. Cardinality(E(l)) \in Nat /\ Cardinality(E(m)) \in Nat
    BY <2>3, <2>4, FS_CardinalityType
  <2> QED
    BY <2>2, <2>4, <2>5
<1>5. \A l, m \in D : l # m => Cardinality(E(l)) # Cardinality(E(m))
  <2> SUFFICES ASSUME NEW l \in D, NEW m \in D, l # m
               PROVE  Cardinality(E(l)) # Cardinality(E(m))
    OBVIOUS
  <2>1. s[l] # s[m]
    BY <1>1 DEF Distinct
  <2>2. Before(t, s[l], s[m]) \/ Before(t, s[m], s[l])
    BY <1>1, <2>1, BeforeIsOrder
  <2>3. Cardinality(E(l)) + 1 \in Int /\ Cardinality(E(m)) + 1 \in Int
    BY <1>1, <1>3
  <2>4. Cardinality(E(l)) < Cardinality(E(m)) \/ Cardinality(E(m)) < Cardinality(E(l))
    BY <1>4, <2>2
  <2>5. Cardinality(E(l)) \in Nat /\ Cardinality(E(m)) \in Nat
    <3>1. \A x \in D : IsFiniteSet(E(x))
      BY <1>2, FS_Subset
    <3> QED
      BY <3>1, FS_CardinalityType
  <2> HIDE DEF E
  <2> QED
    BY <2>4, <2>5
<1>6. \A k \in D : \E m \in D : Cardinality(E(m)) = k - 1
  <2> DEFINE place == [m \in D |-> Cardinality(E(m)) + 1]
  <2>0. \A m \in D : Cardinality(E(m)) \in Nat
    <3>1. \A x \in D : IsFiniteSet(E(x))
      BY <1>2, FS_Subset
    <3> QED
      BY <3>1, FS_CardinalityType
  <2>1. place \in [D -> D]
    BY <1>3
  <2>2. \A l, m \in D : place[l] = place[m] => l = m
    <3> HIDE DEF E
    <3> QED
      BY <1>5, <2>0
  <2>3. place \in Injection(D, D)
    <3> HIDE DEF place, D
    <3> QED
      BY <2>1, <2>2, Fun_IsInj
  <2>4. place \in Surjection(D, D)
    <3> HIDE DEF place, D
    <3> QED
      BY <1>2, <2>3, FS_Injection
  <2>5. \A k \in D : \E m \in D : place[m] = k
    <3> HIDE DEF place, D
    <3> QED
      BY <2>4 DEF Surjection
  <2> SUFFICES ASSUME NEW k \in D PROVE \E m \in D : Cardinality(E(m)) = k - 1
    OBVIOUS
  <2>6. PICK m \in D : place[m] = k
    BY <2>5
  <2>7. Cardinality(E(m)) \in Nat /\ place[m] = Cardinality(E(m)) + 1
    BY <2>0
  <2> HIDE DEF E, place
  <2>8. Cardinality(E(m)) = k - 1
    BY <1>1, <2>6, <2>7
  <2> QED
    BY <2>8
<1> DEFINE c(k) == CHOOSE m \in D : Cardinality(E(m)) = k - 1
<1>7. \A k \in D : c(k) \in D /\ Cardinality(E(c(k))) = k - 1
  <2> SUFFICES ASSUME NEW k \in D PROVE c(k) \in D /\ Cardinality(E(c(k))) = k - 1
    OBVIOUS
  <2>1. \E m \in D : Cardinality(E(m)) = k - 1
    BY <1>6
  <2> HIDE DEF E, D
  <2> QED
    BY <2>1, Zenon
<1>8. SortedSeq(t, s) = [k \in D |-> s[c(k)]]
  BY <1>1 DEF SortedSeq
<1> HIDE DEF c
<1>9. /\ SortedSeq(t, s) \in Seq(Nat \ {0}) /\ Len(SortedSeq(t, s)) = n
      /\ DOMAIN SortedSeq(t, s) = D /\ \A k \in D : SortedSeq(t, s)[k] = s[c(k)]
  <2>1. \A k \in D : s[c(k)] \in Nat \ {0}
    BY <1>1, <1>7
  <2> HIDE DEF n
  <2> QED
    BY <1>1, <1>8, <2>1
<1>10. \A k, m \in D : c(k) = c(m) => k = m
  <2> SUFFICES ASSUME NEW k \in D, NEW m \in D, c(k) = c(m) PROVE k = m
    OBVIOUS
  <2>1. k - 1 = m - 1
    BY <1>7
  <2> QED
    BY <1>1, <2>1
<1>11. \A k, m \in D : SortedSeq(t, s)[k] = SortedSeq(t, s)[m] => k = m
  BY <1>1, <1>7, <1>9, <1>10 DEF Distinct
<1>12. \A m \in D : \E k \in D : c(k) = m
  <2> SUFFICES ASSUME NEW m \in D PROVE \E k \in D : c(k) = m
    OBVIOUS
  <2>1. PICK k \in D : k = Cardinality(E(m)) + 1
    BY <1>3
  <2>2. Cardinality(E(m)) \in Nat
    <3>1. IsFiniteSet(E(m))
      BY <1>2, FS_Subset
    <3> QED
      BY <3>1, FS_CardinalityType
  <2>3. Cardinality(E(c(k))) = Cardinality(E(m))
    <3> HIDE DEF E
    <3>1. Cardinality(E(c(k))) = k - 1
      BY <1>7
    <3> QED
      BY <2>1, <2>2, <3>1
  <2>4. c(k) \in D
    BY <1>7
  <2> HIDE DEF E, D
  <2> QED
    BY <1>5, <2>3, <2>4
<1>13. Idxs(SortedSeq(t, s)) = Idxs(s)
  <2> HIDE DEF D
  <2>1. Idxs(SortedSeq(t, s)) = {s[c(k)] : k \in D}
    BY <1>9 DEF Idxs
  <2>2. Idxs(s) = {s[m] : m \in D}
    BY <1>1 DEF Idxs
  <2> QED
    BY <1>7, <1>12, <2>1, <2>2
<1>14. \A k, m \in D : k < m => Before(t, SortedSeq(t, s)[k], SortedSeq(t, s)[m])
  <2> SUFFICES ASSUME NEW k \in D, NEW m \in D, k < m
               PROVE  Before(t, s[c(k)], s[c(m)])
    BY <1>9
  <2>1. c(k) \in D /\ c(m) \in D /\ s[c(k)] # s[c(m)]
    <3>1. c(k) \in D /\ c(m) \in D
      BY <1>7
    <3>2. k # m
      BY <1>1
    <3>3. c(k) # c(m)
      BY <1>10, <3>2
    <3> HIDE DEF E
    <3> QED
      BY <1>1, <3>1, <3>3 DEF Distinct
  <2>2. Before(t, s[c(k)], s[c(m)]) \/ Before(t, s[c(m)], s[c(k)])
    BY <1>1, <2>1, BeforeIsOrder
  <2>3. Before(t, s[c(m)], s[c(k)]) => Cardinality(E(c(m))) < Cardinality(E(c(k)))
    BY <1>4, <2>1
  <2>4. Cardinality(E(c(m))) = m - 1 /\ Cardinality(E(c(k))) = k - 1
    BY <1>7
  <2> HIDE DEF E
  <2> QED
    BY <1>1, <2>2, <2>3, <2>4
<1> QED
  BY <1>9, <1>11, <1>13, <1>14 DEF Distinct

\* The elements of two lists put together, and that none is there twice.
LEMMA ConcatDistinct ==
  ASSUME NEW S, NEW s \in Seq(S), NEW t \in Seq(S)
  PROVE  /\ s \o t \in Seq(S) /\ Idxs(s \o t) = Idxs(s) \cup Idxs(t)
         /\ Distinct(s) /\ Distinct(t) /\ Idxs(s) \cap Idxs(t) = {} => Distinct(s \o t)
<1>1. /\ DOMAIN s = 1 .. Len(s) /\ DOMAIN t = 1 .. Len(t) /\ Len(s) \in Nat /\ Len(t) \in Nat
      /\ DOMAIN (s \o t) = 1 .. Len(s) + Len(t)
      /\ \A i \in 1 .. Len(s) + Len(t) :
           (s \o t)[i] = IF i <= Len(s) THEN s[i] ELSE t[i - Len(s)]
      /\ s \o t \in Seq(S)
  BY LenProperties, ConcatProperties
<1>2. \A i \in DOMAIN s : i \in DOMAIN (s \o t) /\ (s \o t)[i] = s[i]
  BY <1>1
<1>3. ASSUME NEW i \in DOMAIN t
      PROVE  i + Len(s) \in DOMAIN (s \o t) /\ (s \o t)[i + Len(s)] = t[i]
  <2>1. i \in 1 .. Len(t) /\ i + Len(s) \in 1 .. Len(s) + Len(t) /\ ~ (i + Len(s) <= Len(s))
    BY <1>1
  <2>2. i + Len(s) - Len(s) = i
    BY <1>1
  <2> QED
    BY <1>1, <2>1, <2>2
<1>4. \A i \in DOMAIN (s \o t) :
        \/ i \in DOMAIN s /\ (s \o t)[i] = s[i]
        \/ i - Len(s) \in DOMAIN t /\ (s \o t)[i] = t[i - Len(s)]
  BY <1>1
<1>5. Idxs(s \o t) = Idxs(s) \cup Idxs(t)
  <2>1. \A x \in Idxs(s \o t) : x \in Idxs(s) \cup Idxs(t)
    BY <1>4 DEF Idxs
  <2>2. \A x \in Idxs(s) : x \in Idxs(s \o t)
    BY <1>2 DEF Idxs
  <2>3. \A x \in Idxs(t) : x \in Idxs(s \o t)
    BY <1>3 DEF Idxs
  <2> QED
    BY <2>1, <2>2, <2>3
<1>6. ASSUME Distinct(s), Distinct(t), Idxs(s) \cap Idxs(t) = {},
             NEW i \in DOMAIN (s \o t), NEW j \in DOMAIN (s \o t), (s \o t)[i] = (s \o t)[j]
      PROVE  i = j
  <2>1. i \in Int /\ j \in Int
    BY <1>1
  <2>2. \A k \in DOMAIN s, m \in DOMAIN t : s[k] # t[m]
    BY <1>6 DEF Idxs
  <2>3. CASE i \in DOMAIN s /\ (s \o t)[i] = s[i]
    <3>1. j \in DOMAIN s /\ (s \o t)[j] = s[j]
      BY <1>4, <1>6, <2>2, <2>3
    <3> QED
      BY <1>6, <2>3, <3>1 DEF Distinct
  <2>4. CASE i - Len(s) \in DOMAIN t /\ (s \o t)[i] = t[i - Len(s)]
    <3>1. j - Len(s) \in DOMAIN t /\ (s \o t)[j] = t[j - Len(s)]
      BY <1>4, <1>6, <2>2, <2>4
    <3>2. i - Len(s) = j - Len(s)
      BY <1>6, <2>4, <3>1 DEF Distinct
    <3> QED
      BY <1>1, <2>1, <3>2
  <2> QED
    BY <1>4, <2>3, <2>4
<1> QED
  BY <1>1, <1>5, <1>6 DEF Distinct

\* The first and the second of two lists put together.
LEMMA ConcatParts ==
  ASSUME NEW S, NEW s \in Seq(S), NEW t \in Seq(S)
  PROVE  /\ Len(s \o t) >= Len(s) /\ SubSeq(s \o t, 1, Len(s)) = s
         /\ SubSeq(s \o t, Len(s) + 1, Len(s \o t)) = t
<1>1. /\ s \o t \in Seq(S) /\ Len(s \o t) = Len(s) + Len(t)
      /\ \A i \in 1 .. Len(s) + Len(t) : (s \o t)[i] = IF i <= Len(s) THEN s[i] ELSE t[i - Len(s)]
      /\ Len(s) \in Nat /\ Len(t) \in Nat
  BY ConcatProperties, LenProperties
<1>2. SubSeq(s \o t, 1, Len(s)) = s
  BY <1>1
<1>3. SubSeq(s \o t, Len(s) + 1, Len(s \o t)) = t
  BY <1>1
<1> QED
  BY <1>1, <1>2, <1>3

\* The numbers of a list of entries, and of two lists put together.
LEMMA IndicesConcat ==
  ASSUME NEW s \in Seq(OutEntry), NEW t \in Seq(OutEntry)
  PROVE  /\ Indices(s) \in Seq(Nat \ {0}) /\ Len(Indices(s)) = Len(s)
         /\ Indices(t) \in Seq(Nat \ {0})
         /\ Indices(s \o t) = Indices(s) \o Indices(t)
<1>1. /\ DOMAIN s = 1 .. Len(s) /\ DOMAIN t = 1 .. Len(t) /\ Len(s) \in Nat /\ Len(t) \in Nat
      /\ \A k \in 1 .. Len(s) : s[k] \in OutEntry
      /\ \A k \in 1 .. Len(t) : t[k] \in OutEntry
  BY LenProperties
<1>2. /\ Indices(s) \in Seq(Nat \ {0}) /\ Len(Indices(s)) = Len(s)
      /\ \A k \in 1 .. Len(s) : Indices(s)[k] = s[k].idx
      /\ Indices(t) \in Seq(Nat \ {0}) /\ Len(Indices(t)) = Len(t)
      /\ \A k \in 1 .. Len(t) : Indices(t)[k] = t[k].idx
  BY <1>1 DEF Indices, OutEntry
<1> DEFINE n == Indices(s)  m == Indices(t)
<1>3. /\ DOMAIN (s \o t) = 1 .. Len(s) + Len(t)
      /\ \A i \in 1 .. Len(s) + Len(t) :
           (s \o t)[i] = IF i <= Len(s) THEN s[i] ELSE t[i - Len(s)]
  BY LenProperties, ConcatProperties
<1> HIDE DEF n, m
<1>4. n \in Seq(Nat \ {0}) /\ m \in Seq(Nat \ {0}) /\ Len(n) = Len(s) /\ Len(m) = Len(t)
  BY <1>2 DEF n, m
<1>5. /\ n \o m \in Seq(Nat \ {0}) /\ Len(n \o m) = Len(n) + Len(m)
      /\ \A i \in 1 .. Len(n) + Len(m) :
           (n \o m)[i] = IF i <= Len(n) THEN n[i] ELSE m[i - Len(n)]
  BY <1>4, ConcatProperties
<1>6. n \o m \in [1 .. Len(s) + Len(t) -> Nat \ {0}]
  BY <1>4, <1>5, LenProperties
<1>7. n \o m = [i \in 1 .. Len(s) + Len(t) |-> (n \o m)[i]]
  BY <1>6
<1>8. ASSUME NEW i \in 1 .. Len(s) + Len(t) PROVE (n \o m)[i] = (s \o t)[i].idx
  <2>1. CASE i <= Len(s)
    <3>1. i \in 1 .. Len(s)
      BY <1>1, <2>1
    <3>2. (n \o m)[i] = n[i] /\ (s \o t)[i] = s[i]
      BY <1>3, <1>4, <1>5, <2>1
    <3> QED
      BY <1>2, <3>1, <3>2 DEF n
  <2>2. CASE ~ (i <= Len(s))
    <3>1. i - Len(s) \in 1 .. Len(t)
      BY <1>1, <2>2
    <3>2. (n \o m)[i] = m[i - Len(s)] /\ (s \o t)[i] = t[i - Len(s)]
      BY <1>3, <1>4, <1>5, <2>2
    <3> QED
      BY <1>2, <3>1, <3>2 DEF m
  <2> QED
    BY <2>1, <2>2
<1>9. Indices(s \o t) = n \o m
  BY <1>3, <1>7, <1>8 DEF Indices
<1> QED
  BY <1>2, <1>9 DEF n, m

\* Two lists in cycle order, the first before the second, are in cycle order.
LEMMA ConcatCycles ==
  ASSUME NEW s \in Seq(OutEntry), NEW t \in Seq(OutEntry),
         InCycleOrder(s), InCycleOrder(t),
         \A k \in DOMAIN s, m \in DOMAIN t : s[k].cycle <= t[m].cycle
  PROVE  InCycleOrder(s \o t)
<1>1. /\ DOMAIN s = 1 .. Len(s) /\ DOMAIN t = 1 .. Len(t) /\ Len(s) \in Nat /\ Len(t) \in Nat
      /\ Len(s \o t) = Len(s) + Len(t)
      /\ \A i \in 1 .. Len(s) + Len(t) :
           (s \o t)[i] = IF i <= Len(s) THEN s[i] ELSE t[i - Len(s)]
  BY LenProperties, ConcatProperties
<1>2. SUFFICES ASSUME NEW i \in 1 .. Len(s) + Len(t), NEW j \in 1 .. Len(s) + Len(t), i < j
               PROVE  (s \o t)[i].cycle <= (s \o t)[j].cycle
  BY <1>1 DEF InCycleOrder
<1>3. CASE j <= Len(s)
  <2>1. i \in 1 .. Len(s) /\ j \in 1 .. Len(s) /\ (s \o t)[i] = s[i] /\ (s \o t)[j] = s[j]
    BY <1>1, <1>2, <1>3
  <2> QED
    BY <1>2, <2>1 DEF InCycleOrder
<1>4. CASE i <= Len(s) /\ ~ (j <= Len(s))
  <2>1. /\ i \in DOMAIN s /\ j - Len(s) \in DOMAIN t
        /\ (s \o t)[i] = s[i] /\ (s \o t)[j] = t[j - Len(s)]
    BY <1>1, <1>4
  <2> QED
    BY <2>1
<1>5. CASE ~ (i <= Len(s))
  <2>1. /\ i - Len(s) \in 1 .. Len(t) /\ (s \o t)[i] = t[i - Len(s)]
        /\ j - Len(s) \in 1 .. Len(t) /\ (s \o t)[j] = t[j - Len(s)]
        /\ i - Len(s) < j - Len(s)
    BY <1>1, <1>2, <1>5
  <2> QED
    BY <2>1 DEF InCycleOrder
<1> QED
  BY <1>3, <1>4, <1>5
-----------------------------------------------------------------------------
(***************************************************************************)
(* A flush.                                                                *)
(***************************************************************************)

\* What the types say of the windows, the entries and the held lines.
LEMMA RankFacts ==
  ASSUME PageType, RankType
  PROVE  /\ Len(trace) \in Nat /\ NWindows \in Nat
         /\ \A i \in 1 .. Len(trace) : i \in Nat \ {0} /\ trace[i].cycle \in Nat
         /\ \A w \in 1 .. NWindows : windows[w].begin \in Nat /\ windows[w].end \in Nat
                                     /\ windows[w].begin <= windows[w].end
         /\ Entries(trace) \subseteq 1 .. Len(trace)
         /\ how.gap \in Nat
<1>1. Len(trace) \in Nat /\ Len(windows) \in Nat /\ how \in [method : {"targeted", "blind"}, gap : Nat]
  BY DEF PageType
<1>2. \A i \in 1 .. Len(trace) : trace[i] \in Line
  BY DEF PageType
<1>3. \A w \in 1 .. Len(windows) : windows[w] \in Windows(Nat)
  BY DEF PageType
<1> QED
  BY <1>1, <1>2, <1>3 DEF NWindows, Line, Windows, Entries

\* The burst has the requests that are held, each once, and all at the window's first
\* cycle if there is no gap.
LEMMA BurstFacts ==
  ASSUME PageType, RankType, PlaceInv, cur \in 1 .. NWindows
  PROVE  /\ Burst \in Seq(OutEntry)
         /\ Idxs(Indices(Burst)) = Idxs(reads) \cup Idxs(writes)
         /\ Distinct(Indices(Burst))
         /\ how.gap = 0 => \A k \in DOMAIN Burst : Burst[k].cycle = windows[cur].begin
<1> DEFINE r == SortedSeq(trace, reads)  w == SortedSeq(trace, writes)
<1>1. /\ trace \in Seq(Line) /\ reads \in Seq(Nat \ {0}) /\ writes \in Seq(Nat \ {0})
      /\ Distinct(reads) /\ Distinct(writes) /\ Idxs(reads) \cap Idxs(writes) = {}
      /\ \A i \in Idxs(reads) \cup Idxs(writes) : i \in 1 .. Len(trace)
  BY RankFacts DEF PageType, RankType, PlaceInv
<1>2. r \in Seq(Nat \ {0}) /\ Idxs(r) = Idxs(reads) /\ Distinct(r)
  BY <1>1, SortedSeqFacts
<1>3. w \in Seq(Nat \ {0}) /\ Idxs(w) = Idxs(writes) /\ Distinct(w)
  BY <1>1, SortedSeqFacts
<1> DEFINE p == r \o w
<1> HIDE DEF r, w
<1>4. p \in Seq(Nat \ {0}) /\ Idxs(p) = Idxs(reads) \cup Idxs(writes) /\ Distinct(p)
  BY <1>1, <1>2, <1>3, ConcatDistinct
<1>5. Burst = [k \in DOMAIN p |-> Emit(p[k], windows[cur].begin + (k - 1) * how.gap)]
  BY DEF Burst, ReadsThenWrites, r, w
<1> HIDE DEF p
<1>6. DOMAIN p = 1 .. Len(p) /\ Len(p) \in Nat /\ \A k \in 1 .. Len(p) : p[k] \in Nat \ {0}
  BY <1>4
<1>7. windows[cur].begin \in Nat /\ how.gap \in Nat
  BY RankFacts
<1>8. ASSUME NEW k \in 1 .. Len(p)
      PROVE  Emit(p[k], windows[cur].begin + (k - 1) * how.gap) \in OutEntry
  <2>1. k - 1 \in Nat
    BY <1>6
  <2>2. (k - 1) * how.gap \in Nat
    BY <1>7, <2>1
  <2> QED
    BY <1>6, <1>7, <2>2 DEF Emit, OutEntry
<1>9. Burst \in Seq(OutEntry) /\ DOMAIN Burst = DOMAIN p
  BY <1>5, <1>6, <1>8
<1>10. Indices(Burst) = p
  <2>1. \A k \in DOMAIN p : Burst[k].idx = p[k]
    BY <1>5 DEF Emit
  <2>2. p = [k \in DOMAIN p |-> p[k]]
    BY <1>4
  <2> QED
    BY <1>9, <2>1, <2>2 DEF Indices
<1>11. ASSUME how.gap = 0, NEW k \in DOMAIN Burst PROVE Burst[k].cycle = windows[cur].begin
  <2>1. k \in DOMAIN p /\ Burst[k].cycle = windows[cur].begin + (k - 1) * how.gap
    BY <1>5, <1>9 DEF Emit
  <2>2. (k - 1) * 0 = 0
    BY <1>6, <2>1
  <2> QED
    BY <1>7, <1>11, <2>1, <2>2
<1> QED
  BY <1>4, <1>9, <1>10, <1>11

\* A flush appends the burst and the window's file, and forgets them.
LEMMA FlushFacts ==
  ASSUME PageType, RankType, PlaceInv, cur \in 1 .. NWindows, Flush
  PROVE  /\ out' = out \o (Burst \o temp) /\ Burst \o temp \in Seq(OutEntry)
         /\ out' \in Seq(OutEntry)
         /\ Idxs(Indices(Burst \o temp))
              = Idxs(reads) \cup Idxs(writes) \cup Idxs(Indices(temp))
         /\ Distinct(Indices(Burst \o temp))
<1>1. /\ Burst \in Seq(OutEntry) /\ temp \in Seq(OutEntry) /\ out \in Seq(OutEntry)
      /\ Idxs(Indices(Burst)) = Idxs(reads) \cup Idxs(writes) /\ Distinct(Indices(Burst))
      /\ Distinct(Indices(temp))
      /\ (Idxs(reads) \cup Idxs(writes)) \cap Idxs(Indices(temp)) = {}
  BY BurstFacts DEF RankType, PlaceInv
<1>2. out' = out \o Burst \o temp
  BY DEF Flush
<1>3. out' = out \o (Burst \o temp)
  BY <1>1, <1>2, ConcatAssociative
<1>4. Burst \o temp \in Seq(OutEntry) /\ out \o (Burst \o temp) \in Seq(OutEntry)
  BY <1>1, ConcatProperties
<1>5. /\ Indices(Burst \o temp) = Indices(Burst) \o Indices(temp)
      /\ Indices(Burst) \in Seq(Nat \ {0}) /\ Indices(temp) \in Seq(Nat \ {0})
  BY <1>1, IndicesConcat
<1>6. /\ Idxs(Indices(Burst) \o Indices(temp)) = Idxs(Indices(Burst)) \cup Idxs(Indices(temp))
      /\ Distinct(Indices(Burst) \o Indices(temp))
  BY <1>1, <1>5, ConcatDistinct
<1> QED
  BY <1>1, <1>3, <1>4, <1>5, <1>6
-----------------------------------------------------------------------------
(***************************************************************************)
(* The steps of the rewriters.                                             *)
(***************************************************************************)

\* A list with one more element.
LEMMA AppendDistinct ==
  ASSUME NEW S, NEW s \in Seq(S), NEW x \in S
  PROVE  /\ Append(s, x) \in Seq(S) /\ Idxs(Append(s, x)) = Idxs(s) \cup {x}
         /\ Distinct(s) /\ x \notin Idxs(s) => Distinct(Append(s, x))
<1>1. /\ Append(s, x) \in Seq(S) /\ DOMAIN s = 1 .. Len(s) /\ Len(s) \in Nat
      /\ DOMAIN Append(s, x) = 1 .. Len(s) + 1
      /\ \A i \in 1 .. Len(s) : Append(s, x)[i] = s[i]
      /\ Append(s, x)[Len(s) + 1] = x
  BY AppendProperties, LenProperties
<1>2. \A i \in DOMAIN Append(s, x) :
        \/ i \in DOMAIN s /\ Append(s, x)[i] = s[i]
        \/ i = Len(s) + 1 /\ Append(s, x)[i] = x
  BY <1>1
<1>3. /\ \A i \in DOMAIN s : i \in DOMAIN Append(s, x) /\ Append(s, x)[i] = s[i]
      /\ Len(s) + 1 \in DOMAIN Append(s, x)
  BY <1>1
<1>4. Idxs(Append(s, x)) = Idxs(s) \cup {x}
  <2>1. \A y \in Idxs(Append(s, x)) : y \in Idxs(s) \cup {x}
    BY <1>2 DEF Idxs
  <2>2. \A y \in Idxs(s) : y \in Idxs(Append(s, x))
    BY <1>3 DEF Idxs
  <2>3. x \in Idxs(Append(s, x))
    BY <1>1, <1>3 DEF Idxs
  <2> QED
    BY <2>1, <2>2, <2>3
<1>5. ASSUME Distinct(s), x \notin Idxs(s),
             NEW i \in DOMAIN Append(s, x), NEW j \in DOMAIN Append(s, x),
             Append(s, x)[i] = Append(s, x)[j]
      PROVE  i = j
  <2>1. \A k \in DOMAIN s : s[k] # x
    BY <1>5 DEF Idxs
  <2> QED
    BY <1>2, <1>5, <2>1 DEF Distinct
<1> QED
  BY <1>1, <1>4, <1>5 DEF Distinct

\* The numbers of a list with one more entry.
LEMMA AppendIndices ==
  ASSUME NEW s \in Seq(OutEntry), NEW l \in OutEntry
  PROVE  /\ Append(s, l) \in Seq(OutEntry)
         /\ Indices(Append(s, l)) = Append(Indices(s), l.idx)
         /\ Indices(s) \in Seq(Nat \ {0}) /\ l.idx \in Nat \ {0}
<1>1. l.idx \in Nat \ {0}
  BY DEF OutEntry
<1>2. /\ Append(s, l) \in Seq(OutEntry) /\ DOMAIN s = 1 .. Len(s) /\ Len(s) \in Nat
      /\ DOMAIN Append(s, l) = 1 .. Len(s) + 1
      /\ \A i \in 1 .. Len(s) : Append(s, l)[i] = s[i]
      /\ Append(s, l)[Len(s) + 1] = l
  BY AppendProperties, LenProperties
<1>3. Indices(s) \in Seq(Nat \ {0}) /\ Len(Indices(s)) = Len(s)
      /\ \A i \in 1 .. Len(s) : Indices(s)[i] = s[i].idx
  BY <1>2, IndicesConcat DEF Indices
<1>4. /\ DOMAIN Append(Indices(s), l.idx) = 1 .. Len(s) + 1
      /\ \A i \in 1 .. Len(s) : Append(Indices(s), l.idx)[i] = s[i].idx
      /\ Append(Indices(s), l.idx)[Len(s) + 1] = l.idx
      /\ Append(Indices(s), l.idx) \in Seq(Nat \ {0})
  BY <1>1, <1>2, <1>3, AppendProperties, LenProperties
<1>5. \A i \in 1 .. Len(s) + 1 : Append(Indices(s), l.idx)[i] = Append(s, l)[i].idx
  <2>1. \A i \in 1 .. Len(s) + 1 : i \in 1 .. Len(s) \/ i = Len(s) + 1
    BY <1>2
  <2> QED
    BY <1>2, <1>4, <2>1
<1>6. Append(Indices(s), l.idx) = [i \in 1 .. Len(s) + 1 |-> Append(Indices(s), l.idx)[i]]
  BY <1>4
<1> QED
  BY <1>1, <1>2, <1>3, <1>5, <1>6 DEF Indices

\* What a step of the rewriters leaves alone.
LEMMA SameInput ==
  ASSUME UNCHANGED input
  PROVE  /\ trace' = trace /\ windows' = windows /\ how' = how
         /\ NWindows' = NWindows /\ Entries(trace)' = Entries(trace)
         /\ KeepsOrder' = KeepsOrder
BY DEF input, NWindows, Entries, KeepsOrder, OnlyRequests, InCycleOrder

\* Where a line goes: into one of the lists, the window's file, or the output.
LEMMA Placed ==
  ASSUME PageType, RankType, CursorInv, PlaceEntry
  PROVE  /\ pos \in Entries(trace) /\ UNCHANGED input /\ Copied(pos) \in OutEntry
         /\ Copied(pos).idx = pos /\ Copied(pos).cycle = trace[pos].cycle
         /\ pc = "line" /\ pc' = "read" /\ pos' = pos + 1
         /\ cur = next /\ UNCHANGED <<cur, next>>
         /\ \/ reads' = Append(reads, pos) /\ UNCHANGED <<writes, temp, out>>
            \/ writes' = Append(writes, pos) /\ UNCHANGED <<reads, temp, out>>
            \/ /\ temp' = Append(temp, Copied(pos)) /\ UNCHANGED <<reads, writes, out>>
               /\ InCurrent(trace[pos].cycle)
            \/ /\ out' = Append(out, Copied(pos)) /\ UNCHANGED <<reads, writes, temp>>
               /\ how.method = "blind" /\ trace[pos].op \in {"READ", "WRITE"}
                    => ~ InCurrent(trace[pos].cycle)
               /\ how.method = "targeted" => ~ InCurrent(trace[pos].cycle)
<1>1. pos \in Entries(trace) /\ pc = "line" /\ cur = next
  BY DEF PlaceEntry, CursorInv
<1>2. pos \in Nat \ {0} /\ trace[pos].cycle \in Nat
  BY <1>1, RankFacts
<1>3. Copied(pos) \in OutEntry /\ Copied(pos).idx = pos /\ Copied(pos).cycle = trace[pos].cycle
  BY <1>2 DEF Copied, Emit, OutEntry
<1> HIDE DEF Copied
<1> QED
  BY <1>1, <1>3 DEF PlaceEntry, Spills, Absorbed

\* A step keeps the types.
LEMMA RankTypeNext ==
  ASSUME PageType, RankType, CursorInv, PlaceInv, Step
  PROVE  RankType'
<1>1. /\ Len(trace) \in Nat /\ NWindows \in Nat /\ Entries(trace) \subseteq 1 .. Len(trace)
  BY RankFacts
<1>2. UNCHANGED input
  BY DEF Step, SkipBlank, ReadEntry, FlushPassed, PlaceEntry, EndOfTrace, FlushTail, Finish, Flush
<1>3. trace' = trace /\ NWindows' = NWindows
  BY <1>2, SameInput
<1>4. CASE SkipBlank \/ ReadEntry \/ EndOfTrace \/ Finish
  BY <1>1, <1>3, <1>4 DEF SkipBlank, ReadEntry, EndOfTrace, Finish, RankType
<1>5. CASE FlushPassed \/ FlushTail
  <2>1. Flush /\ cur \in 1 .. NWindows
    BY <1>1, <1>5 DEF FlushPassed, FlushTail, RankType
  <2>2. out' \in Seq(OutEntry)
    BY <2>1, FlushFacts
  <2>3. cur + 1 \in 1 .. NWindows + 1
    BY <1>1, <2>1
  <2>4. /\ temp' = << >> /\ reads' = << >> /\ writes' = << >> /\ cur' = cur + 1
        /\ pc' = pc /\ pos' = pos /\ next' = next
    BY <2>1 DEF Flush
  <2>5. << >> \in Seq(OutEntry) /\ << >> \in Seq(Nat \ {0})
    OBVIOUS
  <2> QED
    BY <1>3, <2>2, <2>3, <2>4, <2>5 DEF RankType
<1>6. CASE PlaceEntry
  <2>1. /\ pos \in Nat \ {0} /\ pos \in 1 .. Len(trace) /\ Copied(pos) \in OutEntry
        /\ pc' = "read" /\ pos' = pos + 1 /\ UNCHANGED <<cur, next>>
    BY <1>1, <1>6, Placed
  <2>2. /\ Append(reads, pos) \in Seq(Nat \ {0}) /\ Append(writes, pos) \in Seq(Nat \ {0})
        /\ Append(temp, Copied(pos)) \in Seq(OutEntry)
        /\ Append(out, Copied(pos)) \in Seq(OutEntry)
    BY <2>1, AppendProperties DEF RankType
  <2>3. /\ reads' \in {reads, Append(reads, pos)} /\ writes' \in {writes, Append(writes, pos)}
        /\ temp' \in {temp, Append(temp, Copied(pos))} /\ out' \in {out, Append(out, Copied(pos))}
    BY <1>6, Placed
  <2>4. reads' \in Seq(Nat \ {0}) /\ writes' \in Seq(Nat \ {0})
        /\ temp' \in Seq(OutEntry) /\ out' \in Seq(OutEntry)
    BY <2>2, <2>3 DEF RankType
  <2>5. pos + 1 \in 1 .. Len(trace) + 1
    BY <1>1, <2>1
  <2> QED
    BY <1>3, <2>1, <2>4, <2>5 DEF RankType
<1> QED
  BY <1>4, <1>5, <1>6 DEF Step

\* advance_window goes to the first window that is not over; the flushes then catch up.
LEMMA CursorNext ==
  ASSUME PageType, RankType, CursorInv, Step
  PROVE  CursorInv'
<1>1. /\ Len(trace) \in Nat /\ NWindows \in Nat /\ cur \in Nat /\ next \in Nat
      /\ pos \in 1 .. Len(trace) + 1
  BY RankFacts DEF RankType
<1>2. UNCHANGED input
  BY DEF Step, SkipBlank, ReadEntry, FlushPassed, PlaceEntry, EndOfTrace, FlushTail, Finish, Flush
<1>3. trace' = trace /\ windows' = windows /\ NWindows' = NWindows /\ Entries(trace)' = Entries(trace)
  BY <1>2, SameInput
<1>4. CASE pc' # "line"
  BY <1>4 DEF CursorInv
<1>5. CASE ReadEntry
  <2>1. /\ pos' = pos /\ cur' = cur /\ pos \in Entries(trace)
        /\ next' \in cur .. NWindows + 1 /\ Advances(trace[pos].cycle, cur, next')
    BY <1>1, <1>5 DEF ReadEntry, Entries
  <2>2. PICK n \in cur .. NWindows + 1 : n = next' /\ Advances(trace[pos].cycle, cur, n)
    BY <2>1
  <2>3. cur <= n
    BY <1>1
  <2>4. /\ \A w \in cur .. n - 1 : trace[pos].cycle > windows[w].end
        /\ n <= NWindows => trace[pos].cycle <= windows[n].end
    BY <2>2 DEF Advances
  <2> QED
    BY <1>3, <2>1, <2>2, <2>3, <2>4 DEF CursorInv
<1>6. CASE FlushPassed
  <2>1. /\ pc = "line" /\ cur < next /\ cur' = cur + 1
        /\ UNCHANGED <<pos, next>>
    BY <1>6 DEF FlushPassed, Flush
  <2>2. cur' <= next' /\ cur' .. next' - 1 \subseteq cur .. next - 1
    BY <1>1, <2>1
  <2> QED
    BY <1>3, <2>1, <2>2 DEF CursorInv
<1> QED
  BY <1>4, <1>5, <1>6
     DEF Step, SkipBlank, PlaceEntry, EndOfTrace, FlushTail, Finish, Flush

\* The empty lists.
LEMMA NoLine ==
  /\ Indices(<< >>) = << >> /\ Idxs(<< >>) = {} /\ Distinct(<< >>)
  /\ InCycleOrder(<< >>)
BY DEF Indices, Idxs, Distinct, InCycleOrder

\* A step holds only the line it reads, and a flush holds nothing.
LEMMA PlaceNext ==
  ASSUME PageType, RankType, CursorInv, PlaceInv, Step
  PROVE  PlaceInv'
<1>1. /\ Len(trace) \in Nat /\ Entries(trace) \subseteq 1 .. Len(trace) /\ pos \in Nat
      /\ reads \in Seq(Nat \ {0}) /\ writes \in Seq(Nat \ {0}) /\ temp \in Seq(OutEntry)
  BY RankFacts DEF RankType
<1>2. UNCHANGED input
  BY DEF Step, SkipBlank, ReadEntry, FlushPassed, PlaceEntry, EndOfTrace, FlushTail, Finish, Flush
<1>3. Entries(trace)' = Entries(trace)
  BY <1>2, SameInput
<1> DEFINE H == Idxs(reads) \cup Idxs(writes) \cup Idxs(Indices(temp))
<1>4. /\ \A i \in H : i \in Entries(trace) /\ i < pos
      /\ Distinct(reads) /\ Distinct(writes) /\ Distinct(Indices(temp))
      /\ Idxs(reads) \cap Idxs(writes) = {}
      /\ (Idxs(reads) \cup Idxs(writes)) \cap Idxs(Indices(temp)) = {}
  BY DEF PlaceInv
<1>5. \A i \in H : i \in Nat
  BY <1>1, <1>4
<1>6. CASE SkipBlank \/ ReadEntry \/ EndOfTrace \/ Finish
  <2>1. UNCHANGED <<reads, writes, temp>> /\ pos' \in {pos, pos + 1}
    BY <1>6 DEF SkipBlank, ReadEntry, EndOfTrace, Finish
  <2>2. \A i \in H : i < pos'
    BY <1>1, <1>4, <1>5, <2>1
  <2> QED
    BY <1>3, <1>4, <2>1, <2>2 DEF PlaceInv
<1>7. CASE FlushPassed \/ FlushTail
  <2>1. reads' = << >> /\ writes' = << >> /\ temp' = << >>
    BY <1>7 DEF FlushPassed, FlushTail, Flush
  <2> QED
    BY <2>1, NoLine DEF PlaceInv
<1>8. CASE PlaceEntry
  <2>1. /\ pos \in Entries(trace) /\ pos' = pos + 1 /\ pos \in Nat \ {0}
        /\ Copied(pos) \in OutEntry /\ Copied(pos).idx = pos
    BY <1>1, <1>8, Placed
  <2>2. pos \notin H
    BY <1>1, <1>4
  <2>3. \A i \in H \cup {pos} : i \in Entries(trace) /\ i < pos'
    BY <1>1, <1>4, <1>5, <2>1
  <2>4. CASE reads' = Append(reads, pos) /\ UNCHANGED <<writes, temp>>
    <3>1. Idxs(reads') = Idxs(reads) \cup {pos} /\ Distinct(reads')
      BY <1>1, <1>4, <2>1, <2>2, <2>4, AppendDistinct
    <3> QED
      BY <1>3, <1>4, <2>2, <2>3, <2>4, <3>1 DEF PlaceInv
  <2>5. CASE writes' = Append(writes, pos) /\ UNCHANGED <<reads, temp>>
    <3>1. Idxs(writes') = Idxs(writes) \cup {pos} /\ Distinct(writes')
      BY <1>1, <1>4, <2>1, <2>2, <2>5, AppendDistinct
    <3> QED
      BY <1>3, <1>4, <2>2, <2>3, <2>5, <3>1 DEF PlaceInv
  <2>6. CASE temp' = Append(temp, Copied(pos)) /\ UNCHANGED <<reads, writes>>
    <3>1. Indices(temp') = Append(Indices(temp), pos) /\ Indices(temp) \in Seq(Nat \ {0})
      BY <1>1, <2>1, <2>6, AppendIndices
    <3>2. Idxs(Indices(temp')) = Idxs(Indices(temp)) \cup {pos} /\ Distinct(Indices(temp'))
      BY <1>4, <2>1, <2>2, <3>1, AppendDistinct
    <3> QED
      BY <1>3, <1>4, <2>2, <2>3, <2>6, <3>2 DEF PlaceInv
  <2>7. CASE UNCHANGED <<reads, writes, temp>>
    BY <1>3, <1>4, <2>3, <2>7 DEF PlaceInv
  <2> QED
    BY <1>8, <2>4, <2>5, <2>6, <2>7, Placed
<1> QED
  BY <1>6, <1>7, <1>8 DEF Step

\* An entry of two lists put together is one of the first or one of the second.
LEMMA ConcatEntries ==
  ASSUME NEW s \in Seq(OutEntry), NEW t \in Seq(OutEntry), NEW k \in DOMAIN (s \o t)
  PROVE  (\E m \in DOMAIN s : (s \o t)[k] = s[m]) \/ (\E m \in DOMAIN t : (s \o t)[k] = t[m])
<1>1. /\ DOMAIN s = 1 .. Len(s) /\ DOMAIN t = 1 .. Len(t) /\ Len(s) \in Nat /\ Len(t) \in Nat
      /\ DOMAIN (s \o t) = 1 .. Len(s) + Len(t)
      /\ (s \o t)[k] = IF k <= Len(s) THEN s[k] ELSE t[k - Len(s)]
  BY LenProperties, ConcatProperties
<1>2. CASE k <= Len(s)
  BY <1>1, <1>2
<1>3. CASE ~ (k <= Len(s))
  <2>1. k - Len(s) \in DOMAIN t
    BY <1>1, <1>3
  <2> QED
    BY <1>1, <1>3, <2>1
<1> QED
  BY <1>2, <1>3

\* The lines of a flush are in cycle order and within the window.
LEMMA FlushInOrder ==
  ASSUME PageType, RankType, PlaceInv, OrderInv, KeepsOrder, cur \in 1 .. NWindows
  PROVE  /\ InCycleOrder(Burst \o temp)
         /\ \A k \in DOMAIN (Burst \o temp) : InWindow(windows[cur], (Burst \o temp)[k].cycle)
<1>1. /\ Burst \in Seq(OutEntry) /\ temp \in Seq(OutEntry)
      /\ \A k \in DOMAIN Burst : Burst[k].cycle = windows[cur].begin
  BY BurstFacts DEF RankType, KeepsOrder
<1>2. InCycleOrder(temp) /\ \A k \in DOMAIN temp : InWindow(windows[cur], temp[k].cycle)
  BY DEF OrderInv
<1>3. windows[cur].begin \in Nat /\ windows[cur].begin <= windows[cur].end
  BY RankFacts
<1>4. InCycleOrder(Burst)
  <2>1. DOMAIN Burst = 1 .. Len(Burst)
    BY <1>1
  <2> QED
    BY <1>1, <1>3, <2>1 DEF InCycleOrder
<1>5. \A k \in DOMAIN Burst, m \in DOMAIN temp : Burst[k].cycle <= temp[m].cycle
  BY <1>1, <1>2 DEF InWindow
<1>6. InCycleOrder(Burst \o temp)
  BY <1>1, <1>2, <1>4, <1>5, ConcatCycles
<1>7. \A k \in DOMAIN Burst : InWindow(windows[cur], Burst[k].cycle)
  BY <1>1, <1>3 DEF InWindow
<1>8. ASSUME NEW k \in DOMAIN (Burst \o temp)
      PROVE  InWindow(windows[cur], (Burst \o temp)[k].cycle)
  BY <1>1, <1>2, <1>7, ConcatEntries
<1> QED
  BY <1>6, <1>8

\* A line that joins a list is put at its end.
LEMMA AppendEntries ==
  ASSUME NEW s \in Seq(OutEntry), NEW l \in OutEntry
  PROVE  /\ InCycleOrder(s) /\ (\A k \in DOMAIN s : s[k].cycle <= l.cycle)
              => InCycleOrder(Append(s, l))
         /\ \A k \in DOMAIN Append(s, l) :
              (\E m \in DOMAIN s : Append(s, l)[k] = s[m]) \/ Append(s, l)[k] = l
<1>1. /\ DOMAIN s = 1 .. Len(s) /\ Len(s) \in Nat
      /\ DOMAIN Append(s, l) = 1 .. Len(s) + 1 /\ Len(Append(s, l)) = Len(s) + 1
      /\ \A i \in 1 .. Len(s) : Append(s, l)[i] = s[i]
      /\ Append(s, l)[Len(s) + 1] = l
  BY AppendProperties, LenProperties
<1>2. \A k \in DOMAIN Append(s, l) : k \in DOMAIN s \/ k = Len(s) + 1
  BY <1>1
<1>3. ASSUME InCycleOrder(s), \A k \in DOMAIN s : s[k].cycle <= l.cycle,
             NEW i \in 1 .. Len(s) + 1, NEW j \in 1 .. Len(s) + 1, i < j
      PROVE  Append(s, l)[i].cycle <= Append(s, l)[j].cycle
  <2>1. i \in 1 .. Len(s)
    BY <1>1, <1>3
  <2>2. CASE j \in 1 .. Len(s)
    BY <1>1, <1>3, <2>1, <2>2 DEF InCycleOrder
  <2>3. CASE j = Len(s) + 1
    BY <1>1, <1>3, <2>1, <2>3
  <2> QED
    BY <1>1, <2>2, <2>3
<1> QED
  BY <1>1, <1>2, <1>3 DEF InCycleOrder

\* The order is kept by every step.
LEMMA OrderNext ==
  ASSUME PageType, RankType, CursorInv, PlaceInv, OrderInv, Step
  PROVE  OrderInv'
<1>1. UNCHANGED input
  BY DEF Step, SkipBlank, ReadEntry, FlushPassed, PlaceEntry, EndOfTrace, FlushTail, Finish, Flush
<1>2. /\ trace' = trace /\ windows' = windows /\ NWindows' = NWindows
      /\ KeepsOrder' = KeepsOrder
  BY <1>1, SameInput
<1> SUFFICES ASSUME KeepsOrder
             PROVE  /\ InCycleOrder(out') /\ InCycleOrder(temp')
                    /\ \A k \in DOMAIN out' :
                         /\ cur' <= NWindows => out'[k].cycle <= windows[cur'].begin
                         /\ pc' \in {"read", "line"} =>
                              \E i \in 1 .. Len(trace) : Reached(i)' /\ out'[k].cycle <= trace[i].cycle
                    /\ \A k \in DOMAIN temp' :
                         /\ cur' <= NWindows /\ InWindow(windows[cur'], temp'[k].cycle)
                         /\ temp'[k].cycle = trace[temp'[k].idx].cycle
  BY <1>2 DEF OrderInv
<1>3. /\ InCycleOrder(out) /\ InCycleOrder(temp)
      /\ \A k \in DOMAIN out :
           /\ cur <= NWindows => out[k].cycle <= windows[cur].begin
           /\ pc \in {"read", "line"} =>
                \E i \in 1 .. Len(trace) : Reached(i) /\ out[k].cycle <= trace[i].cycle
      /\ \A k \in DOMAIN temp :
           /\ cur <= NWindows /\ InWindow(windows[cur], temp[k].cycle)
           /\ temp[k].cycle = trace[temp[k].idx].cycle
  BY DEF OrderInv
<1>4. /\ Len(trace) \in Nat /\ NWindows \in Nat /\ pos \in Nat /\ cur \in 1 .. NWindows + 1
      /\ Entries(trace) \subseteq 1 .. Len(trace)
      /\ \A i \in 1 .. Len(trace) : trace[i].cycle \in Nat
      /\ \A w \in 1 .. NWindows : windows[w].begin \in Nat /\ windows[w].end \in Nat
                                  /\ windows[w].begin <= windows[w].end
      /\ out \in Seq(OutEntry) /\ temp \in Seq(OutEntry)
      /\ \A k \in DOMAIN out : out[k].cycle \in Nat
      /\ \A k \in DOMAIN temp : temp[k].cycle \in Nat
  <2>1. out \in Seq(OutEntry) /\ temp \in Seq(OutEntry) /\ pos \in 1 .. Len(trace) + 1
        /\ cur \in 1 .. NWindows + 1
    BY DEF RankType
  <2>2. (\A k \in DOMAIN out : out[k] \in OutEntry) /\ \A k \in DOMAIN temp : temp[k] \in OutEntry
    BY <2>1
  <2>3. (\A k \in DOMAIN out : out[k].cycle \in Nat) /\ \A k \in DOMAIN temp : temp[k].cycle \in Nat
    BY <2>2 DEF OutEntry
  <2> QED
    BY <2>1, <2>3, RankFacts
<1>5. \A v_, w_ \in 1 .. NWindows : v_ < w_ => windows[v_].end <= windows[w_].begin
  BY DEF PageType, Successive, NWindows
<1>6. CASE SkipBlank \/ ReadEntry \/ EndOfTrace \/ Finish
  <2>1. /\ UNCHANGED <<out, temp, cur>> /\ pos' \in {pos, pos + 1}
        /\ pc' \in {"read", "line"} =>
             pc = "read" /\ (pc' = "read" => pos' = pos + 1)
    BY <1>6 DEF SkipBlank, ReadEntry, EndOfTrace, Finish
  <2>2. \A i \in 1 .. Len(trace) : pc = "read" /\ Reached(i) => i < pos
    BY DEF Reached
  <2>3. \A i \in 1 .. Len(trace) : i < pos => i < pos'
    BY <1>4, <2>1
  <2>4. \A i \in 1 .. Len(trace) : i < pos' => Reached(i)'
    BY <1>2 DEF Reached
  <2> QED
    BY <1>3, <2>1, <2>2, <2>3, <2>4
<1>7. CASE FlushPassed \/ FlushTail
  <2>0. /\ Flush /\ cur <= NWindows
        /\ pc \in {"read", "line"} => pc = "line" /\ cur < next
    <3>1. NWindows \in Nat /\ cur \in 1 .. NWindows + 1 /\ next \in 1 .. NWindows + 1
      BY <1>4 DEF RankType
    <3>2. CASE FlushPassed
      BY <3>1, <3>2 DEF FlushPassed
    <3>3. CASE FlushTail
      BY <3>3 DEF FlushTail
    <3> QED
      BY <1>7, <3>2, <3>3
  <2>1. /\ cur \in 1 .. NWindows /\ Flush /\ UNCHANGED <<pc, pos>>
        /\ pc \in {"read", "line"} => pc = "line" /\ cur < next
    <3>1. NWindows \in Nat /\ cur \in 1 .. NWindows + 1
      BY <1>4 DEF RankType
    <3>2. UNCHANGED <<pc, pos>>
      BY <2>0 DEF Flush
    <3> QED
      BY <2>0, <3>1, <3>2
  <2> DEFINE s == Burst \o temp
  <2>2. out' = out \o s /\ s \in Seq(OutEntry)
    BY <2>1, FlushFacts
  <2>3. InCycleOrder(s) /\ \A k \in DOMAIN s : InWindow(windows[cur], s[k].cycle)
    BY <2>1, FlushInOrder
  <2> HIDE DEF s
  <2>4. \A k \in DOMAIN s : /\ s[k].cycle \in Nat /\ windows[cur].begin <= s[k].cycle
                            /\ s[k].cycle <= windows[cur].end
    <3>1. \A k \in DOMAIN s : s[k] \in OutEntry
      BY <2>2
    <3> QED
      BY <2>3, <3>1 DEF InWindow, OutEntry
  <2>5. \A k \in DOMAIN out : out[k].cycle <= windows[cur].begin
    BY <1>3, <2>1
  <2>6. \A k \in DOMAIN out, m \in DOMAIN s : out[k].cycle <= s[m].cycle
    BY <1>4, <2>1, <2>4, <2>5
  <2>7. InCycleOrder(out')
    BY <1>3, <1>4, <2>2, <2>3, <2>6, ConcatCycles
  <2>8. temp' = << >> /\ cur' = cur + 1
    BY <2>1 DEF Flush
  <2>9. ASSUME cur' <= NWindows
        PROVE  /\ \A k \in DOMAIN out : out[k].cycle <= windows[cur'].begin
               /\ \A k \in DOMAIN s : s[k].cycle <= windows[cur'].begin
    <3>1. cur' \in 1 .. NWindows /\ cur < cur'
      BY <1>4, <2>1, <2>8, <2>9
    <3>2. windows[cur].end <= windows[cur'].begin /\ windows[cur'].begin \in Nat
      BY <1>4, <1>5, <2>1, <3>1
    <3>3. windows[cur].begin <= windows[cur].end /\ windows[cur].begin \in Nat /\ windows[cur].end \in Nat
      BY <1>4, <2>1
    <3> QED
      BY <1>4, <2>4, <2>5, <3>2, <3>3
  <2>10. ASSUME pc = "line", cur < next
         PROVE  /\ pos \in 1 .. Len(trace) /\ Reached(pos)
                /\ \A k \in DOMAIN s : s[k].cycle <= trace[pos].cycle
    <3>1. /\ pos \in Entries(trace)
          /\ \A w \in cur .. next - 1 : trace[pos].cycle > windows[w].end
      BY <2>10 DEF CursorInv
    <3>2. cur \in cur .. next - 1
      BY <1>4, <2>10 DEF RankType
    <3>3. pos \in 1 .. Len(trace) /\ trace[pos].cycle > windows[cur].end
      BY <1>4, <3>1, <3>2
    <3>4. windows[cur].end \in Nat /\ trace[pos].cycle \in Nat
      BY <1>4, <2>1, <3>3
    <3> QED
      BY <2>4, <2>10, <3>3, <3>4 DEF Reached
  <2>11. \A i \in 1 .. Len(trace) : Reached(i) => Reached(i)'
    BY <1>2, <2>1 DEF Reached
  <2>12. \A k \in DOMAIN temp' : FALSE
    BY <2>8
  <2>13. ASSUME NEW k \in DOMAIN out'
         PROVE  (\E m \in DOMAIN out : out'[k] = out[m]) \/ (\E m \in DOMAIN s : out'[k] = s[m])
    BY <1>4, <2>2, ConcatEntries
  <2>14. ASSUME NEW k \in DOMAIN out', cur' <= NWindows
         PROVE  out'[k].cycle <= windows[cur'].begin
    BY <2>9, <2>13, <2>14
  <2>15. ASSUME NEW k \in DOMAIN out', pc' \in {"read", "line"}
         PROVE  \E i \in 1 .. Len(trace) : Reached(i)' /\ out'[k].cycle <= trace[i].cycle
    <3>1. pc = "line" /\ cur < next
      BY <2>1, <2>15
    <3>2. \A m \in DOMAIN out :
            \E i \in 1 .. Len(trace) : Reached(i)' /\ out[m].cycle <= trace[i].cycle
      BY <1>3, <2>11, <3>1
    <3>3. \A m \in DOMAIN s :
            \E i \in 1 .. Len(trace) : Reached(i)' /\ s[m].cycle <= trace[i].cycle
      BY <2>10, <2>11, <3>1
    <3> QED
      BY <2>13, <3>2, <3>3
  <2> QED
    BY <2>7, <2>8, <2>12, <2>14, <2>15, NoLine
<1>8. CASE PlaceEntry
  <2> DEFINE l == Copied(pos)
  <2>1. /\ pos \in Entries(trace) /\ l \in OutEntry /\ l.idx = pos /\ l.cycle = trace[pos].cycle
        /\ pc = "line" /\ pc' = "read" /\ pos' = pos + 1 /\ cur' = cur /\ cur = next
    BY <1>8, Placed
  <2>2. pos \in 1 .. Len(trace) /\ trace[pos].cycle \in Nat
    BY <1>4, <2>1
  <2>3. \A i \in 1 .. Len(trace) : Reached(i) => i <= pos
    BY <1>4 DEF Reached
  <2>4. \A i \in 1 .. Len(trace) : i <= pos => i < pos'
    BY <1>4, <2>1
  <2>5. \A i \in 1 .. Len(trace) : i < pos' => Reached(i)'
    BY <1>2 DEF Reached
  <2>6. \A k \in DOMAIN out :
          \E i \in 1 .. Len(trace) : i <= pos /\ Reached(i)' /\ out[k].cycle <= trace[i].cycle
    BY <1>3, <2>1, <2>3, <2>4, <2>5
  <2>7. \A i \in 1 .. Len(trace) : i <= pos => trace[i].cycle <= trace[pos].cycle
    <3>1. \A i \in 1 .. Len(trace) : i < pos => trace[i].cycle <= trace[pos].cycle
      BY <2>2 DEF KeepsOrder, InCycleOrder
    <3> QED
      BY <2>2, <3>1
  <2>8. next <= NWindows => trace[pos].cycle <= windows[next].end
    BY <2>1 DEF CursorInv
  <2> HIDE DEF l
  <2>9. l \in OutEntry /\ out \in Seq(OutEntry) /\ temp \in Seq(OutEntry)
    BY <1>4, <2>1
  <2>10. CASE UNCHANGED <<temp, out>>
    BY <1>3, <2>1, <2>6, <2>10
  <2>11. CASE temp' = Append(temp, l) /\ UNCHANGED out /\ InCurrent(trace[pos].cycle)
    <3>1. \A k \in DOMAIN temp : temp[k].cycle <= l.cycle
      <4> SUFFICES ASSUME NEW k \in DOMAIN temp PROVE temp[k].cycle <= trace[pos].cycle
        BY <2>1
      <4>1. temp[k].idx \in Idxs(Indices(temp))
        BY DEF Idxs, Indices
      <4>2. temp[k].idx \in Entries(trace) /\ temp[k].idx < pos
        BY <4>1 DEF PlaceInv
      <4>3. temp[k].idx \in 1 .. Len(trace) /\ temp[k].idx <= pos
        BY <1>4, <4>2
      <4> QED
        BY <1>3, <2>7, <4>3
    <3>2. InCycleOrder(temp')
      BY <1>3, <2>9, <2>11, <3>1, AppendEntries
    <3>3. cur <= NWindows /\ InWindow(windows[cur], l.cycle)
      BY <2>1, <2>11 DEF InCurrent
    <3>4. ASSUME NEW k \in DOMAIN temp'
          PROVE  (\E m \in DOMAIN temp : temp'[k] = temp[m]) \/ temp'[k] = l
      BY <2>9, <2>11, AppendEntries
    <3>5. \A k \in DOMAIN temp' : InWindow(windows[cur], temp'[k].cycle)
                                  /\ temp'[k].cycle = trace[temp'[k].idx].cycle
      BY <1>3, <2>1, <3>3, <3>4
    <3> QED
      BY <1>3, <2>1, <2>6, <2>11, <3>2, <3>3, <3>5
  <2>12. CASE /\ out' = Append(out, l) /\ UNCHANGED temp
              /\ how.method = "blind" /\ trace[pos].op \in {"READ", "WRITE"}
                    => ~ InCurrent(trace[pos].cycle)
              /\ how.method = "targeted" => ~ InCurrent(trace[pos].cycle)
    <3>1. ~ InCurrent(trace[pos].cycle)
      <4>1. how.method \in {"targeted", "blind"}
        BY DEF PageType
      <4>2. how.method = "blind" => trace[pos].op \in {"READ", "WRITE"}
        BY <2>1 DEF KeepsOrder, OnlyRequests
      <4> QED
        BY <2>12, <4>1, <4>2
    <3>2. cur <= NWindows => l.cycle <= windows[cur].begin
      <4> SUFFICES ASSUME cur <= NWindows PROVE trace[pos].cycle <= windows[cur].begin
        BY <2>1
      <4>1. cur \in 1 .. NWindows /\ trace[pos].cycle <= windows[cur].end
        BY <1>4, <2>1, <2>8
      <4>2. ~ (windows[cur].begin <= trace[pos].cycle)
        BY <3>1, <4>1 DEF InCurrent, InWindow
      <4>3. windows[cur].begin \in Nat
        BY <1>4, <4>1
      <4> QED
        BY <2>2, <4>2, <4>3
    <3>3. \A k \in DOMAIN out : out[k].cycle <= l.cycle
      <4> SUFFICES ASSUME NEW k \in DOMAIN out PROVE out[k].cycle <= trace[pos].cycle
        BY <2>1
      <4>1. PICK i \in 1 .. Len(trace) : i <= pos /\ out[k].cycle <= trace[i].cycle
        BY <2>6
      <4>2. trace[i].cycle <= trace[pos].cycle /\ trace[i].cycle \in Nat /\ out[k].cycle \in Nat
        BY <1>4, <2>7, <4>1
      <4> QED
        BY <2>2, <4>1, <4>2
    <3>4. InCycleOrder(out')
      BY <1>3, <2>9, <2>12, <3>3, AppendEntries
    <3>5. ASSUME NEW k \in DOMAIN out'
          PROVE  (\E m \in DOMAIN out : out'[k] = out[m]) \/ out'[k] = l
      BY <2>9, <2>12, AppendEntries
    <3>6. \E i \in 1 .. Len(trace) : Reached(i)' /\ l.cycle <= trace[i].cycle
      <4>1. PICK i \in 1 .. Len(trace) : i = pos
        BY <2>2
      <4>2. Reached(i)'
        BY <2>2, <2>4, <2>5, <4>1
      <4> QED
        BY <2>1, <2>2, <4>1, <4>2
    <3>7. ASSUME NEW k \in DOMAIN out'
          PROVE  /\ cur <= NWindows => out'[k].cycle <= windows[cur].begin
                 /\ \E i \in 1 .. Len(trace) : Reached(i)' /\ out'[k].cycle <= trace[i].cycle
      BY <1>3, <2>2, <2>6, <3>2, <3>5, <3>6
    <3> QED
      BY <1>3, <2>1, <2>12, <3>4, <3>7
  <2> QED
    BY <1>8, <2>10, <2>11, <2>12, Placed DEF l
<1> QED
  BY <1>6, <1>7, <1>8 DEF Step
-----------------------------------------------------------------------------
(***************************************************************************)
(* The workload.                                                           *)
(***************************************************************************)

\* What a division leaves.
LEMMA DivisionFacts ==
  ASSUME NEW a \in Nat, NEW d \in Nat \ {0}
  PROVE  /\ a \div d \in Nat /\ a % d \in Nat
         /\ a % d < d /\ a = d * (a \div d) + (a % d)
OBVIOUS

\* A later tick is in no earlier cycle.
LEMMA DivisionMonotone ==
  ASSUME NEW a \in Nat, NEW b \in Nat, NEW d \in Nat \ {0}, a <= b
  PROVE  a \div d \in Nat /\ b \div d \in Nat /\ a \div d <= b \div d
<1>1. PICK p \in Nat, r \in Nat : p = a \div d /\ r < d /\ a = d * p + r
  BY DivisionFacts
<1>2. PICK q \in Nat, s \in Nat : q = b \div d /\ s < d /\ b = d * q + s
  BY DivisionFacts
<1>3. SUFFICES ASSUME p > q PROVE FALSE
  BY <1>1, <1>2
<1>4. PICK k \in Nat : p = q + 1 + k
  BY <1>3
<1>5. d * p = d * q + d + d * k
  BY <1>4
<1>6. d * q \in Nat /\ d * k \in Nat
  OBVIOUS
<1> HIDE <1>4
<1> QED
  BY <1>1, <1>2, <1>5, <1>6

\* What the workload accesses.
Request == Nat \X {"READ", "WRITE"}

\* Accesses make lines of the trace, and take time.
LEMMA AccessFacts ==
  ASSUME PageType, NEW s \in Seq(Request), NEW t, Access(s, t)
  PROVE  /\ trace' \in Seq(Line) /\ tick' \in Nat /\ tick <= tick'
         /\ UNCHANGED <<windows, how, pc, pos, cur, next, temp, reads, writes, out, perWindow>>
<1> DEFINE new == [k \in DOMAIN s |-> [addr |-> s[k][1], op |-> s[k][2],
                                       cycle |-> (tick + k - 1) \div div]]
<1>1. trace' = trace \o new /\ tick' = tick + Len(s)
  BY DEF Access
<1>2. DOMAIN s = 1 .. Len(s) /\ Len(s) \in Nat /\ tick \in Nat /\ div \in Nat \ {0}
      /\ trace \in Seq(Line)
  BY DEF PageType
<1>3. ASSUME NEW k \in 1 .. Len(s)
      PROVE  [addr |-> s[k][1], op |-> s[k][2], cycle |-> (tick + k - 1) \div div] \in Line
  <2>1. s[k] \in Request
    BY <1>3
  <2>2. s[k][1] \in Nat /\ s[k][2] \in {"READ", "WRITE"}
    BY <2>1 DEF Request
  <2>3. tick + k - 1 \in Nat
    BY <1>2
  <2>4. (tick + k - 1) \div div \in Nat
    BY <1>2, <2>3, DivisionFacts
  <2> QED
    BY <2>2, <2>4 DEF Line, Ops
<1>4. new \in Seq(Line)
  <2>1. \A k \in 1 .. Len(s) : new[k] \in Line
    BY <1>2, <1>3
  <2>2. DOMAIN new = 1 .. Len(s)
    BY <1>2
  <2>3. new = [k \in 1 .. Len(s) |-> new[k]]
    BY <1>2
  <2> HIDE DEF new
  <2> QED
    BY <1>2, <2>1, <2>3
<1> HIDE DEF new
<1>5. trace \o new \in Seq(Line)
  BY <1>2, <1>4, ConcatProperties
<1>6. UNCHANGED <<windows, how, pc, pos, cur, next, temp, reads, writes, out, perWindow>>
  BY Zenon DEF Access
<1>7. tick' \in Nat /\ tick <= tick'
  BY <1>1, <1>2
<1> QED
  BY <1>1, <1>5, <1>6, <1>7

\* The addresses.
LEMMA Addresses ==
  /\ \A n \in Nat : RankA(n) \in Nat /\ RankB(n) \in Nat /\ OldRank(n) \in Nat /\ NewRank(n) \in Nat
  /\ RowPtr \in Nat /\ ColIdx \in Nat /\ OutDeg \in Nat /\ Acc \in Nat /\ Code \in Nat
<1>1. /\ Regions.rank_a.lo \in Nat /\ Regions.rank_b.lo \in Nat /\ NODES \in Nat
  BY PageRankAssumption
<1>2. \A n \in Nat : RankA(n) \in Nat /\ RankB(n) \in Nat
  BY <1>1 DEF RankA, RankB
<1>3. Behind \in Nat
  <2>1. RankA(NODES) \in Nat /\ RankB(NODES) \in Nat
    BY <1>1, <1>2
  <2> QED
    BY <2>1 DEF Behind
<1>4. \A n \in Nat : OldRank(n) \in {RankA(n), RankB(n)} /\ NewRank(n) \in {RankA(n), RankB(n)}
  BY DEF OldRank, NewRank
<1>5. RowPtr \in Nat /\ ColIdx \in Nat /\ OutDeg \in Nat /\ Acc \in Nat /\ Code \in Nat
  BY <1>3 DEF RowPtr, ColIdx, OutDeg, Acc, Code
<1> QED
  BY <1>2, <1>4, <1>5

\* The edges of a node are edges.
LEMMA EdgeOfNode ==
  ASSUME NEW n \in Nat, NEW k \in Nat, n < NODES, k < RowStart(n + 1)
  PROVE  k \in Edges
<1>1. NODES \in Nat /\ DEG \in Nat
  BY PageRankAssumption
<1>2. PICK d \in Nat : NODES = n + 1 + d
  BY <1>1
<1>3. NODES * DEG = (n + 1) * DEG + d * DEG
  BY <1>1, <1>2
<1>4. d * DEG \in Nat /\ (n + 1) * DEG \in Nat
  BY <1>1
<1> HIDE <1>2
<1>5. k < NODES * DEG
  BY <1>3, <1>4 DEF RowStart
<1> QED
  BY <1>1, <1>3, <1>4, <1>5 DEF Edges

\* The requests of each step of the workload.
LEMMA Requests ==
  ASSUME PageType
  PROVE  /\ <<Write(RowPtr), Write(OutDeg), Write(ColIdx)>>
            \o [n \in 1 .. 2 * NODES |->
                  IF n % 2 = 1 THEN Write(RankA(n \div 2))
                               ELSE Write(RankB(n \div 2 - 1))] \in Seq(Request)
         /\ <<Read(Code), Read(Code)>> \in Seq(Request)
         /\ <<Read(RowPtr), Read(RowPtr), Write(Acc)>> \in Seq(Request)
         /\ \A n \in Nat : <<Read(ColIdx), Read(OutDeg), Read(OldRank(n)),
                             Read(Acc), Write(Acc)>> \in Seq(Request)
         /\ \A n \in Nat : <<Read(Acc), Write(NewRank(n))>> \in Seq(Request)
         /\ <<Read(Code), Read(Code), Read(Code)>>
            \o [n \in 1 .. NODES |-> Read(OldRank(n - 1))] \in Seq(Request)
<1>1. \A a \in Nat : Read(a) \in Request /\ Write(a) \in Request
  BY DEF Read, Write, Request
<1>2. /\ Read(Code) \in Request /\ Read(RowPtr) \in Request /\ Read(ColIdx) \in Request
      /\ Read(OutDeg) \in Request /\ Read(Acc) \in Request
      /\ Write(RowPtr) \in Request /\ Write(OutDeg) \in Request /\ Write(ColIdx) \in Request
      /\ Write(Acc) \in Request
      /\ \A n \in Nat : /\ Read(OldRank(n)) \in Request /\ Write(NewRank(n)) \in Request
                        /\ Write(RankA(n)) \in Request /\ Write(RankB(n)) \in Request
  BY <1>1, Addresses
<1>3. NODES \in Nat
  BY PageRankAssumption
<1> HIDE DEF Read, Write
<1>4. /\ <<Write(RowPtr), Write(OutDeg), Write(ColIdx)>> \in Seq(Request)
      /\ <<Read(Code), Read(Code), Read(Code)>> \in Seq(Request)
      /\ <<Read(Code), Read(Code)>> \in Seq(Request)
      /\ <<Read(RowPtr), Read(RowPtr), Write(Acc)>> \in Seq(Request)
      /\ \A n \in Nat : <<Read(ColIdx), Read(OutDeg), Read(OldRank(n)),
                          Read(Acc), Write(Acc)>> \in Seq(Request)
      /\ \A n \in Nat : <<Read(Acc), Write(NewRank(n))>> \in Seq(Request)
  BY <1>2
<1> DEFINE f == [n \in 1 .. 2 * NODES |->
                   IF n % 2 = 1 THEN Write(RankA(n \div 2)) ELSE Write(RankB(n \div 2 - 1))]
           g == [n \in 1 .. NODES |-> Read(OldRank(n - 1))]
<1>5. f \in Seq(Request)
  <2>1. ASSUME NEW n \in 1 .. 2 * NODES
        PROVE  n \div 2 \in Nat /\ (n % 2 # 1 => n \div 2 - 1 \in Nat)
    BY <1>3
  <2>2. \A n \in 1 .. 2 * NODES : f[n] \in Request
    BY <1>2, <2>1
  <2>3. DOMAIN f = 1 .. 2 * NODES /\ 2 * NODES \in Nat
    BY <1>3
  <2> HIDE DEF f
  <2>4. f = [n \in 1 .. 2 * NODES |-> f[n]]
    BY DEF f
  <2> QED
    BY <2>2, <2>3, <2>4
<1>6. g \in Seq(Request)
  BY <1>2, <1>3
<1> HIDE DEF f, g
<1>7. /\ <<Write(RowPtr), Write(OutDeg), Write(ColIdx)>> \o f \in Seq(Request)
      /\ <<Read(Code), Read(Code), Read(Code)>> \o g \in Seq(Request)
  BY <1>4, <1>5, <1>6, ConcatProperties
<1> QED
  BY <1>4, <1>7 DEF f, g

\* A window that is over when the iteration begins is over now.
LEMMA WindowsOver ==
  ASSUME PageType, WorkInv, at # "rewrite"
  PROVE  /\ \A k \in 1 .. NWindows : /\ windows[k].end \in Nat
                                     /\ windows[k].end <= tick \div div
         /\ begin \div div \in Nat /\ tick \div div \in Nat
         /\ begin \div div <= tick \div div /\ NWindows \in Nat
<1>1. /\ begin \in Nat /\ tick \in Nat /\ div \in Nat \ {0} /\ begin <= tick
      /\ \A k \in 1 .. NWindows :
           windows[k].end <= (IF at \in {"vertex", "edges"} THEN begin ELSE tick) \div div
  BY DEF PageType, WorkInv
<1>2. /\ begin \div div \in Nat /\ tick \div div \in Nat /\ begin \div div <= tick \div div
  BY <1>1, DivisionMonotone
<1>3. NWindows \in Nat /\ \A k \in 1 .. NWindows : windows[k].end \in Nat
  <2>1. \A k \in 1 .. Len(windows) : windows[k] \in Windows(Nat)
    BY DEF PageType
  <2> QED
    BY <2>1 DEF PageType, NWindows, Windows
<1>4. CASE at \in {"vertex", "edges"}
  <2>1. \A k \in 1 .. NWindows : windows[k].end <= begin \div div
    BY <1>1, <1>4
  <2> QED
    BY <1>2, <1>3, <2>1
<1>5. CASE ~ (at \in {"vertex", "edges"})
  <2>1. \A k \in 1 .. NWindows : windows[k].end <= tick \div div
    BY <1>1, <1>5
  <2> QED
    BY <1>2, <1>3, <2>1
<1> QED
  BY <1>4, <1>5

\* An access within an iteration, or between two.
LEMMA AccessKeeps ==
  ASSUME PageType, WorkInv, at # "rewrite", NEW s \in Seq(Request), NEW t, Access(s, t),
         UNCHANGED <<col_idx, div>>,
         at' \in {"init", "begin", "vertex", "edges", "rewrite"},
         iter' \in Nat, v' \in Nat, e' \in Nat,
         at' = "edges" => v' < NODES,
         \/ begin' = begin /\ at \in {"vertex", "edges"} /\ at' \in {"vertex", "edges"}
         \/ begin' = begin /\ at' \notin {"vertex", "edges"}
         \/ begin' = tick'
  PROVE  PageType' /\ WorkInv' /\ RewriterStart'
<1>1. /\ trace' \in Seq(Line) /\ tick' \in Nat /\ tick <= tick'
      /\ UNCHANGED <<windows, how, pc, pos, cur, next, temp, reads, writes, out, perWindow>>
  BY AccessFacts
<1>2. /\ windows \in Seq(Windows(Nat)) /\ Successive(windows)
      /\ how \in [method : {"targeted", "blind"}, gap : Nat]
      /\ begin \in Nat /\ tick \in Nat /\ div \in Nat \ {0} /\ begin <= tick /\ RewriterStart
      /\ col_idx \in [Edges -> Nodes]
  BY DEF PageType, WorkInv
<1>3. begin' \in Nat /\ begin' <= tick'
  BY <1>1, <1>2
<1>4. PageType'
  BY <1>1, <1>2, <1>3 DEF PageType, Edges, Nodes
<1>5. /\ \A k \in 1 .. NWindows : windows[k].end \in Nat /\ windows[k].end <= tick \div div
      /\ tick \div div \in Nat /\ begin \div div \in Nat
  BY WindowsOver
<1>6. tick \div div <= tick' \div div /\ tick' \div div \in Nat
  BY <1>1, <1>2, DivisionMonotone
<1>7. \A k \in 1 .. NWindows : windows[k].end <= tick' \div div
  BY <1>5, <1>6
<1>8. at \in {"vertex", "edges"} => \A k \in 1 .. NWindows : windows[k].end <= begin \div div
  BY DEF WorkInv
<1>9. \A k \in 1 .. NWindows :
        windows[k].end <= (IF at' \in {"vertex", "edges"} THEN begin' ELSE tick') \div div
  <2>1. CASE begin' = begin /\ at \in {"vertex", "edges"} /\ at' \in {"vertex", "edges"}
    BY <1>8, <2>1
  <2>2. CASE at' \notin {"vertex", "edges"}
    BY <1>7, <2>2
  <2>3. CASE begin' = tick'
    BY <1>7, <2>3
  <2> QED
    BY <2>1, <2>2, <2>3
<1>10. RewriterStart' /\ NWindows' = NWindows
  BY <1>1, <1>2 DEF RewriterStart, NWindows
<1>11. WorkInv'
  BY <1>1, <1>3, <1>9, <1>10 DEF WorkInv
<1> QED
  BY <1>4, <1>10, <1>11

\* The workload keeps the types, and adds a window that follows the others.
LEMMA WorkNext ==
  ASSUME PageType, WorkInv, Workload
  PROVE  PageType' /\ WorkInv' /\ RewriterStart'
<1>1. /\ NODES \in Nat /\ DEG \in Nat
      /\ iter \in Nat /\ v \in Nat /\ e \in Nat /\ col_idx \in [Edges -> Nodes]
      /\ at = "edges" => v < NODES
  BY PageRankAssumption DEF PageType, WorkInv
<1>2. CASE InitGraph
  <2>1. /\ at = "init" /\ at' = "begin" /\ UNCHANGED <<iter, v, e, col_idx, div, begin>>
    BY <1>2 DEF InitGraph
  <2> QED
    BY <1>1, <1>2, <2>1, Requests, AccessKeeps DEF InitGraph
<1>3. CASE WorkBegin
  <2>1. /\ at = "begin" /\ at' = "vertex" /\ begin' = tick' /\ v' = 0
        /\ Access(<<Read(Code), Read(Code)>>, iter)
        /\ UNCHANGED <<iter, e, col_idx, div>>
    BY <1>3 DEF WorkBegin
  <2>2. <<Read(Code), Read(Code)>> \in Seq(Request)
    BY Requests
  <2>3. /\ at # "rewrite" /\ at' \in {"init", "begin", "vertex", "edges", "rewrite"}
        /\ iter' \in Nat /\ v' \in Nat /\ e' \in Nat /\ (at' = "edges" => v' < NODES)
        /\ UNCHANGED <<col_idx, div>>
    BY <1>1, <2>1
  <2> QED
    BY <2>1, <2>2, <2>3, AccessKeeps
<1>4. CASE VertexStart
  <2>1. /\ at = "vertex" /\ v < NODES /\ at' = "edges" /\ e' = RowStart(v)
        /\ UNCHANGED <<iter, v, col_idx, div, begin>>
    BY <1>4 DEF VertexStart
  <2>2. e' \in Nat
    BY <1>1, <2>1 DEF RowStart
  <2> QED
    BY <1>1, <1>4, <2>1, <2>2, Requests, AccessKeeps DEF VertexStart
<1>5. CASE GatherEdge
  <2>1. /\ at = "edges" /\ e < RowStart(v + 1) /\ e' = e + 1
        /\ Access(<<Read(ColIdx), Read(OutDeg), Read(OldRank(col_idx[e])),
                    Read(Acc), Write(Acc)>>, iter)
        /\ UNCHANGED <<at, iter, v, col_idx, div, begin>>
    BY <1>5 DEF GatherEdge
  <2>2. e \in Edges
    BY <1>1, <2>1, EdgeOfNode
  <2>3. col_idx[e] \in Nat
    BY <1>1, <2>2 DEF Nodes
  <2>4. <<Read(ColIdx), Read(OutDeg), Read(OldRank(col_idx[e])),
          Read(Acc), Write(Acc)>> \in Seq(Request)
    BY <2>3, Requests
  <2>5. /\ at # "rewrite" /\ at' \in {"init", "begin", "vertex", "edges", "rewrite"}
        /\ iter' \in Nat /\ v' \in Nat /\ e' \in Nat /\ (at' = "edges" => v' < NODES)
        /\ UNCHANGED <<col_idx, div>> /\ begin' = begin
        /\ at \in {"vertex", "edges"} /\ at' \in {"vertex", "edges"}
    BY <1>1, <2>1
  <2> QED
    BY <2>1, <2>4, <2>5, AccessKeeps
<1>6. CASE StoreRank
  <2>1. /\ at = "edges" /\ at' = "vertex" /\ v' = v + 1
        /\ Access(<<Read(Acc), Write(NewRank(v))>>, iter)
        /\ UNCHANGED <<iter, e, col_idx, div, begin>>
    BY <1>6 DEF StoreRank
  <2>2. <<Read(Acc), Write(NewRank(v))>> \in Seq(Request)
    BY <1>1, Requests
  <2>3. /\ at # "rewrite" /\ at' \in {"init", "begin", "vertex", "edges", "rewrite"}
        /\ iter' \in Nat /\ v' \in Nat /\ e' \in Nat /\ (at' = "edges" => v' < NODES)
        /\ UNCHANGED <<col_idx, div>> /\ begin' = begin
        /\ at \in {"vertex", "edges"} /\ at' \in {"vertex", "edges"}
    BY <1>1, <2>1
  <2> QED
    BY <2>1, <2>2, <2>3, AccessKeeps
<1>7. CASE WorkEnd
  <2> DEFINE w == [id |-> iter, begin |-> begin \div div, end |-> tick \div div]
  <2>1. /\ at = "vertex" /\ at' = "begin" /\ windows' = Append(windows, w) /\ iter' = iter + 1
        /\ UNCHANGED <<trace, how, pc, pos, cur, next, temp, reads, writes, out, perWindow,
                       v, e, col_idx, div, tick, begin, made>>
    BY <1>7 DEF WorkEnd
  <2>2. /\ \A k \in 1 .. NWindows : windows[k].end \in Nat /\ windows[k].end <= tick \div div
        /\ begin \div div \in Nat /\ tick \div div \in Nat /\ begin \div div <= tick \div div
        /\ NWindows \in Nat
    BY <2>1, WindowsOver
  <2>3. w \in Windows(Nat)
    BY <1>1, <2>2 DEF Windows
  <2>4. \A k \in 1 .. NWindows : windows[k].end <= begin \div div
    BY <2>1 DEF WorkInv
  <2>5. w.begin = begin \div div /\ w.end = tick \div div
    OBVIOUS
  <2> HIDE DEF w
  <2>6. windows \in Seq(Windows(Nat)) /\ Successive(windows)
    BY DEF PageType
  <2>7. /\ windows' \in Seq(Windows(Nat)) /\ Len(windows') = NWindows + 1
        /\ \A k \in 1 .. NWindows : windows'[k] = windows[k]
        /\ windows'[NWindows + 1] = w
    BY <2>1, <2>3, <2>6, AppendProperties DEF NWindows
  <2>8. ASSUME NEW k \in 1 .. NWindows + 1, NEW m \in 1 .. NWindows + 1, k < m
        PROVE  windows'[k].end <= windows'[m].begin
    <3>1. k \in 1 .. NWindows
      BY <2>2, <2>8
    <3>2. CASE m \in 1 .. NWindows
      BY <2>6, <2>7, <2>8, <3>1, <3>2 DEF Successive, NWindows
    <3>3. CASE m = NWindows + 1
      BY <2>4, <2>5, <2>7, <3>1, <3>3
    <3> QED
      BY <2>2, <3>2, <3>3
  <2>9. Successive(windows')
    BY <2>7, <2>8 DEF Successive
  <2>10. \A k \in 1 .. NWindows + 1 : windows'[k].end <= tick \div div
    <3> SUFFICES ASSUME NEW k \in 1 .. NWindows + 1 PROVE windows'[k].end <= tick \div div
      OBVIOUS
    <3>1. CASE k \in 1 .. NWindows
      BY <2>2, <2>7, <3>1
    <3>2. CASE k = NWindows + 1
      BY <2>2, <2>5, <2>7, <3>2
    <3> QED
      BY <2>2, <3>1, <3>2
  <2>11. PageType'
    BY <1>1, <2>1, <2>7, <2>9 DEF PageType, Edges, Nodes
  <2>12. RewriterStart' /\ NWindows' = NWindows + 1 /\ begin <= tick
    BY <2>1, <2>7 DEF WorkInv, RewriterStart, NWindows
  <2> QED
    BY <2>1, <2>10, <2>11, <2>12 DEF WorkInv
<1>8. CASE Checksum
  <2>1. /\ at = "begin" /\ at' = "rewrite" /\ UNCHANGED <<iter, v, e, col_idx, div, begin>>
    BY <1>8 DEF Checksum
  <2> QED
    BY <1>1, <1>8, <2>1, Requests, AccessKeeps DEF Checksum
<1> QED
  BY <1>2, <1>3, <1>4, <1>5, <1>6, <1>7, <1>8 DEF Workload
-----------------------------------------------------------------------------
(***************************************************************************)
(* The invariant.                                                          *)
(***************************************************************************)

\* A rewriter that has not begun holds nothing and has written nothing.
LEMMA NotBegun ==
  ASSUME PageType, RewriterStart
  PROVE  RankType /\ CursorInv /\ PlaceInv /\ OrderInv
<1>1. /\ pc = "read" /\ pos = 1 /\ cur = 1 /\ next = 1
      /\ temp = << >> /\ reads = << >> /\ writes = << >> /\ out = << >>
  BY DEF RewriterStart
<1>2. Len(trace) \in Nat /\ NWindows \in Nat
  BY DEF PageType, NWindows
<1>3. RankType
  <2>1. 1 \in 1 .. Len(trace) + 1 /\ 1 \in 1 .. NWindows + 1
    BY <1>2
  <2>2. << >> \in Seq(OutEntry) /\ << >> \in Seq(Nat \ {0})
    OBVIOUS
  <2> QED
    BY <1>1, <2>1, <2>2 DEF RankType
<1>4. CursorInv
  BY <1>1 DEF CursorInv
<1>5. PlaceInv
  BY <1>1, NoLine DEF PlaceInv
<1>6. OrderInv
  <2>1. DOMAIN << >> = {}
    OBVIOUS
  <2> QED
    BY <1>1, <2>1, NoLine DEF OrderInv
<1> QED
  BY <1>3, <1>4, <1>5, <1>6

\* The workload begins with an empty trace, or a trace and a log are given.
LEMMA PageStart == PageInit => PageInv
<1> SUFFICES ASSUME PageInit PROVE PageInv
  OBVIOUS
<1>0. NODES \in Nat \ {0, 1}
  BY PageRankAssumption
<1>1. PageType /\ RewriterStart /\ WorkInv
  <2>1. CASE WorkloadInit
    <3>1. /\ trace = << >> /\ windows = << >> /\ how \in Hows /\ RewriterStart
          /\ at = "init" /\ iter = 0 /\ v = 0 /\ e = 0 /\ begin = 0
          /\ col_idx \in [Edges -> Nodes] /\ div \in TickDivs /\ tick \in 0 .. div - 1
      BY <2>1 DEF WorkloadInit
    <3>2. how \in [method : {"targeted", "blind"}, gap : Nat] /\ div \in Nat \ {0}
      BY <3>1, PageRankAssumption
    <3>3. tick \in Nat /\ begin <= tick
      BY <3>1, <3>2
    <3>4. << >> \in Seq(Line) /\ << >> \in Seq(Windows(Nat)) /\ Successive(<< >>)
      BY DEF Successive
    <3>5. NWindows = 0
      BY <3>1 DEF NWindows
    <3>6. PageType
      BY <3>1, <3>2, <3>3, <3>4 DEF PageType
    <3>7. WorkInv
      BY <3>1, <3>3, <3>5 DEF WorkInv
    <3> QED
      BY <3>1, <3>6, <3>7
  <2>2. CASE JobInit
    <3>1. PICK j \in RankJobs : trace = j.trace /\ windows = j.windows /\ how = j.how
      BY <2>2 DEF JobInit, Init
    <3>2. /\ trace \in Seq(Line) /\ windows \in Seq(Windows(Nat)) /\ Successive(windows)
          /\ how \in [method : {"targeted", "blind"}, gap : Nat]
      BY <3>1, RankJobsAssumption
    <3>3. /\ RewriterStart /\ at = "rewrite" /\ iter = 0 /\ v = 0 /\ e = 0 /\ begin = 0
          /\ col_idx = [k \in Edges |-> 0] /\ div = 1 /\ tick = 0
      BY <2>2 DEF JobInit, Init
    <3>4. col_idx \in [Edges -> Nodes]
      BY <1>0, <3>3 DEF Nodes
    <3> QED
      BY <3>2, <3>3, <3>4 DEF PageType, WorkInv
  <2> QED
    BY <2>1, <2>2 DEF PageInit
<1> QED
  BY <1>1, NotBegun DEF PageInv

\* Every step keeps the invariant: the workload's steps leave the rewriter as it is
\* before it begins, the rewriter's leave the trace and the windows as they are.
LEMMA PageKeeps == PageInv /\ [PageNext]_pageVars => PageInv'
<1> SUFFICES ASSUME PageInv, [PageNext]_pageVars PROVE PageInv'
  OBVIOUS
<1>1. PageType /\ WorkInv /\ RankType /\ CursorInv /\ PlaceInv /\ OrderInv
  BY DEF PageInv
<1>2. CASE Workload
  <2>1. PageType' /\ WorkInv' /\ RewriterStart'
    BY <1>1, <1>2, WorkNext
  <2>2. (PageType /\ RewriterStart => RankType /\ CursorInv /\ PlaceInv /\ OrderInv)'
    BY NotBegun, PTL
  <2> QED
    BY <2>1, <2>2 DEF PageInv
<1>3. CASE Rewrite
  <2>1. at = "rewrite" /\ Step /\ UNCHANGED workVars
    BY <1>3 DEF Rewrite
  <2>2. UNCHANGED input
    BY <2>1 DEF Step, SkipBlank, ReadEntry, FlushPassed, PlaceEntry, EndOfTrace, FlushTail,
                Finish, Flush
  <2>3. /\ trace' = trace /\ windows' = windows /\ how' = how
        /\ UNCHANGED <<at, iter, v, e, col_idx, div, tick, begin>>
    BY <2>1, <2>2 DEF input, workVars
  <2>4. PageType'
    BY <1>1, <2>3 DEF PageType, Successive, Edges, Nodes
  <2>5. WorkInv'
    BY <2>1, <2>3 DEF WorkInv
  <2>6. RankType' /\ CursorInv' /\ PlaceInv' /\ OrderInv'
    BY <1>1, <2>1, RankTypeNext, CursorNext, PlaceNext, OrderNext
  <2> QED
    BY <2>4, <2>5, <2>6 DEF PageInv
<1>4. CASE UNCHANGED pageVars
  <2>1. /\ UNCHANGED <<trace, windows, how, pc, pos, cur, next, temp, reads, writes, out, perWindow>>
        /\ UNCHANGED <<at, iter, v, e, col_idx, div, tick, begin>> /\ UNCHANGED input
    BY <1>4 DEF pageVars, rankVars, input, workVars
  <2>2. /\ NWindows' = NWindows /\ Entries(trace)' = Entries(trace)
        /\ KeepsOrder' = KeepsOrder
    BY <2>1, SameInput
  <2>3. PageType'
    BY <1>1, <2>1 DEF PageType, Successive, Edges, Nodes
  <2>4. WorkInv'
    BY <1>1, <2>1, <2>2 DEF WorkInv, RewriterStart
  <2>5. RankType' /\ CursorInv'
    BY <1>1, <2>1, <2>2 DEF RankType, CursorInv
  <2>6. PlaceInv'
    BY <1>1, <2>1, <2>2 DEF PlaceInv, Idxs, Indices, Distinct
  <2>7. OrderInv'
    BY <1>1, <2>1, <2>2 DEF OrderInv, InCycleOrder, Reached
  <2> QED
    BY <2>3, <2>4, <2>5, <2>6, <2>7 DEF PageInv
<1> QED
  BY <1>2, <1>3, <1>4 DEF PageNext, PageStopped

\* The types, the place of every line read, and the order of what has been written
\* hold in every state, for every graph and every division of ticks, and for every
\* trace and log given to the rewriters (pagerank_pull.cpp 73-139, run_experiment.py
\* 106-242).
THEOREM PageInvariance == PageSpec => []PageInv
BY PageStart, PageKeeps, PTL DEF PageSpec

\* Rewriting a trace in cycle order, a window's burst at its first cycle and its other
\* lines behind, gives a trace in cycle order (run_experiment.py 117-124, 165-179,
\* 232-237).
THEOREM RankCyclesInOrder == PageSpec => []OutputInCycleOrder
<1>1. PageInv => OutputInCycleOrder
  BY DEF PageInv, OrderInv, KeepsOrder, OutputInCycleOrder
<1> QED
  BY <1>1, PageInvariance, PTL
-----------------------------------------------------------------------------
(***************************************************************************)
(* The promise of WindowBuffer.                                            *)
(***************************************************************************)

Todo == {i \in Entries(trace) : i >= pos}
NotSent == Idxs(reads) \cup Idxs(writes) \cup Idxs(Indices(temp))
Sent == Indices(out)

\* What the steps of Buffer do to the three.
Same == UNCHANGED <<Entries(trace), Todo, NotSent, Sent>>
Taken(i) == /\ i \in Todo /\ \A j \in Todo : i <= j
            /\ Todo' = Todo \ {i} /\ UNCHANGED Entries(trace)
Drained == /\ Len(Sent') >= Len(Sent) /\ SubSeq(Sent', 1, Len(Sent)) = Sent
           /\ Buffer!Arranges(SubSeq(Sent', Len(Sent) + 1, Len(Sent')), NotSent)
           /\ NotSent' = {} /\ UNCHANGED <<Entries(trace), Todo>>

\* A step that does one of these to the three is a step of Buffer, or a stutter.
LEMMA BufferSteps ==
  ASSUME \/ Same
         \/ \E i : Taken(i) /\ Sent' = Append(Sent, i) /\ NotSent' = NotSent
         \/ \E i : Taken(i) /\ NotSent' = NotSent \cup {i} /\ Sent' = Sent
         \/ Drained
  PROVE  [Buffer!Next]_Buffer!vars
<1> USE DEF Todo, NotSent, Sent
<1>1. CASE Same
  BY <1>1 DEF Same, Buffer!vars
<1>2. ASSUME NEW i, Taken(i), Sent' = Append(Sent, i), NotSent' = NotSent
      PROVE  Buffer!Next
  <2>1. Buffer!Send(i) /\ i \in Todo
    BY <1>2 DEF Taken, Buffer!Send, Buffer!Take
  <2> QED
    BY <2>1 DEF Buffer!Next
<1>3. ASSUME NEW i, Taken(i), NotSent' = NotSent \cup {i}, Sent' = Sent
      PROVE  Buffer!Next
  <2>1. Buffer!Hold(i) /\ i \in Todo
    BY <1>3 DEF Taken, Buffer!Hold, Buffer!Take
  <2> QED
    BY <2>1 DEF Buffer!Next
<1>4. CASE Drained
  BY <1>4 DEF Drained, Buffer!Next, Buffer!Drain
<1> QED
  BY <1>1, <1>2, <1>3, <1>4

\* A flush sends all that is held, each line once.
LEMMA FlushDrains ==
  ASSUME PageType, RankType, PlaceInv, cur \in 1 .. NWindows, Flush
  PROVE  Drained
<1> DEFINE sends == Burst \o temp
<1>1. /\ out' = out \o sends /\ sends \in Seq(OutEntry) /\ out \in Seq(OutEntry)
      /\ Idxs(Indices(sends)) = NotSent /\ Distinct(Indices(sends))
  BY FlushFacts DEF RankType, NotSent
<1>2. /\ UNCHANGED input /\ pos' = pos /\ temp' = << >> /\ reads' = << >> /\ writes' = << >>
  BY DEF Flush
<1> HIDE DEF sends
<1>3. Sent' = Indices(out \o sends)
  BY <1>1 DEF Sent, Indices
<1>4. /\ Sent' = Sent \o Indices(sends) /\ Sent \in Seq(Nat \ {0})
      /\ Indices(sends) \in Seq(Nat \ {0})
  BY <1>1, <1>3, IndicesConcat DEF Sent
<1>5. /\ Len(Sent') >= Len(Sent) /\ SubSeq(Sent', 1, Len(Sent)) = Sent
      /\ SubSeq(Sent', Len(Sent) + 1, Len(Sent')) = Indices(sends)
  <2> DEFINE s == Sent  t == Indices(sends)
  <2> HIDE DEF s, t
  <2>1. s \in Seq(Nat \ {0}) /\ t \in Seq(Nat \ {0}) /\ Sent = s /\ Sent' = s \o t
    BY <1>4 DEF s, t
  <2>2. /\ Len(s \o t) >= Len(s) /\ SubSeq(s \o t, 1, Len(s)) = s
        /\ SubSeq(s \o t, Len(s) + 1, Len(s \o t)) = t
    BY <2>1, ConcatParts
  <2> QED
    BY <2>1, <2>2 DEF t
<1>6. Buffer!Arranges(Indices(sends), NotSent)
  BY <1>1 DEF Buffer!Arranges, Idxs, Distinct
<1>7. NotSent' = {}
  BY <1>2, NoLine DEF NotSent, Idxs, Indices
<1>8. Entries(trace)' = Entries(trace) /\ Todo' = Todo
  BY <1>2, SameInput DEF Todo
<1> QED
  BY <1>5, <1>6, <1>7, <1>8 DEF Drained

\* A placed line is the next entry; it is sent at once or held.
LEMMA PlaceTakes ==
  ASSUME PageType, RankType, CursorInv, PlaceEntry
  PROVE  \/ Taken(pos) /\ Sent' = Append(Sent, pos) /\ NotSent' = NotSent
         \/ Taken(pos) /\ NotSent' = NotSent \cup {pos} /\ Sent' = Sent
<1>1. /\ pos \in Entries(trace) /\ UNCHANGED input /\ pos' = pos + 1
      /\ Copied(pos) \in OutEntry /\ Copied(pos).idx = pos
  BY Placed
<1>2. /\ \A i \in Entries(trace) : i \in Nat \ {0}
      /\ reads \in Seq(Nat \ {0}) /\ writes \in Seq(Nat \ {0})
      /\ temp \in Seq(OutEntry) /\ out \in Seq(OutEntry)
  <2>1. Entries(trace) \subseteq 1 .. Len(trace)
    BY RankFacts
  <2> QED
    BY <2>1 DEF RankType
<1>3. Entries(trace)' = Entries(trace) /\ pos \in Nat \ {0}
  BY <1>1, <1>2, SameInput
<1>4. Taken(pos)
  <2>1. Todo = {i \in Entries(trace) : i >= pos} /\ Todo' = {i \in Entries(trace) : i >= pos + 1}
    BY <1>1, <1>3 DEF Todo
  <2>2. pos \in Int /\ \A i \in Entries(trace) : i \in Int
    BY <1>1, <1>2
  <2>3. Todo' = Todo \ {pos}
    BY <2>1, <2>2
  <2>4. pos \in Todo /\ \A j \in Todo : pos <= j
    BY <1>1, <2>1, <2>2
  <2> QED
    BY <1>3, <2>3, <2>4 DEF Taken
<1>5. CASE reads' = Append(reads, pos) /\ UNCHANGED <<writes, temp, out>>
  <2> DEFINE r == reads
  <2>1. r \in Seq(Nat \ {0}) /\ pos \in Nat \ {0}
    BY <1>2, <1>3
  <2> HIDE DEF r
  <2>2. Idxs(Append(r, pos)) = Idxs(r) \cup {pos}
    BY <2>1, AppendDistinct
  <2>3. Idxs(Append(reads, pos)) = Idxs(reads) \cup {pos}
    BY <2>2 DEF r
  <2>4. NotSent' = Idxs(Append(reads, pos)) \cup Idxs(writes) \cup Idxs(Indices(temp))
        /\ Sent' = Sent
    BY <1>5 DEF NotSent, Sent, Idxs, Indices
  <2> QED
    BY <1>4, <2>3, <2>4 DEF NotSent
<1>6. CASE writes' = Append(writes, pos) /\ UNCHANGED <<reads, temp, out>>
  <2> DEFINE w == writes
  <2>1. w \in Seq(Nat \ {0}) /\ pos \in Nat \ {0}
    BY <1>2, <1>3
  <2> HIDE DEF w
  <2>2. Idxs(Append(w, pos)) = Idxs(w) \cup {pos}
    BY <2>1, AppendDistinct
  <2>3. Idxs(Append(writes, pos)) = Idxs(writes) \cup {pos}
    BY <2>2 DEF w
  <2>4. NotSent' = Idxs(reads) \cup Idxs(Append(writes, pos)) \cup Idxs(Indices(temp))
        /\ Sent' = Sent
    BY <1>6 DEF NotSent, Sent, Idxs, Indices
  <2> QED
    BY <1>4, <2>3, <2>4 DEF NotSent
<1>7. CASE temp' = Append(temp, Copied(pos)) /\ UNCHANGED <<reads, writes, out>>
  <2>1. Indices(Append(temp, Copied(pos))) = Append(Indices(temp), pos)
        /\ Indices(temp) \in Seq(Nat \ {0}) /\ pos \in Nat \ {0}
    BY <1>1, <1>2, AppendIndices
  <2>2. Idxs(Append(Indices(temp), pos)) = Idxs(Indices(temp)) \cup {pos}
    BY <2>1, AppendDistinct
  <2>3. NotSent' = Idxs(reads) \cup Idxs(writes) \cup Idxs(Indices(Append(temp, Copied(pos))))
        /\ Sent' = Sent
    BY <1>7 DEF NotSent, Sent, Idxs, Indices, Copied, Emit
  <2> QED
    BY <1>4, <2>1, <2>2, <2>3 DEF NotSent
<1>8. CASE out' = Append(out, Copied(pos)) /\ UNCHANGED <<reads, writes, temp>>
  <2>1. Indices(Append(out, Copied(pos))) = Append(Indices(out), pos)
    BY <1>1, <1>2, AppendIndices
  <2>2. NotSent' = NotSent /\ Sent' = Indices(Append(out, Copied(pos)))
    BY <1>8 DEF NotSent, Sent, Idxs, Indices, Copied, Emit
  <2> QED
    BY <1>4, <2>1, <2>2 DEF Sent
<1> QED
  BY <1>5, <1>6, <1>7, <1>8, Placed

\* Every step of a rewriter is a step of Buffer, or leaves it as it is.
LEMMA RewriterRefines ==
  ASSUME PageInv, [Step]_rankVars
  PROVE  [Buffer!Next]_Buffer!vars
<1>1. PageType /\ RankType /\ CursorInv /\ PlaceInv
  BY DEF PageInv
<1>2. /\ \A i \in Entries(trace) : i \in Nat /\ i <= Len(trace)
      /\ Len(trace) \in Nat /\ pos \in Nat /\ NWindows \in Nat
      /\ cur \in 1 .. NWindows + 1 /\ next \in 1 .. NWindows + 1
  <2>1. Entries(trace) \subseteq 1 .. Len(trace) /\ Len(trace) \in Nat /\ NWindows \in Nat
    BY <1>1, RankFacts
  <2> QED
    BY <1>1, <2>1 DEF RankType
<1>3. CASE SkipBlank
  <2>1. UNCHANGED input /\ UNCHANGED <<temp, reads, writes, out>>
        /\ pos' = pos + 1 /\ pos \notin Entries(trace)
    BY <1>3 DEF SkipBlank, Entries
  <2>2. Entries(trace)' = Entries(trace)
    BY <2>1, SameInput
  <2>3. Todo' = Todo
    BY <1>2, <2>1, <2>2 DEF Todo
  <2>4. Same
    BY <2>1, <2>2, <2>3 DEF Same, NotSent, Sent, Idxs, Indices
  <2> QED
    BY <2>4, BufferSteps
<1>4. CASE ReadEntry \/ EndOfTrace \/ Finish \/ UNCHANGED rankVars
  <2>1. UNCHANGED input /\ UNCHANGED <<pos, temp, reads, writes, out>>
    BY <1>4 DEF ReadEntry, EndOfTrace, Finish, rankVars
  <2>2. Entries(trace)' = Entries(trace)
    BY <2>1, SameInput
  <2>3. Same
    BY <2>1, <2>2 DEF Same, Todo, NotSent, Sent, Idxs, Indices
  <2> QED
    BY <2>3, BufferSteps
<1>5. CASE FlushPassed \/ FlushTail
  <2>1. Flush /\ cur \in 1 .. NWindows
    BY <1>2, <1>5 DEF FlushPassed, FlushTail
  <2> QED
    BY <1>1, <2>1, FlushDrains, BufferSteps
<1>6. CASE PlaceEntry
  BY <1>1, <1>6, PlaceTakes, BufferSteps
<1> QED
  BY <1>3, <1>4, <1>5, <1>6 DEF Step

\* A rewriter that has not begun is where Buffer begins.
LEMMA RewriterBegins ==
  ASSUME PageType, RewriterStart
  PROVE  Buffer!Init
<1>1. /\ pos = 1 /\ temp = << >> /\ reads = << >> /\ writes = << >> /\ out = << >>
  BY DEF RewriterStart
<1>2. \A i \in Entries(trace) : i \in Nat /\ i >= 1
  BY DEF Entries, PageType
<1>3. {i \in Entries(trace) : i >= pos} = Entries(trace)
  BY <1>1, <1>2
<1>4. Idxs(reads) \cup Idxs(writes) \cup Idxs(Indices(temp)) = {} /\ Indices(out) = << >>
  BY <1>1, NoLine
<1> QED
  BY <1>2, <1>3, <1>4 DEF Buffer!Init, Buffer!Fresh

\* Both rewriters, on the workload's trace or on any other, keep the promise of
\* WindowBuffer: every entry is taken in order and sent once, and a window's lines
\* are sent in one piece (run_experiment.py 113-124, 149-188, 195-242).
THEOREM RankImplementation == PageSpec => ImplementsWindowBuffer
<1> DEFINE A == at' = "rewrite" => IF at = "rewrite" THEN [Buffer!Next]_Buffer!vars
                                                     ELSE Buffer!Init'
<1>1. PageInv /\ PageInv' /\ [PageNext]_pageVars => [A]_pageVars
  <2> SUFFICES ASSUME PageInv, PageInv', PageNext, at' = "rewrite"
               PROVE  IF at = "rewrite" THEN [Buffer!Next]_Buffer!vars ELSE Buffer!Init'
    OBVIOUS
  <2>1. CASE Workload
    <3>1. at # "rewrite"
      BY <2>1 DEF Workload, InitGraph, WorkBegin, VertexStart, GatherEdge, StoreRank, WorkEnd,
                  Checksum
    <3>2. PageType' /\ RewriterStart'
      BY <2>1, WorkNext DEF PageInv
    <3>3. (PageType /\ RewriterStart => Buffer!Init)'
      BY RewriterBegins, PTL
    <3> QED
      BY <3>1, <3>2, <3>3
  <2>2. CASE Rewrite \/ PageStopped
    <3>1. at = "rewrite" /\ [Step]_rankVars
      BY <2>2 DEF Rewrite, PageStopped, pageVars
    <3> QED
      BY <3>1, RewriterRefines
  <2> QED
    BY <2>1, <2>2 DEF PageNext
<1> QED
  BY <1>1, PageInvariance, PTL DEF PageSpec, ImplementsWindowBuffer
-----------------------------------------------------------------------------
(***************************************************************************)
(* What the workload's trace looks like.                                   *)
(***************************************************************************)

\* Few enough that three ticks later it is another cycle.  The pipeline's DRAM cycle is
\* two and a half clocks of the CPU (run_pagerank_toolchain.sh 30, 47: 4 GHz, 630 ps),
\* and the CPU makes at most one data access in a clock.
FewTicks == div <= 3

OfRank(i) == InRank(trace[i].addr)
IsWrite(i) == trace[i].op = "WRITE"
IsRead(i) == trace[i].op = "READ"

\* What iteration t reads.
SourceRange(t) == IF t % 2 = 1 THEN Regions.rank_b ELSE Regions.rank_a

\* The trace is the workload's, or there is none yet.
Ours == at # "rewrite" \/ made # << >>

\* Every line is made by the iteration the loop is in, one after the other.
MadeInv ==
  /\ made \in Seq(Int) /\ Len(made) = Len(trace)
  /\ \A i \in 1 .. Len(trace) :
       /\ -1 <= made[i] /\ made[i] <= iter
       /\ at # "init" /\ (at = "begin" => made[i] < iter)
  /\ \A i, j \in 1 .. Len(trace) : i < j => made[i] <= made[j]

\* Every line is recorded at a tick that is over.
TickInv ==
  /\ InCycleOrder(trace)
  /\ \A i \in 1 .. Len(trace) : \E u \in Nat : u < tick /\ trace[i].cycle = u \div div

\* There is a window for each iteration that has ended.
LoopInv ==
  /\ NWindows = iter /\ iter <= ITERS
  /\ \A k \in 1 .. NWindows : windows[k].id = k - 1
  /\ at = "init" => iter = 0
  /\ at \in {"vertex", "edges"} => iter < ITERS /\ v <= NODES
  /\ at = "edges" => e \in RowStart(v) .. RowStart(v + 1)
  /\ at = "rewrite" => iter = ITERS /\ trace # << >>

\* What the requests are.
LineInv ==
  \A i \in 1 .. Len(trace) :
    /\ trace[i].op \in {"READ", "WRITE"}
    /\ OfRank(i) /\ IsRead(i) => made[i] >= 0 /\ InRange(trace[i].addr, SourceRange(made[i]))
    /\ OfRank(i) /\ IsWrite(i) =>
         /\ made[i] < ITERS
         /\ made[i] # -1 => InRange(trace[i].addr, DestRangeForIter(made[i]))

\* What has been written: all ranks before the loop, and those of each iteration.
Wrote(t, a) == \E i \in 1 .. Len(trace) : IsWrite(i) /\ trace[i].addr = a /\ made[i] = t
Rank(t, n) == IF t % 2 = 1 THEN RankA(n) ELSE RankB(n)
WroteInv ==
  /\ at # "init" => \A n \in Nodes : Wrote(-1, RankA(n))
  /\ \A t \in 0 .. iter - 1, n \in Nodes : Wrote(t, Rank(t, n))
  /\ at \in {"vertex", "edges"} => \A n \in 0 .. v - 1 : Wrote(iter, Rank(iter, n))

\* How many ranks an iteration reads and writes.
RanksOf(t, op) == {i \in 1 .. Len(trace) : OfRank(i) /\ trace[i].op = op /\ made[i] = t}
CountInv ==
  /\ \A t \in 0 .. iter - 1 : /\ Cardinality(RanksOf(t, "READ")) = NODES * DEG
                              /\ Cardinality(RanksOf(t, "WRITE")) = NODES
  /\ at \in {"vertex", "edges"} =>
       /\ Cardinality(RanksOf(iter, "READ")) = IF at = "vertex" THEN RowStart(v) ELSE e
       /\ Cardinality(RanksOf(iter, "WRITE")) = v

\* An iteration's accesses of the ranks are in its window, the others are not.
CycleInv ==
  FewTicks =>
    /\ \A i \in 1 .. Len(trace), k \in 1 .. NWindows : OfRank(i) =>
         /\ made[i] < k - 1 => trace[i].cycle < windows[k].begin
         /\ made[i] = k - 1 => InWindow(windows[k], trace[i].cycle)
         /\ made[i] > k - 1 => trace[i].cycle > windows[k].end
    /\ at \in {"vertex", "edges"} =>
         /\ \A i \in 1 .. Len(trace) : OfRank(i) =>
              /\ made[i] < iter => trace[i].cycle < begin \div div
              /\ made[i] = iter => begin \div div <= trace[i].cycle
         /\ \A k \in 1 .. NWindows : windows[k].end < (begin + 1) \div div

TraceInv ==
  Ours => /\ MadeInv /\ TickInv /\ LoopInv /\ LineInv /\ WroteInv /\ CountInv /\ CycleInv

-----------------------------------------------------------------------------
\* j may come after i.
Follows(i, j) ==
  /\ OfRank(i) /\ OfRank(j) => /\ made[i] <= made[j]
                               /\ IsWrite(i) /\ IsRead(j) => made[i] < made[j]
  /\ how.method = "targeted" =>
       /\ ~ OfRank(i) /\ ~ OfRank(j) => i < j
       /\ trace[i].addr = trace[j].addr /\ (IsWrite(i) \/ IsWrite(j)) => i < j

Ready == at = "rewrite" /\ made # << >> /\ FewTicks

\* All that has been read is written or held.
ReadInv ==
  /\ \A i \in 1 .. Len(trace) : i < pos => i \in Idxs(Sent) \cup NotSent
  /\ \A i \in Idxs(Sent) : i \in 1 .. Len(trace) /\ i < pos
  /\ pc \in {"tail", "done"} => pos = Len(trace) + 1
  /\ pc = "done" => cur = NWindows + 1
  /\ perWindow \in Seq([id : Nat, reads : Nat, writes : Nat]) /\ Len(perWindow) = cur - 1

\* What is held is of the current window.
HeldInv ==
  /\ \A i \in NotSent : cur <= NWindows /\ InWindow(windows[cur], trace[i].cycle)
  /\ \A i \in Idxs(reads) : IsRead(i) /\ (how.method = "targeted" => OfRank(i))
  /\ \A i \in Idxs(writes) : IsWrite(i) /\ (how.method = "targeted" => OfRank(i))
  /\ \A i \in Idxs(Indices(temp)) : how.method = "targeted" /\ ~ OfRank(i)
  /\ \A k \in DOMAIN temp : temp[k] = Copied(temp[k].idx)
  /\ \A k, m \in DOMAIN temp : k < m => temp[k].idx < temp[m].idx

\* The lines to come are behind the windows that have been passed, and what is held
\* has been read after what is written.
PassedInv ==
  /\ pc \in {"read", "line"} =>
       \A k \in 1 .. cur - 1, j \in 1 .. Len(trace) : j >= pos => trace[j].cycle > windows[k].end
  /\ \A i \in Idxs(Sent), j \in NotSent : i < j
  /\ cur <= NWindows => \A i \in Idxs(Sent) : OfRank(i) => made[i] < cur - 1

InFollowing(s) == \A k, m \in DOMAIN s : k < m => Follows(s[k], s[m])
SentInv ==
  /\ InFollowing(Sent)
  /\ how.method = "targeted" => \A k \in DOMAIN out : OfRank(out[k].idx) \/ out[k] = Copied(out[k].idx)

BurstInv ==
  how.method = "targeted" =>
    \A k \in DOMAIN perWindow : /\ perWindow[k].reads = NODES * DEG
                                /\ perWindow[k].writes = NODES

RewriteParts == ReadInv /\ HeldInv /\ PassedInv /\ SentInv /\ BurstInv
RewriteInv == Ready => RewriteParts
-----------------------------------------------------------------------------
(***************************************************************************)
(* The workload's accesses.                                                *)
(***************************************************************************)

\* With so few ticks in a cycle, three ticks later it is another cycle.
LEMMA NextCycle ==
  ASSUME NEW a \in Nat, NEW b \in Nat, NEW d \in Nat \ {0}, d <= 3, a + 3 <= b
  PROVE  a \div d < b \div d
<1>1. PICK p \in Nat, r \in Nat : p = a \div d /\ r < d /\ a = d * p + r
  BY DivisionFacts
<1>2. PICK q \in Nat, s \in Nat : q = b \div d /\ s < d /\ b = d * q + s
  BY DivisionFacts
<1>3. d = 1 \/ d = 2 \/ d = 3
  OBVIOUS
<1>4. p < q
  <2>1. CASE d = 1
    BY <1>1, <1>2, <2>1
  <2>2. CASE d = 2
    BY <1>1, <1>2, <2>2
  <2>3. CASE d = 3
    BY <1>1, <1>2, <2>3
  <2> QED
    BY <1>3, <2>1, <2>2, <2>3
<1> QED
  BY <1>1, <1>2, <1>4

\* The addresses of the ranks, and that the others are behind them.
LEMMA RankAddresses ==
  ASSUME iter \in Nat
  PROVE  /\ \A n \in Nodes :
              /\ InRange(RankA(n), Regions.rank_a) /\ InRange(RankB(n), Regions.rank_b)
              /\ InRange(OldRank(n), SourceRange(iter))
              /\ InRange(NewRank(n), DestRangeForIter(iter)) /\ NewRank(n) = Rank(iter, n)
         /\ ~ InRank(RowPtr) /\ ~ InRank(ColIdx) /\ ~ InRank(OutDeg)
         /\ ~ InRank(Acc) /\ ~ InRank(Code)
<1>1. /\ NODES \in Nat /\ Regions.rank_a.lo \in Nat /\ Regions.rank_b.lo \in Nat
      /\ Regions.rank_a.hi = Regions.rank_a.lo + NODES
      /\ Regions.rank_b.hi = Regions.rank_b.lo + NODES
  BY PageRankAssumption
<1>2. \A n \in Nodes : InRange(RankA(n), Regions.rank_a) /\ InRange(RankB(n), Regions.rank_b)
  BY <1>1 DEF Nodes, InRange, RankA, RankB
<1>3. iter % 2 = 0 \/ iter % 2 = 1
  OBVIOUS
<1>4. ASSUME NEW n \in Nodes
      PROVE  /\ InRange(OldRank(n), SourceRange(iter))
             /\ InRange(NewRank(n), DestRangeForIter(iter)) /\ NewRank(n) = Rank(iter, n)
  BY <1>2, <1>3 DEF OldRank, NewRank, SourceRange, DestRangeForIter, Rank
<1>5. Behind \in Nat /\ Behind >= Regions.rank_a.hi /\ Behind >= Regions.rank_b.hi
  BY <1>1 DEF Behind, RankA, RankB
<1>6. \A a \in Nat : a >= Behind => ~ InRank(a)
  BY <1>1, <1>5 DEF InRank, InRange
<1>7. ~ InRank(RowPtr) /\ ~ InRank(ColIdx) /\ ~ InRank(OutDeg) /\ ~ InRank(Acc) /\ ~ InRank(Code)
  BY <1>5, <1>6 DEF RowPtr, ColIdx, OutDeg, Acc, Code
<1> QED
  BY <1>2, <1>4, <1>7

\* Two lists put together.
LEMMA TwoLists ==
  ASSUME NEW S, NEW s \in Seq(S), NEW t \in Seq(S)
  PROVE  /\ s \o t \in Seq(S) /\ Len(s \o t) = Len(s) + Len(t)
         /\ Len(s) \in Nat /\ Len(t) \in Nat
         /\ \A i \in 1 .. Len(s) + Len(t) :
              (s \o t)[i] = IF i <= Len(s) THEN s[i] ELSE t[i - Len(s)]
BY ConcatProperties, LenProperties

\* Accesses are put behind the trace.
LEMMA AccessGrows ==
  ASSUME PageType, made \in Seq(Int), Len(made) = Len(trace),
         NEW s \in Seq(Request), NEW t \in Int, Access(s, t)
  PROVE  /\ trace' \in Seq(Line) /\ made' \in Seq(Int) /\ tick' = tick + Len(s)
         /\ Len(trace) \in Nat /\ Len(s) \in Nat
         /\ Len(trace') = Len(trace) + Len(s) /\ Len(made') = Len(trace) + Len(s)
         /\ \A i \in 1 .. Len(trace) : trace'[i] = trace[i] /\ made'[i] = made[i]
         /\ \A k \in 1 .. Len(s) :
              /\ s[k] \in Request
              /\ made'[Len(trace) + k] = t
              /\ trace'[Len(trace) + k].addr = s[k][1]
              /\ trace'[Len(trace) + k].op = s[k][2]
              /\ trace'[Len(trace) + k].cycle = (tick + k - 1) \div div
         /\ \A i \in 1 .. Len(trace) + Len(s) :
              i \in 1 .. Len(trace) \/ \E k \in 1 .. Len(s) : i = Len(trace) + k
<1> DEFINE new == [k \in DOMAIN s |-> [addr |-> s[k][1], op |-> s[k][2],
                                       cycle |-> (tick + k - 1) \div div]]
           ts == [k \in DOMAIN s |-> t]
<1>1. /\ trace' = trace \o new /\ made' = made \o ts /\ tick' = tick + Len(s)
  BY DEF Access
<1>2. DOMAIN s = 1 .. Len(s) /\ Len(s) \in Nat /\ trace \in Seq(Line) /\ Len(trace) \in Nat
      /\ \A k \in 1 .. Len(s) : s[k] \in Request
  BY DEF PageType
<1>3. trace' \in Seq(Line)
  BY AccessFacts
<1>4. DOMAIN new = 1 .. Len(s) /\ DOMAIN ts = 1 .. Len(s)
  BY <1>2
<1>5. \A k \in 1 .. Len(s) : /\ new[k].addr = s[k][1] /\ new[k].op = s[k][2]
                             /\ new[k].cycle = (tick + k - 1) \div div /\ ts[k] = t
  BY <1>2
<1>6. ts \in Seq(Int) /\ Len(ts) = Len(s)
  BY <1>2
<1>7. new \in Seq(Line) /\ Len(new) = Len(s)
  <2>1. ASSUME NEW k \in 1 .. Len(s) PROVE new[k] \in Line
    <3>1. s[k] \in Request /\ tick + k - 1 \in Nat /\ div \in Nat \ {0}
      BY <1>2 DEF PageType
    <3>2. s[k][1] \in Nat /\ s[k][2] \in {"READ", "WRITE"}
      BY <3>1 DEF Request
    <3>3. (tick + k - 1) \div div \in Nat
      BY <3>1, DivisionFacts
    <3> QED
      BY <1>2, <3>2, <3>3 DEF Line, Ops
  <2>2. new = [k \in 1 .. Len(s) |-> new[k]]
    BY <1>2
  <2> HIDE DEF new
  <2>3. new \in Seq(Line)
    BY <1>2, <2>1, <2>2
  <2> QED
    BY <1>2, <1>4, <2>3, LenProperties
<1> HIDE DEF new, ts
<1>8. /\ Len(trace \o new) = Len(trace) + Len(s)
      /\ \A i \in 1 .. Len(trace) + Len(s) :
           (trace \o new)[i] = IF i <= Len(trace) THEN trace[i] ELSE new[i - Len(trace)]
  <2>1. trace \in Seq(Line) /\ new \in Seq(Line)
    BY <1>2, <1>7
  <2>2. /\ Len(trace \o new) = Len(trace) + Len(new)
        /\ \A i \in 1 .. Len(trace) + Len(new) :
             (trace \o new)[i] = IF i <= Len(trace) THEN trace[i] ELSE new[i - Len(trace)]
    BY ONLY <2>1, TwoLists
  <2> QED
    BY <1>7, <2>2
<1>9. /\ made \o ts \in Seq(Int) /\ Len(made \o ts) = Len(trace) + Len(s)
      /\ \A i \in 1 .. Len(trace) + Len(s) :
           (made \o ts)[i] = IF i <= Len(trace) THEN made[i] ELSE ts[i - Len(trace)]
  <2>1. made \in Seq(Int) /\ ts \in Seq(Int)
    BY <1>6
  <2>2. /\ made \o ts \in Seq(Int) /\ Len(made \o ts) = Len(made) + Len(ts)
        /\ \A i \in 1 .. Len(made) + Len(ts) :
             (made \o ts)[i] = IF i <= Len(made) THEN made[i] ELSE ts[i - Len(made)]
    BY ONLY <2>1, TwoLists
  <2> QED
    BY <1>6, <2>2
<1>10. \A i \in 1 .. Len(trace) : trace'[i] = trace[i] /\ made'[i] = made[i]
  BY <1>1, <1>2, <1>8, <1>9
<1>11. ASSUME NEW k \in 1 .. Len(s)
       PROVE  trace'[Len(trace) + k] = new[k] /\ made'[Len(trace) + k] = ts[k]
  <2>1. /\ Len(trace) + k \in 1 .. Len(trace) + Len(s) /\ ~ (Len(trace) + k <= Len(trace))
        /\ Len(trace) + k - Len(trace) = k
    BY <1>2
  <2>2. (trace \o new)[Len(trace) + k] = new[Len(trace) + k - Len(trace)]
    BY ONLY <1>8, <2>1
  <2>3. (made \o ts)[Len(trace) + k] = ts[Len(trace) + k - Len(trace)]
    BY ONLY <1>9, <2>1
  <2> QED
    BY ONLY <1>1, <2>1, <2>2, <2>3
<1>12. ASSUME NEW i \in 1 .. Len(trace) + Len(s)
       PROVE  i \in 1 .. Len(trace) \/ \E k \in 1 .. Len(s) : i = Len(trace) + k
  <2>1. CASE i > Len(trace)
    <3>1. i - Len(trace) \in 1 .. Len(s) /\ i = Len(trace) + (i - Len(trace))
      BY <1>2, <2>1
    <3> QED
      BY <3>1
  <2> QED
    BY <1>2, <2>1
<1> QED
  BY <1>1, <1>2, <1>3, <1>5, <1>8, <1>9, <1>10, <1>11, <1>12

\* The lines so far were not made by a later iteration.
LEMMA MadeKept ==
  ASSUME PageType, MadeInv, NEW s \in Seq(Request), NEW t \in Int, Access(s, t),
         iter' = iter, -1 <= t, t <= iter, t = iter \/ trace = << >>,
         at' # "init", at' = "begin" => trace = << >> /\ t < iter
  PROVE  MadeInv'
<1> DEFINE n == Len(trace)  m == Len(s)
<1>1. /\ made \in Seq(Int) /\ Len(made) = Len(trace)
      /\ \A i \in 1 .. n : made[i] \in Int /\ -1 <= made[i] /\ made[i] <= iter
      /\ \A i, j \in 1 .. n : i < j => made[i] <= made[j]
      /\ iter \in Nat
  BY DEF MadeInv, PageType
<1>2. /\ made' \in Seq(Int) /\ n \in Nat /\ m \in Nat
      /\ Len(trace') = n + m /\ Len(made') = n + m
      /\ \A i \in 1 .. n : made'[i] = made[i]
      /\ \A k \in 1 .. m : made'[n + k] = t
      /\ \A i \in 1 .. n + m : i \in 1 .. n \/ \E k \in 1 .. m : i = n + k
  BY <1>1, AccessGrows
<1>3. \A i \in 1 .. n : made[i] <= t
  <2>1. CASE t = iter
    BY <1>1, <2>1
  <2>2. CASE trace = << >>
    BY <2>2
  <2> QED
    BY <2>1, <2>2
<1> HIDE DEF n, m
<1>4. \A i \in 1 .. n + m : (i \in 1 .. n /\ made'[i] = made[i]) \/ (made'[i] = t /\ i > n)
  BY <1>2
<1>5. ASSUME NEW i \in 1 .. n + m
      PROVE  -1 <= made'[i] /\ made'[i] <= iter' /\ at' # "init" /\ (at' = "begin" => made'[i] < iter')
  <2>1. CASE i \in 1 .. n /\ made'[i] = made[i]
    <3>1. trace # << >>
      BY <1>2, <2>1 DEF n
    <3> QED
      BY <1>1, <2>1, <3>1
  <2>2. CASE made'[i] = t
    BY <2>2
  <2> QED
    BY <1>4, <2>1, <2>2
<1>6. ASSUME NEW i \in 1 .. n + m, NEW j \in 1 .. n + m, i < j
      PROVE  made'[i] <= made'[j]
  <2>1. CASE j \in 1 .. n /\ made'[j] = made[j]
    <3>1. i \in 1 .. n /\ made'[i] = made[i]
      BY <1>2, <1>4, <1>6, <2>1
    <3> QED
      BY <1>1, <1>6, <2>1, <3>1
  <2>2. CASE made'[j] = t
    BY <1>3, <1>4, <2>2
  <2> QED
    BY <1>4, <2>1, <2>2
<1> QED
  BY <1>2, <1>5, <1>6 DEF MadeInv

\* The clock goes on.
LEMMA TickKept ==
  ASSUME PageType, MadeInv, TickInv, NEW s \in Seq(Request), NEW t \in Int, Access(s, t),
         UNCHANGED div
  PROVE  TickInv'
<1> DEFINE n == Len(trace)  m == Len(s)
<1>1. /\ trace' \in Seq(Line) /\ n \in Nat /\ m \in Nat /\ tick' = tick + m /\ Len(trace') = n + m
      /\ \A i \in 1 .. n : trace'[i] = trace[i]
      /\ \A k \in 1 .. m : trace'[n + k].cycle = (tick + k - 1) \div div
      /\ \A i \in 1 .. n + m : i \in 1 .. n \/ \E k \in 1 .. m : i = n + k
  BY AccessGrows DEF MadeInv
<1>2. tick \in Nat /\ div \in Nat \ {0}
  BY DEF PageType
<1>3. /\ \A i, j \in 1 .. n : i < j => trace[i].cycle <= trace[j].cycle
      /\ \A i \in 1 .. n : \E u \in Nat : u < tick /\ trace[i].cycle = u \div div
  BY DEF TickInv, InCycleOrder
<1> HIDE DEF n, m
<1>4. ASSUME NEW k \in 1 .. m
      PROVE  tick + k - 1 \in Nat /\ tick <= tick + k - 1 /\ tick + k - 1 < tick'
  <2>1. m \in Nat /\ tick' = tick + m /\ tick \in Nat
    BY <1>1, <1>2
  <2> QED
    BY ONLY <2>1, k \in 1 .. m
<1>5. ASSUME NEW i \in 1 .. n + m
      PROVE  \/ i \in 1 .. n /\ trace'[i] = trace[i]
             \/ \E k \in 1 .. m : i = n + k /\ trace'[i].cycle = (tick + k - 1) \div div
  BY <1>1
<1>6. ASSUME NEW i \in 1 .. n + m
      PROVE  \E u \in Nat : u < tick' /\ trace'[i].cycle = u \div div'
  <2>1. CASE i \in 1 .. n /\ trace'[i] = trace[i]
    <3>1. PICK u \in Nat : u < tick /\ trace[i].cycle = u \div div
      BY <1>3, <2>1
    <3>2. u < tick'
      BY <1>1, <1>2, <3>1
    <3> QED
      BY <2>1, <3>1, <3>2
  <2>2. CASE \E k \in 1 .. m : i = n + k /\ trace'[i].cycle = (tick + k - 1) \div div
    BY <1>4, <2>2
  <2> QED
    BY <1>5, <2>1, <2>2
<1>7. ASSUME NEW i \in 1 .. n + m, NEW j \in 1 .. n + m, i < j
      PROVE  trace'[i].cycle <= trace'[j].cycle
  <2>1. CASE j \in 1 .. n /\ trace'[j] = trace[j]
    <3>1. i \in 1 .. n /\ trace'[i] = trace[i]
      BY <1>1, <1>7, <2>1
    <3> QED
      BY <1>3, <1>7, <2>1, <3>1
  <2>2. ASSUME NEW k \in 1 .. m, j = n + k, trace'[j].cycle = (tick + k - 1) \div div
        PROVE  trace'[i].cycle <= trace'[j].cycle
    <3>1. \E u \in Nat : u <= tick + k - 1 /\ trace'[i].cycle = u \div div
      <4>1. CASE i \in 1 .. n /\ trace'[i] = trace[i]
        <5>1. PICK u \in Nat : u < tick /\ trace[i].cycle = u \div div
          BY <1>3, <4>1
        <5>2. u <= tick + k - 1
          BY <1>2, <1>4, <5>1
        <5> QED
          BY <4>1, <5>1, <5>2
      <4>2. ASSUME NEW l \in 1 .. m, i = n + l, trace'[i].cycle = (tick + l - 1) \div div
            PROVE  \E u \in Nat : u <= tick + k - 1 /\ trace'[i].cycle = u \div div
        <5>1. tick + l - 1 \in Nat /\ tick + l - 1 <= tick + k - 1
          BY <1>1, <1>2, <1>7, <2>2, <4>2
        <5> QED
          BY <4>2, <5>1
      <4> QED
        BY <1>5, <4>1, <4>2
    <3>2. PICK u \in Nat : u <= tick + k - 1 /\ trace'[i].cycle = u \div div
      BY <3>1
    <3>3. u \div div <= (tick + k - 1) \div div
      BY <1>2, <1>4, <3>2, DivisionMonotone
    <3> QED
      BY <2>2, <3>2, <3>3
  <2> QED
    BY <1>5, <2>1, <2>2
<1> QED
  BY <1>1, <1>6, <1>7 DEF TickInv, InCycleOrder

\* The new lines are as the requests.
LEMMA LinesKept ==
  ASSUME PageType, MadeInv, LineInv, NEW s \in Seq(Request), NEW t \in Int, Access(s, t),
         \A k \in 1 .. Len(s) : InRank(s[k][1]) =>
           /\ s[k][2] = "READ" => t >= 0 /\ InRange(s[k][1], SourceRange(t))
           /\ s[k][2] = "WRITE" =>
                t < ITERS /\ (t # -1 => InRange(s[k][1], DestRangeForIter(t)))
  PROVE  LineInv'
<1> DEFINE n == Len(trace)  m == Len(s)
<1>1. /\ n \in Nat /\ m \in Nat /\ Len(trace') = n + m
      /\ \A i \in 1 .. n : trace'[i] = trace[i] /\ made'[i] = made[i]
      /\ \A k \in 1 .. m : /\ s[k] \in Request /\ made'[n + k] = t
                           /\ trace'[n + k].addr = s[k][1] /\ trace'[n + k].op = s[k][2]
      /\ \A i \in 1 .. n + m : i \in 1 .. n \/ \E k \in 1 .. m : i = n + k
  BY AccessGrows DEF MadeInv
<1> HIDE DEF n
<1>2. ASSUME NEW i \in 1 .. n + m
      PROVE  /\ trace'[i].op \in {"READ", "WRITE"}
             /\ InRank(trace'[i].addr) /\ trace'[i].op = "READ" =>
                  made'[i] >= 0 /\ InRange(trace'[i].addr, SourceRange(made'[i]))
             /\ InRank(trace'[i].addr) /\ trace'[i].op = "WRITE" =>
                  /\ made'[i] < ITERS
                  /\ made'[i] # -1 => InRange(trace'[i].addr, DestRangeForIter(made'[i]))
  <2>1. CASE i \in 1 .. n
    BY <1>1, <2>1 DEF LineInv, OfRank, IsRead, IsWrite, n
  <2>2. ASSUME NEW k \in 1 .. m, i = n + k
        PROVE  /\ made'[i] = t /\ trace'[i].addr = s[k][1] /\ trace'[i].op = s[k][2]
               /\ s[k][2] \in {"READ", "WRITE"}
    BY <1>1, <2>2 DEF Request
  <2> QED
    BY <1>1, <2>1, <2>2
<1> QED
  BY <1>1, <1>2 DEF LineInv, OfRank, IsRead, IsWrite

\* With few ticks in a cycle, the ranks are accessed in the window of the iteration.
LEMMA CyclesKept ==
  ASSUME PageType, WorkInv, MadeInv, TickInv, LoopInv, CycleInv,
         NEW s \in Seq(Request), NEW t \in Int, Access(s, t), UNCHANGED <<iter, div>>,
         at # "rewrite", at = "init" \/ t = iter,
         \A k \in 1 .. Len(s) : InRank(s[k][1]) => k >= 2 /\ (at = "begin" => k >= 4),
         at' \in {"vertex", "edges"} =>
           \/ at \in {"vertex", "edges"} /\ begin' = begin
           \/ at = "begin" /\ Len(s) = 2 /\ begin' = tick'
  PROVE  CycleInv'
<1> SUFFICES ASSUME FewTicks
             PROVE  /\ \A i \in 1 .. Len(trace'), k \in 1 .. NWindows : InRank(trace'[i].addr) =>
                         /\ made'[i] < k - 1 => trace'[i].cycle < windows[k].begin
                         /\ made'[i] = k - 1 => InWindow(windows[k], trace'[i].cycle)
                         /\ made'[i] > k - 1 => trace'[i].cycle > windows[k].end
                    /\ at' \in {"vertex", "edges"} =>
                         /\ \A i \in 1 .. Len(trace') : InRank(trace'[i].addr) =>
                              /\ made'[i] < iter => trace'[i].cycle < begin' \div div
                              /\ made'[i] = iter => begin' \div div <= trace'[i].cycle
                         /\ \A k \in 1 .. NWindows : windows[k].end < (begin' + 1) \div div
  <2>1. UNCHANGED windows
    BY AccessFacts
  <2> QED
    BY <2>1 DEF CycleInv, FewTicks, OfRank, NWindows, InWindow
<1> DEFINE n == Len(trace)  m == Len(s)
<1>1. /\ n \in Nat /\ m \in Nat /\ tick' = tick + m /\ Len(trace') = n + m
      /\ \A i \in 1 .. n : trace'[i] = trace[i] /\ made'[i] = made[i]
      /\ \A k \in 1 .. m : /\ made'[n + k] = t /\ trace'[n + k].addr = s[k][1]
                           /\ trace'[n + k].cycle = (tick + k - 1) \div div
      /\ \A i \in 1 .. n + m : i \in 1 .. n \/ \E k \in 1 .. m : i = n + k
  BY AccessGrows DEF MadeInv
<1>2. /\ tick \in Nat /\ begin \in Nat /\ div \in Nat \ {0} /\ iter \in Nat /\ begin <= tick
      /\ at \in {"init", "begin", "vertex", "edges", "rewrite"}
      /\ div <= 3
  BY DEF PageType, WorkInv, FewTicks
<1>3. /\ NWindows = iter
      /\ \A k \in 1 .. NWindows : windows[k].end \in Nat /\ windows[k].end <= tick \div div
      /\ at = "init" => iter = 0
  BY WindowsOver DEF LoopInv
<1>4. /\ \A i \in 1 .. n, k \in 1 .. NWindows : InRank(trace[i].addr) =>
           /\ made[i] < k - 1 => trace[i].cycle < windows[k].begin
           /\ made[i] = k - 1 => InWindow(windows[k], trace[i].cycle)
           /\ made[i] > k - 1 => trace[i].cycle > windows[k].end
      /\ at \in {"vertex", "edges"} =>
           /\ \A i \in 1 .. n : InRank(trace[i].addr) =>
                /\ made[i] < iter => trace[i].cycle < begin \div div
                /\ made[i] = iter => begin \div div <= trace[i].cycle
           /\ \A k \in 1 .. NWindows : windows[k].end < (begin + 1) \div div
  BY DEF CycleInv, OfRank
<1>5. \A i \in 1 .. n : at = "begin" => made[i] < iter
  BY DEF MadeInv
<1>6. \A i \in 1 .. n : \E u \in Nat : u < tick /\ trace[i].cycle = u \div div
  BY DEF TickInv
<1>7. \A k \in 1 .. m : tick + k - 1 \in Nat
  BY <1>1, <1>2
<1> HIDE DEF n, m
<1>8. ASSUME NEW k \in 1 .. m, InRank(s[k][1])
      PROVE  /\ \A w \in 1 .. NWindows : windows[w].end < (tick + k - 1) \div div
             /\ at \in {"vertex", "edges"} => begin \div div <= (tick + k - 1) \div div
  <2>5. k >= 2 /\ (at = "begin" => k >= 4)
    BY <1>8 DEF m
  <2>6. tick + k - 1 \in Nat
    BY <1>7
  <2>7. (tick + k - 1) \div div \in Nat
    BY <1>2, <2>6, DivisionFacts
  <2>1. k \in Nat /\ k >= 2 /\ (at = "begin" => k >= 4) /\ tick + k - 1 \in Nat
        /\ (tick + k - 1) \div div \in Nat
    BY <2>5, <2>6, <2>7
  <2>2. CASE at = "begin"
    <3>1. tick + 3 <= tick + k - 1
      BY <1>2, <2>1, <2>2
    <3>2. tick \div div < (tick + k - 1) \div div /\ tick \div div \in Nat
      BY <1>2, <2>1, <3>1, NextCycle, DivisionFacts
    <3> QED
      BY <1>3, <2>1, <2>2, <3>2
  <2>3. CASE at \in {"vertex", "edges"}
    <3>1. begin + 1 <= tick + k - 1 /\ begin <= tick + k - 1 /\ begin + 1 \in Nat
      BY <1>2, <2>1
    <3>2. /\ (begin + 1) \div div <= (tick + k - 1) \div div /\ (begin + 1) \div div \in Nat
          /\ begin \div div <= (tick + k - 1) \div div
      BY <1>2, <2>1, <3>1, DivisionMonotone
    <3>3. \A w \in 1 .. NWindows : windows[w].end < (begin + 1) \div div
      BY <1>4, <2>3
    <3> QED
      BY <1>3, <2>1, <3>2, <3>3
  <2>4. CASE at = "init"
    BY <1>3, <2>4
  <2> QED
    BY <1>2, <2>2, <2>3, <2>4
<1>9. ASSUME NEW i \in 1 .. n + m
      PROVE  \/ i \in 1 .. n /\ trace'[i] = trace[i] /\ made'[i] = made[i]
             \/ \E k \in 1 .. m : /\ made'[i] = t /\ trace'[i].addr = s[k][1]
                                  /\ trace'[i].cycle = (tick + k - 1) \div div
  BY <1>1
<1>10. ASSUME NEW i \in 1 .. n + m, NEW k \in 1 .. NWindows, InRank(trace'[i].addr)
       PROVE  /\ made'[i] < k - 1 => trace'[i].cycle < windows[k].begin
              /\ made'[i] = k - 1 => InWindow(windows[k], trace'[i].cycle)
              /\ made'[i] > k - 1 => trace'[i].cycle > windows[k].end
  <2>1. CASE i \in 1 .. n /\ trace'[i] = trace[i] /\ made'[i] = made[i]
    BY <1>4, <1>10, <2>1
  <2>2. ASSUME NEW l \in 1 .. m, made'[i] = t, trace'[i].addr = s[l][1],
               trace'[i].cycle = (tick + l - 1) \div div
        PROVE  trace'[i].cycle > windows[k].end /\ made'[i] > k - 1
    <3>1. windows[k].end < (tick + l - 1) \div div
      BY <1>8, <1>10, <2>2
    <3>2. t = iter
      BY <1>3, <1>10
    <3>3. windows[k].end \in Nat /\ (tick + l - 1) \div div \in Nat
      BY <1>2, <1>3, <1>7, DivisionFacts
    <3> QED
      BY <1>2, <1>3, <2>2, <3>1, <3>2, <3>3
  <2> QED
    BY <1>9, <2>1, <2>2
<1>11. ASSUME at' \in {"vertex", "edges"}
       PROVE  /\ \A i \in 1 .. n + m : InRank(trace'[i].addr) =>
                   /\ made'[i] < iter => trace'[i].cycle < begin' \div div
                   /\ made'[i] = iter => begin' \div div <= trace'[i].cycle
              /\ \A k \in 1 .. NWindows : windows[k].end < (begin' + 1) \div div
  <2>1. CASE at \in {"vertex", "edges"} /\ begin' = begin
    <3>1. ASSUME NEW i \in 1 .. n + m, InRank(trace'[i].addr)
          PROVE  /\ made'[i] < iter => trace'[i].cycle < begin \div div
                 /\ made'[i] = iter => begin \div div <= trace'[i].cycle
      <4>1. CASE i \in 1 .. n /\ trace'[i] = trace[i] /\ made'[i] = made[i]
        BY <1>4, <2>1, <3>1, <4>1
      <4>2. ASSUME NEW l \in 1 .. m, made'[i] = t, trace'[i].addr = s[l][1],
                   trace'[i].cycle = (tick + l - 1) \div div
            PROVE  begin \div div <= trace'[i].cycle /\ made'[i] = iter
        BY <1>8, <2>1, <3>1, <4>2
      <4> QED
        BY <1>2, <1>9, <4>1, <4>2
    <3> QED
      BY <1>4, <2>1, <3>1
  <2>2. CASE at = "begin" /\ m = 2 /\ begin' = tick'
    <3>1. begin' = tick + 2 /\ begin' \in Nat /\ begin' + 1 \in Nat
      BY <1>1, <1>2, <2>2
    <3>2. ASSUME NEW i \in 1 .. n + m, InRank(trace'[i].addr)
          PROVE  made'[i] < iter /\ trace'[i].cycle < begin' \div div
      <4>1. i \in 1 .. n /\ trace'[i] = trace[i] /\ made'[i] = made[i]
        <5>1. ASSUME NEW l \in 1 .. m, trace'[i].addr = s[l][1] PROVE FALSE
          <6>1. l >= 4 /\ l \in 1 .. 2
            BY <2>2, <3>2, <5>1 DEF m
          <6> QED
            BY <6>1
        <5> QED
          BY <1>9, <5>1
      <4>2. PICK u \in Nat : u < tick /\ trace[i].cycle = u \div div
        BY <1>6, <4>1
      <4>3. u + 3 <= begin'
        BY <1>2, <3>1, <4>2
      <4>4. u \div div < begin' \div div
        BY <1>2, <3>1, <4>3, NextCycle
      <4> QED
        BY <1>5, <2>2, <4>1, <4>2, <4>4
    <3>3. tick \div div < (begin' + 1) \div div
      <4>1. tick + 3 <= begin' + 1
        BY <1>2, <3>1
      <4> QED
        BY <1>2, <3>1, <4>1, NextCycle
    <3>4. tick \div div \in Nat /\ (begin' + 1) \div div \in Nat
      BY <1>2, <3>1, DivisionFacts
    <3>5. \A k \in 1 .. NWindows : windows[k].end < (begin' + 1) \div div
      BY <1>3, <3>3, <3>4
    <3>6. \A i \in 1 .. n : made[i] \in Int
      BY DEF MadeInv, n
    <3>7. ASSUME NEW i \in 1 .. n + m, InRank(trace'[i].addr) PROVE made'[i] # iter
      <4>1. i \in 1 .. n /\ made'[i] = made[i]
        <5>1. ASSUME NEW l \in 1 .. m, trace'[i].addr = s[l][1] PROVE FALSE
          <6>1. l >= 4 /\ l \in 1 .. 2
            BY <2>2, <3>7, <5>1 DEF m
          <6> QED
            BY <6>1
        <5> QED
          BY <1>9, <5>1
      <4> QED
        BY <1>2, <3>2, <3>6, <3>7, <4>1
    <3> QED
      BY <3>2, <3>5, <3>7
  <2> QED
    BY <1>11, <2>1, <2>2 DEF m
<1> QED
  BY <1>1, <1>10, <1>11

\* An access of the workload, of iteration t or before the first.
LEMMA AccessInv ==
  ASSUME PageType, WorkInv, MadeInv, TickInv, LoopInv, LineInv, CycleInv,
         NEW s \in Seq(Request), NEW t \in Int, Access(s, t), UNCHANGED <<iter, div>>,
         at # "rewrite", at' # "init",
         (at = "init" /\ t = -1 /\ trace = << >>) \/ (at # "init" /\ t = iter),
         at' = "begin" => at = "init",
         \A k \in 1 .. Len(s) : InRank(s[k][1]) =>
           /\ s[k][2] = "READ" => t >= 0 /\ InRange(s[k][1], SourceRange(t))
           /\ s[k][2] = "WRITE" =>
                t < ITERS /\ (t # -1 => InRange(s[k][1], DestRangeForIter(t)))
           /\ k >= 2 /\ (at = "begin" => k >= 4),
         at' \in {"vertex", "edges"} =>
           \/ at \in {"vertex", "edges"} /\ begin' = begin
           \/ at = "begin" /\ Len(s) = 2 /\ begin' = tick'
  PROVE  MadeInv' /\ TickInv' /\ LineInv' /\ CycleInv' /\ UNCHANGED windows
<1>1. iter \in Nat
  BY DEF PageType
<1>2. -1 <= t /\ t <= iter /\ (t = iter \/ trace = << >>)
      /\ (at' = "begin" => trace = << >> /\ t < iter)
  BY <1>1
<1>3. MadeInv'
  BY <1>2, MadeKept
<1>4. TickInv' /\ LineInv'
  BY TickKept, LinesKept
<1>5. CycleInv'
  BY CyclesKept
<1>6. UNCHANGED windows
  BY AccessFacts
<1> QED
  BY <1>3, <1>4, <1>5, <1>6

\* What has been written stays written.
LEMMA WroteGrows ==
  ASSUME PageType, MadeInv, NEW s \in Seq(Request), NEW t \in Int, Access(s, t)
  PROVE  /\ \A u, a : Wrote(u, a) => Wrote(u, a)'
         /\ \A k \in 1 .. Len(s) : \A a : s[k][1] = a /\ s[k][2] = "WRITE" => Wrote(t, a)'
<1> DEFINE n == Len(trace)  m == Len(s)
<1>1. /\ n \in Nat /\ m \in Nat /\ Len(trace') = n + m
      /\ \A i \in 1 .. n : trace'[i] = trace[i] /\ made'[i] = made[i]
      /\ \A k \in 1 .. m : /\ made'[n + k] = t /\ trace'[n + k].addr = s[k][1]
                           /\ trace'[n + k].op = s[k][2]
  BY AccessGrows DEF MadeInv
<1> HIDE DEF n
<1>2. ASSUME NEW u, NEW a, Wrote(u, a) PROVE Wrote(u, a)'
  <2>1. PICK i \in 1 .. n : trace[i].op = "WRITE" /\ trace[i].addr = a /\ made[i] = u
    BY <1>2 DEF Wrote, IsWrite, n
  <2>2. i \in 1 .. n + m /\ trace'[i] = trace[i] /\ made'[i] = made[i]
    BY <1>1
  <2> QED
    BY <1>1, <2>1, <2>2 DEF Wrote, IsWrite
<1>3. ASSUME NEW k \in 1 .. m, NEW a, s[k][1] = a, s[k][2] = "WRITE" PROVE Wrote(t, a)'
  <2>1. n + k \in 1 .. n + m
    BY <1>1
  <2>2. trace'[n + k].op = "WRITE" /\ trace'[n + k].addr = a /\ made'[n + k] = t
    BY <1>1, <1>3
  <2>3. \E i \in 1 .. Len(trace') :
          trace'[i].op = "WRITE" /\ trace'[i].addr = a /\ made'[i] = t
    BY <1>1, <2>1, <2>2
  <2> QED
    BY <2>3 DEF Wrote, IsWrite
<1> QED
  BY <1>2, <1>3

\* How the sets of an iteration's accesses grow.
LEMMA RanksGrow ==
  ASSUME PageType, MadeInv, NEW s \in Seq(Request), NEW t \in Int, Access(s, t),
         NEW u \in Int, NEW op
  PROVE  /\ IsFiniteSet(RanksOf(u, op)) /\ Cardinality(RanksOf(u, op)) \in Nat
         /\ (\A k \in 1 .. Len(s) : ~ (InRank(s[k][1]) /\ s[k][2] = op /\ t = u))
              => RanksOf(u, op)' = RanksOf(u, op)
         /\ \A l \in 1 .. Len(s) :
              (\A k \in 1 .. Len(s) : InRank(s[k][1]) /\ s[k][2] = op /\ t = u <=> k = l)
              => Cardinality(RanksOf(u, op)') = Cardinality(RanksOf(u, op)) + 1
<1> DEFINE n == Len(trace)  m == Len(s)
<1>1. /\ n \in Nat /\ m \in Nat /\ Len(trace') = n + m
      /\ \A i \in 1 .. n : trace'[i] = trace[i] /\ made'[i] = made[i]
      /\ \A k \in 1 .. m : /\ made'[n + k] = t /\ trace'[n + k].addr = s[k][1]
                           /\ trace'[n + k].op = s[k][2]
      /\ \A i \in 1 .. n + m : i \in 1 .. n \/ \E k \in 1 .. m : i = n + k
  BY AccessGrows DEF MadeInv
<1>2. IsFiniteSet(RanksOf(u, op)) /\ Cardinality(RanksOf(u, op)) \in Nat
  <2>1. IsFiniteSet(1 .. n)
    BY <1>1, FS_Interval
  <2>2. RanksOf(u, op) \in SUBSET (1 .. n)
    BY DEF RanksOf
  <2>3. IsFiniteSet(RanksOf(u, op))
    BY <2>1, <2>2, FS_Subset
  <2> QED
    BY <2>3, FS_CardinalityType
<1> HIDE DEF n
<1>3. RanksOf(u, op) = {i \in 1 .. n : InRank(trace[i].addr) /\ trace[i].op = op /\ made[i] = u}
  BY DEF RanksOf, OfRank, n
<1>4. RanksOf(u, op)'
        = {i \in 1 .. n + m : InRank(trace'[i].addr) /\ trace'[i].op = op /\ made'[i] = u}
  BY <1>1 DEF RanksOf, OfRank
<1>5. \A i \in 1 .. n : i \in 1 .. n + m /\ (i \in RanksOf(u, op)' <=> i \in RanksOf(u, op))
  BY <1>1, <1>3, <1>4
<1>6. \A k \in 1 .. m : /\ n + k \in 1 .. n + m /\ ~ (n + k \in 1 .. n)
                        /\ n + k \in RanksOf(u, op)' <=> InRank(s[k][1]) /\ s[k][2] = op /\ t = u
  BY <1>1, <1>4
<1>7. RanksOf(u, op)' \subseteq 1 .. n + m /\ RanksOf(u, op) \subseteq 1 .. n
  BY <1>3, <1>4
<1>8. ASSUME \A k \in 1 .. m : ~ (InRank(s[k][1]) /\ s[k][2] = op /\ t = u)
      PROVE  RanksOf(u, op)' = RanksOf(u, op)
  <2>1. \A i \in RanksOf(u, op)' : i \in 1 .. n
    BY <1>1, <1>6, <1>7, <1>8
  <2> QED
    BY <1>5, <1>7, <2>1
<1>9. ASSUME NEW l \in 1 .. m,
             \A k \in 1 .. m : InRank(s[k][1]) /\ s[k][2] = op /\ t = u <=> k = l
      PROVE  Cardinality(RanksOf(u, op)') = Cardinality(RanksOf(u, op)) + 1
  <2>1. \A i \in RanksOf(u, op)' : i \in 1 .. n \/ i = n + l
    BY <1>1, <1>6, <1>7, <1>9
  <2>2. n + l \in RanksOf(u, op)' /\ n + l \notin RanksOf(u, op)
    BY <1>6, <1>7, <1>9
  <2>3. RanksOf(u, op)' = RanksOf(u, op) \cup {n + l}
    BY <1>5, <1>7, <2>1, <2>2
  <2> QED
    BY <1>2, <2>2, <2>3, FS_AddElement
<1> QED
  BY <1>2, <1>8, <1>9

\* A list behind three others.
LEMMA ThreeThen ==
  ASSUME NEW S, NEW c \in Seq(S), Len(c) = 3, NEW f \in Seq(S)
  PROVE  /\ c \o f \in Seq(S) /\ Len(c \o f) = 3 + Len(f) /\ Len(f) \in Nat
         /\ (c \o f)[1] = c[1] /\ (c \o f)[2] = c[2] /\ (c \o f)[3] = c[3]
         /\ \A j \in 1 .. Len(f) : j + 3 \in 1 .. 3 + Len(f) /\ (c \o f)[j + 3] = f[j]
         /\ \A k \in 1 .. 3 + Len(f) :
              k = 1 \/ k = 2 \/ k = 3 \/ \E j \in 1 .. Len(f) : k = j + 3
<1>1. /\ c \o f \in Seq(S) /\ Len(c \o f) = 3 + Len(f) /\ Len(f) \in Nat
      /\ \A i \in 1 .. 3 + Len(f) : (c \o f)[i] = IF i <= 3 THEN c[i] ELSE f[i - 3]
  <2>1. /\ c \o f \in Seq(S) /\ Len(c \o f) = Len(c) + Len(f) /\ Len(f) \in Nat
        /\ \A i \in 1 .. Len(c) + Len(f) :
             (c \o f)[i] = IF i <= Len(c) THEN c[i] ELSE f[i - Len(c)]
    BY ONLY c \in Seq(S), f \in Seq(S), TwoLists
  <2> QED
    BY <2>1
<1>2. ASSUME NEW j \in 1 .. Len(f) PROVE j + 3 \in 1 .. 3 + Len(f) /\ (c \o f)[j + 3] = f[j]
  <2>1. j + 3 \in 1 .. 3 + Len(f) /\ ~ (j + 3 <= 3) /\ j + 3 - 3 = j
    BY <1>1
  <2> QED
    BY <1>1, <2>1
<1>3. ASSUME NEW k \in 1 .. 3 + Len(f)
      PROVE  k = 1 \/ k = 2 \/ k = 3 \/ \E j \in 1 .. Len(f) : k = j + 3
  <2>1. CASE k > 3
    <3>1. k - 3 \in 1 .. Len(f) /\ k = k - 3 + 3
      BY <1>1, <2>1
    <3> QED
      BY <3>1
  <2> QED
    BY <1>1, <2>1
<1>4. (c \o f)[1] = c[1] /\ (c \o f)[2] = c[2] /\ (c \o f)[3] = c[3]
  BY <1>1
<1> QED
  BY <1>1, <1>2, <1>3, <1>4

\* The requests of each step, and which of them are of the ranks.
LEMMA InitRequests ==
  ASSUME NEW s,
         s = <<Write(RowPtr), Write(OutDeg), Write(ColIdx)>>
             \o [n \in 1 .. 2 * NODES |->
                   IF n % 2 = 1 THEN Write(RankA(n \div 2))
                                ELSE Write(RankB(n \div 2 - 1))],
         PageType
  PROVE  /\ s \in Seq(Request)
         /\ \A k \in 1 .. Len(s) : s[k][2] = "WRITE" /\ (InRank(s[k][1]) => k >= 2)
         /\ \A n \in Nodes : \E k \in 1 .. Len(s) : s[k] = Write(RankA(n))
<1> DEFINE f == [n \in 1 .. 2 * NODES |->
                   IF n % 2 = 1 THEN Write(RankA(n \div 2)) ELSE Write(RankB(n \div 2 - 1))]
           c == <<Write(RowPtr), Write(OutDeg), Write(ColIdx)>>
<1>1. NODES \in Nat \ {0, 1} /\ iter \in Nat
  BY PageRankAssumption DEF PageType
<1>2. s \in Seq(Request) /\ s = c \o f
  BY Requests
<1>3. \A a \in Nat : Write(a) \in Request /\ Write(a)[1] = a /\ Write(a)[2] = "WRITE"
  BY DEF Write, Request
<1>4. /\ RowPtr \in Nat /\ ColIdx \in Nat /\ OutDeg \in Nat
      /\ \A n \in Nat : RankA(n) \in Nat /\ RankB(n) \in Nat
      /\ ~ InRank(RowPtr) /\ ~ InRank(ColIdx) /\ ~ InRank(OutDeg)
  BY <1>1, Addresses, RankAddresses
<1>5. c \in Seq(Request) /\ Len(c) = 3 /\ c[1] = Write(RowPtr) /\ c[2] = Write(OutDeg)
      /\ c[3] = Write(ColIdx)
  <2> HIDE DEF Write
  <2>1. Write(RowPtr) \in Request /\ Write(OutDeg) \in Request /\ Write(ColIdx) \in Request
    BY <1>3, <1>4
  <2> QED
    BY <2>1
<1>6. f \in Seq(Request) /\ Len(f) = 2 * NODES
  <2>1. ASSUME NEW n \in 1 .. 2 * NODES PROVE f[n] \in Request
    <3>1. n \div 2 \in Nat /\ (n % 2 # 1 => n \div 2 - 1 \in Nat)
      BY <1>1
    <3>2. Write(RankA(n \div 2)) \in Request
      BY <1>3, <1>4, <3>1
    <3>3. n % 2 # 1 => Write(RankB(n \div 2 - 1)) \in Request
      BY <1>3, <1>4, <3>1
    <3> QED
      BY <3>2, <3>3
  <2>2. f = [n \in 1 .. 2 * NODES |-> f[n]] /\ 2 * NODES \in Nat
    BY <1>1
  <2> HIDE DEF f
  <2>3. f \in Seq(Request)
    BY <2>1, <2>2
  <2>4. DOMAIN f = 1 .. 2 * NODES
    BY <2>2
  <2> QED
    BY <2>2, <2>3, <2>4, LenProperties
<1>7. \A n \in 1 .. 2 * NODES : f[n][2] = "WRITE"
  <2> SUFFICES ASSUME NEW n \in 1 .. 2 * NODES PROVE f[n][2] = "WRITE"
    OBVIOUS
  <2>1. \A x : Write(x)[2] = "WRITE"
    BY DEF Write
  <2> QED
    BY <2>1
<1>8. ASSUME NEW n \in Nodes PROVE 2 * n + 1 \in 1 .. 2 * NODES /\ f[2 * n + 1] = Write(RankA(n))
  <2>1. n \in Nat /\ n < NODES
    BY <1>1 DEF Nodes
  <2>2. (2 * n + 1) % 2 = 1 /\ (2 * n + 1) \div 2 = n /\ 2 * n + 1 \in 1 .. 2 * NODES
    BY <1>1, <2>1
  <2> QED
    BY <2>2
<1> HIDE DEF c, f
<1>9. /\ Len(s) = 3 + 2 * NODES
      /\ s[1] = c[1] /\ s[2] = c[2] /\ s[3] = c[3]
      /\ \A j \in 1 .. 2 * NODES : j + 3 \in 1 .. 3 + 2 * NODES /\ s[j + 3] = f[j]
      /\ \A k \in 1 .. 3 + 2 * NODES :
           k = 1 \/ k = 2 \/ k = 3 \/ \E j \in 1 .. 2 * NODES : k = j + 3
  BY <1>2, <1>5, <1>6, ThreeThen
<1>10. ASSUME NEW k \in 1 .. Len(s)
       PROVE  s[k][2] = "WRITE" /\ (InRank(s[k][1]) => k >= 2)
  <2>1. CASE k = 1 \/ k = 2 \/ k = 3
    <3>1. s[k] = Write(RowPtr) \/ s[k] = Write(OutDeg) \/ s[k] = Write(ColIdx)
      BY <1>5, <1>9, <2>1
    <3> QED
      BY <1>3, <1>4, <3>1
  <2>2. ASSUME NEW j \in 1 .. 2 * NODES, k = j + 3
        PROVE  s[k][2] = "WRITE" /\ k >= 2
    <3>1. s[k] = f[j] /\ k >= 2
      BY <1>1, <1>9, <2>2
    <3>2. f[j][2] = "WRITE"
      BY <1>7
    <3> QED
      BY ONLY <3>1, <3>2
  <2> QED
    BY <1>9, <2>1, <2>2
<1>11. ASSUME NEW n \in Nodes PROVE \E k \in 1 .. Len(s) : s[k] = Write(RankA(n))
  <2>1. 2 * n + 1 \in 1 .. 2 * NODES /\ f[2 * n + 1] = Write(RankA(n))
    BY <1>8
  <2>2. 2 * n + 1 + 3 \in 1 .. Len(s) /\ s[2 * n + 1 + 3] = f[2 * n + 1]
    BY <1>9, <2>1
  <2> QED
    BY <2>1, <2>2
<1> QED
  BY <1>2, <1>10, <1>11

LEMMA BeginRequests ==
  ASSUME NEW s, s = <<Read(Code), Read(Code)>>, PageType
  PROVE  s \in Seq(Request) /\ Len(s) = 2 /\ \A k \in 1 .. Len(s) : ~ InRank(s[k][1])
<1>1. s \in Seq(Request) /\ ~ InRank(Code)
  BY Requests, RankAddresses DEF PageType
<1> QED
  BY <1>1 DEF Read

LEMMA VertexRequests ==
  ASSUME NEW s, s = <<Read(RowPtr), Read(RowPtr), Write(Acc)>>, PageType
  PROVE  s \in Seq(Request) /\ Len(s) = 3 /\ \A k \in 1 .. Len(s) : ~ InRank(s[k][1])
<1>1. s \in Seq(Request) /\ ~ InRank(RowPtr) /\ ~ InRank(Acc)
  BY Requests, RankAddresses DEF PageType
<1>2. Len(s) = 3 /\ s[1][1] = RowPtr /\ s[2][1] = RowPtr /\ s[3][1] = Acc
  BY DEF Read, Write
<1>3. \A k \in 1 .. 3 : k = 1 \/ k = 2 \/ k = 3
  OBVIOUS
<1> QED
  BY <1>1, <1>2, <1>3

LEMMA EdgeRequests ==
  ASSUME NEW s, NEW n \in Nodes,
         s = <<Read(ColIdx), Read(OutDeg), Read(OldRank(n)), Read(Acc), Write(Acc)>>,
         PageType
  PROVE  /\ s \in Seq(Request) /\ Len(s) = 5
         /\ \A k \in 1 .. Len(s) : InRank(s[k][1]) <=> k = 3
         /\ s[3] = <<OldRank(n), "READ">>
<1>1. /\ n \in Nat /\ iter \in Nat
  BY PageRankAssumption DEF Nodes, PageType
<1>2. /\ s \in Seq(Request) /\ ~ InRank(ColIdx) /\ ~ InRank(OutDeg) /\ ~ InRank(Acc)
  BY <1>1, Requests, RankAddresses
<1>3. InRange(OldRank(n), SourceRange(iter))
  BY <1>1, RankAddresses
<1>4. InRank(OldRank(n))
  BY <1>3 DEF SourceRange, InRank
<1>5. Len(s) = 5 /\ s[1][1] = ColIdx /\ s[2][1] = OutDeg /\ s[3] = <<OldRank(n), "READ">>
      /\ s[4][1] = Acc /\ s[5][1] = Acc
  BY DEF Read, Write
<1>6. \A k \in 1 .. 5 : k = 1 \/ k = 2 \/ k = 3 \/ k = 4 \/ k = 5
  OBVIOUS
<1>7. s[3][1] = OldRank(n)
  BY <1>5
<1> QED
  BY <1>2, <1>4, <1>5, <1>6, <1>7

LEMMA StoreRequests ==
  ASSUME NEW s, NEW n \in Nodes, s = <<Read(Acc), Write(NewRank(n))>>, PageType
  PROVE  /\ s \in Seq(Request) /\ Len(s) = 2
         /\ \A k \in 1 .. Len(s) : InRank(s[k][1]) <=> k = 2
         /\ s[2] = <<NewRank(n), "WRITE">>
<1>1. /\ n \in Nat /\ iter \in Nat
  BY PageRankAssumption DEF Nodes, PageType
<1>2. s \in Seq(Request) /\ ~ InRank(Acc)
  BY <1>1, Requests, RankAddresses
<1>3. InRange(NewRank(n), DestRangeForIter(iter))
  BY <1>1, RankAddresses
<1>4. InRank(NewRank(n))
  BY <1>3 DEF DestRangeForIter, InRank
<1>5. Len(s) = 2 /\ s[1][1] = Acc /\ s[2] = <<NewRank(n), "WRITE">>
  BY DEF Read, Write
<1>6. s[2][1] = NewRank(n)
  BY <1>5
<1> QED
  BY <1>2, <1>4, <1>5, <1>6

LEMMA ChecksumRequests ==
  ASSUME NEW s,
         s = <<Read(Code), Read(Code), Read(Code)>>
             \o [n \in 1 .. NODES |-> Read(OldRank(n - 1))],
         PageType
  PROVE  /\ s \in Seq(Request) /\ Len(s) > 0
         /\ \A k \in 1 .. Len(s) : /\ s[k][2] = "READ"
                                   /\ InRank(s[k][1]) => k >= 4 /\ InRange(s[k][1], SourceRange(iter))
<1> DEFINE f == [n \in 1 .. NODES |-> Read(OldRank(n - 1))]
           c == <<Read(Code), Read(Code), Read(Code)>>
<1>1. NODES \in Nat \ {0, 1} /\ iter \in Nat
  BY PageRankAssumption DEF PageType
<1>2. s \in Seq(Request) /\ s = c \o f
  BY Requests
<1>3. \A a \in Nat : Read(a) \in Request
  BY DEF Read, Request
<1>4. \A a : Read(a)[1] = a /\ Read(a)[2] = "READ"
  BY DEF Read
<1>5. Code \in Nat /\ ~ InRank(Code) /\ \A n \in Nat : OldRank(n) \in Nat
  BY <1>1, Addresses, RankAddresses
<1>6. c \in Seq(Request) /\ Len(c) = 3 /\ c[1] = Read(Code) /\ c[2] = Read(Code)
      /\ c[3] = Read(Code)
  <2> HIDE DEF Read
  <2>1. Read(Code) \in Request
    BY <1>3, <1>5
  <2> QED
    BY <2>1
<1>7. f \in Seq(Request) /\ Len(f) = NODES
  <2> HIDE DEF Read
  <2>1. \A n \in 1 .. NODES : Read(OldRank(n - 1)) \in Request
    BY <1>1, <1>3, <1>5
  <2> QED
    BY <1>1, <2>1
<1>8. ASSUME NEW n \in 1 .. NODES
      PROVE  f[n][2] = "READ" /\ InRange(f[n][1], SourceRange(iter))
  <2>1. n - 1 \in Nodes
    BY <1>1 DEF Nodes
  <2>2. InRange(OldRank(n - 1), SourceRange(iter))
    BY <1>1, <2>1, RankAddresses
  <2>3. f[n] = Read(OldRank(n - 1))
    OBVIOUS
  <2> QED
    BY <1>4, <2>2, <2>3
<1> HIDE DEF c, f
<1>9. /\ Len(s) = 3 + NODES
      /\ s[1] = c[1] /\ s[2] = c[2] /\ s[3] = c[3]
      /\ \A j \in 1 .. NODES : j + 3 \in 1 .. 3 + NODES /\ s[j + 3] = f[j]
      /\ \A k \in 1 .. 3 + NODES :
           k = 1 \/ k = 2 \/ k = 3 \/ \E j \in 1 .. NODES : k = j + 3
  BY <1>2, <1>6, <1>7, ThreeThen
<1>10. ASSUME NEW k \in 1 .. Len(s)
       PROVE  /\ s[k][2] = "READ"
              /\ InRank(s[k][1]) => k >= 4 /\ InRange(s[k][1], SourceRange(iter))
  <2>1. CASE k = 1 \/ k = 2 \/ k = 3
    <3>1. s[k] = Read(Code)
      BY <1>6, <1>9, <2>1
    <3> QED
      BY <1>4, <1>5, <3>1
  <2>2. ASSUME NEW j \in 1 .. NODES, k = j + 3
        PROVE  k >= 4 /\ s[k][2] = "READ" /\ InRange(s[k][1], SourceRange(iter))
    <3>1. s[k] = f[j] /\ k >= 4
      BY <1>1, <1>9, <2>2
    <3> QED
      BY <1>8, <3>1
  <2> QED
    BY <1>9, <2>1, <2>2
<1>11. Len(s) > 0
  BY <1>1, <1>9
<1> QED
  BY <1>2, <1>10, <1>11
-----------------------------------------------------------------------------
(***************************************************************************)
(* The steps of the workload.                                              *)
(***************************************************************************)

TraceParts == /\ MadeInv /\ TickInv /\ LoopInv /\ LineInv /\ WroteInv /\ CountInv /\ CycleInv

\* The iterations that have ended are left alone.
LEMMA EndedKept ==
  ASSUME PageType, MadeInv, WroteInv, CountInv, NEW s \in Seq(Request), Access(s, iter),
         at # "init"
  PROVE  /\ \A n \in Nodes : Wrote(-1, RankA(n))'
         /\ \A u \in 0 .. iter - 1, n \in Nodes : Wrote(u, Rank(u, n))'
         /\ \A u \in 0 .. iter - 1 : /\ Cardinality(RanksOf(u, "READ")') = NODES * DEG
                                     /\ Cardinality(RanksOf(u, "WRITE")') = NODES
<1>1. iter \in Nat /\ iter \in Int
  BY DEF PageType
<1>2. \A u, a : Wrote(u, a) => Wrote(u, a)'
  BY <1>1, WroteGrows
<1>3. ASSUME NEW u \in 0 .. iter - 1, NEW op PROVE RanksOf(u, op)' = RanksOf(u, op)
  <2>1. u \in Int /\ iter # u
    BY <1>1
  <2> QED
    BY <1>1, <2>1, RanksGrow
<1>4. /\ \A n \in Nodes : Wrote(-1, RankA(n))
      /\ \A u \in 0 .. iter - 1, n \in Nodes : Wrote(u, Rank(u, n))
  BY DEF WroteInv
<1>5. \A u \in 0 .. iter - 1 : /\ Cardinality(RanksOf(u, "READ")) = NODES * DEG
                               /\ Cardinality(RanksOf(u, "WRITE")) = NODES
  BY DEF CountInv
<1>6. (\A n \in Nodes : Wrote(-1, RankA(n))')
      /\ \A u \in 0 .. iter - 1, n \in Nodes : Wrote(u, Rank(u, n))'
  BY <1>2, <1>4
<1> QED
  BY <1>3, <1>5, <1>6

LEMMA InitTrace ==
  ASSUME PageType, WorkInv, TraceParts, InitGraph
  PROVE  TraceParts'
<1> DEFINE s == <<Write(RowPtr), Write(OutDeg), Write(ColIdx)>>
                \o [n \in 1 .. 2 * NODES |->
                      IF n % 2 = 1 THEN Write(RankA(n \div 2)) ELSE Write(RankB(n \div 2 - 1))]
<1>1. /\ at = "init" /\ at' = "begin" /\ Access(s, -1)
      /\ UNCHANGED <<iter, v, e, col_idx, div, begin>>
  BY DEF InitGraph
<1>2. /\ s \in Seq(Request)
      /\ \A k \in 1 .. Len(s) : s[k][2] = "WRITE" /\ (InRank(s[k][1]) => k >= 2)
      /\ \A n \in Nodes : \E k \in 1 .. Len(s) : s[k] = Write(RankA(n))
  BY InitRequests
<1> HIDE DEF s
<1>3. MadeInv /\ TickInv /\ LoopInv /\ LineInv /\ WroteInv /\ CountInv /\ CycleInv
  BY DEF TraceParts
<1>4. iter = 0 /\ NWindows = 0 /\ ITERS \in Nat
  BY <1>1, <1>3, PageRankAssumption DEF LoopInv
<1>5. trace = << >>
  <2>1. \A i \in 1 .. Len(trace) : FALSE
    BY <1>1, <1>3 DEF MadeInv
  <2>2. trace \in Seq(Line) /\ Len(trace) \in Nat
    BY DEF PageType
  <2>3. Len(trace) = 0
    BY <2>1, <2>2
  <2> QED
    BY <2>2, <2>3, EmptySeq
<1>6. MadeInv' /\ TickInv' /\ LineInv' /\ CycleInv' /\ UNCHANGED windows
  <2>1. PICK t \in Int : t = -1
    OBVIOUS
  <2>2. \A k \in 1 .. Len(s) : InRank(s[k][1]) =>
           /\ s[k][2] = "READ" => t >= 0 /\ InRange(s[k][1], SourceRange(t))
           /\ s[k][2] = "WRITE" =>
                t < ITERS /\ (t # -1 => InRange(s[k][1], DestRangeForIter(t)))
           /\ k >= 2 /\ (at = "begin" => k >= 4)
    BY <1>1, <1>2, <1>4, <2>1
  <2>3. /\ Access(s, t) /\ UNCHANGED <<iter, div>> /\ at # "rewrite" /\ at' # "init"
        /\ (at = "init" /\ t = -1 /\ trace = << >>) \/ (at # "init" /\ t = iter)
        /\ at' = "begin" => at = "init"
        /\ at' \in {"vertex", "edges"} =>
             \/ at \in {"vertex", "edges"} /\ begin' = begin
             \/ at = "begin" /\ Len(s) = 2 /\ begin' = tick'
    <3>1. Access(s, t)
      BY <1>1, <2>1
    <3>2. at' \notin {"init", "vertex", "edges"} /\ at = "init" /\ at' = "begin"
      BY <1>1
    <3> QED
      BY <1>1, <1>5, <2>1, <3>1, <3>2
  <2> QED
    BY <1>2, <1>3, <2>2, <2>3, AccessInv
<1>7. LoopInv'
  BY <1>1, <1>4, <1>6 DEF LoopInv, NWindows
<1>8. WroteInv'
  <2>1. \A k \in 1 .. Len(s) : \A a : s[k][1] = a /\ s[k][2] = "WRITE" => Wrote(-1, a)'
    BY <1>1, <1>2, <1>3, WroteGrows
  <2>2. ASSUME NEW n \in Nodes PROVE Wrote(-1, RankA(n))'
    <3>1. PICK k \in 1 .. Len(s) : s[k] = Write(RankA(n))
      BY <1>2
    <3>2. s[k][1] = RankA(n) /\ s[k][2] = "WRITE"
      BY <3>1 DEF Write
    <3> QED
      BY <2>1, <3>2
  <2>3. 0 .. iter' - 1 = {}
    BY <1>1, <1>4
  <2> QED
    BY <1>1, <2>2, <2>3 DEF WroteInv
<1>9. CountInv'
  <2>1. 0 .. iter' - 1 = {}
    BY <1>1, <1>4
  <2> QED
    BY <1>1, <2>1 DEF CountInv
<1> QED
  BY <1>6, <1>7, <1>8, <1>9 DEF TraceParts

LEMMA BeginTrace ==
  ASSUME PageType, WorkInv, TraceParts, WorkBegin
  PROVE  TraceParts'
<1> DEFINE s == <<Read(Code), Read(Code)>>
<1>1. /\ at = "begin" /\ at' = "vertex" /\ iter < ITERS /\ Access(s, iter)
      /\ begin' = tick' /\ v' = 0 /\ UNCHANGED <<iter, e, col_idx, div>>
  BY DEF WorkBegin
<1>2. s \in Seq(Request) /\ Len(s) = 2 /\ \A k \in 1 .. Len(s) : ~ InRank(s[k][1])
  BY BeginRequests
<1> HIDE DEF s
<1>3. MadeInv /\ TickInv /\ LoopInv /\ LineInv /\ WroteInv /\ CountInv /\ CycleInv
  BY DEF TraceParts
<1>4. iter \in Nat /\ iter \in Int /\ NODES \in Nat
  BY PageRankAssumption DEF PageType
<1>5. MadeInv' /\ TickInv' /\ LineInv' /\ CycleInv' /\ UNCHANGED windows
  BY <1>1, <1>2, <1>3, <1>4, AccessInv
<1>6. LoopInv'
  BY <1>1, <1>3, <1>4, <1>5 DEF LoopInv, NWindows
<1>7. /\ \A n \in Nodes : Wrote(-1, RankA(n))'
      /\ \A u \in 0 .. iter - 1, n \in Nodes : Wrote(u, Rank(u, n))'
      /\ \A u \in 0 .. iter - 1 : /\ Cardinality(RanksOf(u, "READ")') = NODES * DEG
                                  /\ Cardinality(RanksOf(u, "WRITE")') = NODES
  BY <1>1, <1>2, <1>3, EndedKept
<1>8. WroteInv'
  <2>1. 0 .. v' - 1 = {}
    BY <1>1
  <2> QED
    BY <1>1, <1>7, <2>1 DEF WroteInv
<1>9. ASSUME NEW op PROVE Cardinality(RanksOf(iter, op)') = 0
  <2>1. RanksOf(iter, op)' = RanksOf(iter, op)
    BY <1>1, <1>2, <1>3, <1>4, RanksGrow
  <2>2. \A i \in 1 .. Len(trace) : made[i] \in Int /\ made[i] < iter
    BY <1>1, <1>3 DEF MadeInv
  <2>3. \A i \in RanksOf(iter, op) : i \in 1 .. Len(trace) /\ made[i] = iter
    BY DEF RanksOf
  <2>4. RanksOf(iter, op) = {}
    BY <1>4, <2>2, <2>3
  <2> QED
    BY <2>1, <2>4, FS_EmptySet
<1>10. CountInv'
  <2>1. RowStart(v') = 0
    BY <1>1, PageRankAssumption DEF RowStart
  <2> QED
    BY <1>1, <1>7, <1>9, <2>1 DEF CountInv
<1> QED
  BY <1>5, <1>6, <1>8, <1>10 DEF TraceParts

LEMMA VertexTrace ==
  ASSUME PageType, WorkInv, TraceParts, VertexStart
  PROVE  TraceParts'
<1> DEFINE s == <<Read(RowPtr), Read(RowPtr), Write(Acc)>>
<1>1. /\ at = "vertex" /\ at' = "edges" /\ v < NODES /\ Access(s, iter)
      /\ e' = RowStart(v) /\ UNCHANGED <<iter, v, col_idx, div, begin>>
  BY DEF VertexStart
<1>2. s \in Seq(Request) /\ Len(s) = 3 /\ \A k \in 1 .. Len(s) : ~ InRank(s[k][1])
  BY VertexRequests
<1> HIDE DEF s
<1>3. MadeInv /\ TickInv /\ LoopInv /\ LineInv /\ WroteInv /\ CountInv /\ CycleInv
  BY DEF TraceParts
<1>4. iter \in Nat /\ iter \in Int /\ v \in Nat /\ NODES \in Nat /\ DEG \in Nat
  BY PageRankAssumption DEF PageType
<1>5. MadeInv' /\ TickInv' /\ LineInv' /\ CycleInv' /\ UNCHANGED windows
  BY <1>1, <1>2, <1>3, <1>4, AccessInv
<1>6. LoopInv'
  <2>1. RowStart(v) \in RowStart(v) .. RowStart(v + 1)
    <3>1. RowStart(v) \in Nat /\ RowStart(v + 1) = RowStart(v) + DEG
      BY <1>4 DEF RowStart
    <3> QED
      BY <1>4, <3>1
  <2> QED
    BY <1>1, <1>3, <1>4, <1>5, <2>1 DEF LoopInv, NWindows
<1>7. /\ \A n \in Nodes : Wrote(-1, RankA(n))'
      /\ \A u \in 0 .. iter - 1, n \in Nodes : Wrote(u, Rank(u, n))'
      /\ \A u \in 0 .. iter - 1 : /\ Cardinality(RanksOf(u, "READ")') = NODES * DEG
                                  /\ Cardinality(RanksOf(u, "WRITE")') = NODES
  BY <1>1, <1>2, <1>3, EndedKept
<1>8. WroteInv'
  <2>1. \A n \in 0 .. v - 1 : Wrote(iter, Rank(iter, n))'
    BY <1>1, <1>2, <1>3, <1>4, WroteGrows DEF WroteInv
  <2> QED
    BY <1>1, <1>7, <2>1 DEF WroteInv
<1>9. \A op : RanksOf(iter, op)' = RanksOf(iter, op)
  BY <1>1, <1>2, <1>3, <1>4, RanksGrow
<1>10. CountInv'
  <2>1. /\ Cardinality(RanksOf(iter, "READ")) = RowStart(v)
        /\ Cardinality(RanksOf(iter, "WRITE")) = v
    BY <1>1, <1>3 DEF CountInv
  <2> QED
    BY <1>1, <1>7, <1>9, <2>1 DEF CountInv
<1> QED
  BY <1>5, <1>6, <1>8, <1>10 DEF TraceParts

LEMMA EdgeTrace ==
  ASSUME PageType, WorkInv, TraceParts, GatherEdge
  PROVE  TraceParts'
<1>1. /\ at = "edges" /\ e < RowStart(v + 1) /\ e' = e + 1
      /\ Access(<<Read(ColIdx), Read(OutDeg), Read(OldRank(col_idx[e])), Read(Acc), Write(Acc)>>,
                iter)
      /\ UNCHANGED <<at, iter, v, col_idx, div, begin>>
  BY DEF GatherEdge
<1>2. MadeInv /\ TickInv /\ LoopInv /\ LineInv /\ WroteInv /\ CountInv /\ CycleInv
  BY DEF TraceParts
<1>3. /\ iter \in Nat /\ iter \in Int /\ v \in Nat /\ e \in Nat /\ NODES \in Nat /\ DEG \in Nat
      /\ v < NODES /\ col_idx \in [Edges -> Nodes]
  BY <1>1, PageRankAssumption DEF PageType, WorkInv
<1>4. col_idx[e] \in Nodes
  BY <1>1, <1>3, EdgeOfNode
<1> DEFINE s == <<Read(ColIdx), Read(OutDeg), Read(OldRank(col_idx[e])), Read(Acc), Write(Acc)>>
<1>5. /\ s \in Seq(Request) /\ Len(s) = 5 /\ Access(s, iter)
      /\ \A k \in 1 .. Len(s) : InRank(s[k][1]) <=> k = 3
      /\ s[3] = <<OldRank(col_idx[e]), "READ">>
  BY <1>1, <1>4, EdgeRequests
<1> HIDE DEF s
<1>6. s[3][1] = OldRank(col_idx[e]) /\ s[3][2] = "READ"
  BY <1>5
<1>7. InRange(OldRank(col_idx[e]), SourceRange(iter))
  BY <1>3, <1>4, RankAddresses
<1>8. MadeInv' /\ TickInv' /\ LineInv' /\ CycleInv' /\ UNCHANGED windows
  <2>1. \A k \in 1 .. Len(s) : InRank(s[k][1]) =>
           /\ s[k][2] = "READ" => iter >= 0 /\ InRange(s[k][1], SourceRange(iter))
           /\ s[k][2] = "WRITE" =>
                iter < ITERS /\ (iter # -1 => InRange(s[k][1], DestRangeForIter(iter)))
           /\ k >= 2 /\ (at = "begin" => k >= 4)
    BY <1>1, <1>3, <1>5, <1>6, <1>7
  <2> QED
    BY <1>1, <1>2, <1>3, <1>5, <2>1, AccessInv
<1>9. LoopInv'
  <2>1. e' \in RowStart(v) .. RowStart(v + 1)
    <3>1. e \in RowStart(v) .. RowStart(v + 1)
      BY <1>1, <1>2 DEF LoopInv
    <3>2. RowStart(v) \in Nat /\ RowStart(v + 1) \in Nat
      BY <1>3 DEF RowStart
    <3> QED
      BY <1>1, <3>1, <3>2
  <2> QED
    BY <1>1, <1>2, <1>8, <2>1 DEF LoopInv, NWindows
<1>10. /\ \A n \in Nodes : Wrote(-1, RankA(n))'
       /\ \A u \in 0 .. iter - 1, n \in Nodes : Wrote(u, Rank(u, n))'
       /\ \A u \in 0 .. iter - 1 : /\ Cardinality(RanksOf(u, "READ")') = NODES * DEG
                                   /\ Cardinality(RanksOf(u, "WRITE")') = NODES
  BY <1>1, <1>2, <1>5, EndedKept
<1>11. WroteInv'
  <2>1. \A n \in 0 .. v - 1 : Wrote(iter, Rank(iter, n))'
    BY <1>1, <1>2, <1>3, <1>5, WroteGrows DEF WroteInv
  <2> QED
    BY <1>1, <1>10, <2>1 DEF WroteInv
<1>12. RanksOf(iter, "WRITE")' = RanksOf(iter, "WRITE")
  <2>1. \A k \in 1 .. Len(s) : ~ (InRank(s[k][1]) /\ s[k][2] = "WRITE" /\ iter = iter)
    BY <1>5, <1>6
  <2>2. s \in Seq(Request) /\ Access(s, iter) /\ iter' = iter
    BY <1>1, <1>5
  <2> QED
    BY <1>2, <1>3, <2>1, <2>2, RanksGrow
<1>13. Cardinality(RanksOf(iter, "READ")') = Cardinality(RanksOf(iter, "READ")) + 1
  <2>1. \A k \in 1 .. Len(s) : InRank(s[k][1]) /\ s[k][2] = "READ" /\ iter = iter <=> k = 3
    BY <1>5, <1>6
  <2>2. 3 \in 1 .. Len(s) /\ s \in Seq(Request) /\ Access(s, iter) /\ iter' = iter
    BY <1>1, <1>5
  <2> QED
    BY <1>2, <1>3, <2>1, <2>2, RanksGrow
<1>14. CountInv'
  <2>1. /\ Cardinality(RanksOf(iter, "READ")) = e
        /\ Cardinality(RanksOf(iter, "WRITE")) = v
    BY <1>1, <1>2 DEF CountInv
  <2> QED
    BY <1>1, <1>10, <1>12, <1>13, <2>1 DEF CountInv
<1> QED
  BY <1>8, <1>9, <1>11, <1>14 DEF TraceParts

LEMMA StoreTrace ==
  ASSUME PageType, WorkInv, TraceParts, StoreRank
  PROVE  TraceParts'
<1> DEFINE s == <<Read(Acc), Write(NewRank(v))>>
<1>1. /\ at = "edges" /\ at' = "vertex" /\ e = RowStart(v + 1) /\ v' = v + 1
      /\ Access(s, iter) /\ UNCHANGED <<iter, e, col_idx, div, begin>>
  BY DEF StoreRank
<1>2. MadeInv /\ TickInv /\ LoopInv /\ LineInv /\ WroteInv /\ CountInv /\ CycleInv
  BY DEF TraceParts
<1>3. /\ iter \in Nat /\ iter \in Int /\ v \in Nat /\ NODES \in Nat /\ DEG \in Nat
      /\ v < NODES /\ v \in Nodes /\ iter < ITERS
  BY <1>1, <1>2, PageRankAssumption DEF PageType, WorkInv, Nodes, LoopInv
<1>4. /\ s \in Seq(Request) /\ Len(s) = 2
      /\ \A k \in 1 .. Len(s) : InRank(s[k][1]) <=> k = 2
      /\ s[2] = <<NewRank(v), "WRITE">>
  BY <1>3, StoreRequests
<1> HIDE DEF s
<1>5. s[2][1] = NewRank(v) /\ s[2][2] = "WRITE"
  BY <1>4
<1>6. InRange(NewRank(v), DestRangeForIter(iter)) /\ NewRank(v) = Rank(iter, v)
  BY <1>3, RankAddresses
<1>7. MadeInv' /\ TickInv' /\ LineInv' /\ CycleInv' /\ UNCHANGED windows
  <2>1. \A k \in 1 .. Len(s) : InRank(s[k][1]) =>
           /\ s[k][2] = "READ" => iter >= 0 /\ InRange(s[k][1], SourceRange(iter))
           /\ s[k][2] = "WRITE" =>
                iter < ITERS /\ (iter # -1 => InRange(s[k][1], DestRangeForIter(iter)))
           /\ k >= 2 /\ (at = "begin" => k >= 4)
    BY <1>1, <1>3, <1>4, <1>5, <1>6
  <2> QED
    BY <1>1, <1>2, <1>3, <1>4, <2>1, AccessInv
<1>8. LoopInv'
  BY <1>1, <1>2, <1>3, <1>7 DEF LoopInv, NWindows
<1>9. /\ \A n \in Nodes : Wrote(-1, RankA(n))'
      /\ \A u \in 0 .. iter - 1, n \in Nodes : Wrote(u, Rank(u, n))'
      /\ \A u \in 0 .. iter - 1 : /\ Cardinality(RanksOf(u, "READ")') = NODES * DEG
                                  /\ Cardinality(RanksOf(u, "WRITE")') = NODES
  BY <1>1, <1>2, <1>4, EndedKept
<1>10. WroteInv'
  <2>1. \A n \in 0 .. v - 1 : Wrote(iter, Rank(iter, n))'
    BY <1>1, <1>2, <1>3, <1>4, WroteGrows DEF WroteInv
  <2>2. \A n \in 0 .. v : n = v => Wrote(iter, Rank(iter, n))'
    <3> SUFFICES ASSUME NEW n \in 0 .. v, n = v PROVE Wrote(iter, Rank(iter, n))'
      OBVIOUS
    <3>1. 2 \in 1 .. Len(s) /\ s[2][2] = "WRITE" /\ s[2][1] = Rank(iter, n) /\ iter' = iter
      BY <1>1, <1>4, <1>5, <1>6
    <3>2. PICK t, a : t = iter /\ a = Rank(iter, n)
      OBVIOUS
    <3>3. Wrote(t, a)'
      BY <1>1, <1>2, <1>3, <1>4, <3>1, <3>2, WroteGrows
    <3> QED
      BY <3>1, <3>2, <3>3 DEF Rank
  <2>3. \A n \in 0 .. v' - 1 : n \in 0 .. v /\ (n \in 0 .. v - 1 \/ n = v)
    BY <1>1, <1>3
  <2>4. \A n \in 0 .. v' - 1 : Wrote(iter, Rank(iter, n))'
    BY <2>1, <2>2, <2>3
  <2> QED
    BY <1>1, <1>9, <2>4 DEF WroteInv
<1>11. RanksOf(iter, "READ")' = RanksOf(iter, "READ")
  <2>1. \A k \in 1 .. Len(s) : ~ (InRank(s[k][1]) /\ s[k][2] = "READ" /\ iter = iter)
    BY <1>4, <1>5
  <2> QED
    BY <1>1, <1>2, <1>3, <1>4, <2>1, RanksGrow
<1>12. Cardinality(RanksOf(iter, "WRITE")') = Cardinality(RanksOf(iter, "WRITE")) + 1
  <2>1. \A k \in 1 .. Len(s) : InRank(s[k][1]) /\ s[k][2] = "WRITE" /\ iter = iter <=> k = 2
    BY <1>4, <1>5
  <2>2. 2 \in 1 .. Len(s)
    BY <1>4
  <2> QED
    BY <1>1, <1>2, <1>3, <1>4, <2>1, <2>2, RanksGrow
<1>13. CountInv'
  <2>1. /\ Cardinality(RanksOf(iter, "READ")) = e
        /\ Cardinality(RanksOf(iter, "WRITE")) = v
    BY <1>1, <1>2 DEF CountInv
  <2> QED
    BY <1>1, <1>9, <1>11, <1>12, <2>1 DEF CountInv
<1> QED
  BY <1>7, <1>8, <1>10, <1>13 DEF TraceParts

LEMMA EndTrace ==
  ASSUME PageType, WorkInv, TraceParts, WorkEnd
  PROVE  TraceParts'
<1> DEFINE w == [id |-> iter, begin |-> begin \div div, end |-> tick \div div]
<1>1. /\ at = "vertex" /\ at' = "begin" /\ v = NODES /\ windows' = Append(windows, w)
      /\ iter' = iter + 1 /\ UNCHANGED <<trace, v, e, col_idx, div, tick, begin, made>>
  BY DEF WorkEnd
<1>2. MadeInv /\ TickInv /\ LoopInv /\ LineInv /\ WroteInv /\ CountInv /\ CycleInv
  BY DEF TraceParts
<1>3. /\ iter \in Nat /\ NODES \in Nat /\ DEG \in Nat /\ tick \in Nat /\ div \in Nat \ {0}
      /\ ITERS \in Nat /\ begin \in Nat /\ begin <= tick /\ iter < ITERS /\ NWindows = iter
      /\ windows \in Seq(Windows(Nat))
  BY <1>1, <1>2, PageRankAssumption DEF PageType, WorkInv, LoopInv
<1>4. /\ begin \div div \in Nat /\ tick \div div \in Nat /\ begin \div div <= tick \div div
  BY <1>1, WindowsOver
<1>5. w.id = iter /\ w.begin = begin \div div /\ w.end = tick \div div /\ w \in Windows(Nat)
  BY <1>3, <1>4 DEF Windows
<1> HIDE DEF w
<1>6. /\ NWindows' = iter + 1
      /\ \A k \in 1 .. iter : windows'[k] = windows[k]
      /\ windows'[iter + 1] = w
      /\ \A k \in 1 .. iter + 1 : k \in 1 .. iter \/ k = iter + 1
  BY <1>1, <1>3, <1>5, AppendProperties DEF NWindows
<1>7. /\ \A i \in 1 .. Len(trace) : made[i] \in Int /\ -1 <= made[i] /\ made[i] <= iter
      /\ Len(trace) \in Nat
      /\ \A i \in 1 .. Len(trace) : trace[i].cycle \in Nat
  <2>1. Len(trace) \in Nat /\ \A i \in 1 .. Len(trace) : trace[i] \in Line
    BY DEF PageType
  <2> QED
    BY <1>2, <2>1 DEF MadeInv, Line
<1>8. MadeInv'
  <2>1. \A i \in 1 .. Len(trace) : made[i] <= iter + 1 /\ made[i] < iter + 1
    BY <1>3, <1>7
  <2> QED
    BY <1>1, <1>2, <2>1 DEF MadeInv
<1>9. TickInv'
  BY <1>1, <1>2 DEF TickInv, InCycleOrder
<1>10. LoopInv'
  <2>1. \A k \in 1 .. iter + 1 : windows'[k].id = k - 1
    BY <1>2, <1>3, <1>5, <1>6 DEF LoopInv
  <2>2. NWindows' = iter' /\ iter' <= ITERS
    BY <1>1, <1>3, <1>6
  <2>3. \A k \in 1 .. NWindows' : windows'[k].id = k - 1
    BY <1>6, <2>1
  <2> QED
    BY <1>1, <2>2, <2>3 DEF LoopInv
<1>11. LineInv'
  BY <1>1, <1>2 DEF LineInv, OfRank, IsRead, IsWrite
<1>12. \A u \in 0 .. iter' - 1 : u \in 0 .. iter - 1 \/ u = iter
  BY <1>1, <1>3
<1>13. WroteInv'
  <2>1. \A n \in Nodes : Wrote(-1, RankA(n))
    BY <1>1, <1>2 DEF WroteInv
  <2>2. \A u \in 0 .. iter - 1, n \in Nodes : Wrote(u, Rank(u, n))
    BY <1>2 DEF WroteInv
  <2>3. \A n \in Nodes : Wrote(iter, Rank(iter, n))
    BY <1>1, <1>2 DEF WroteInv, Nodes
  <2>4. \A u \in 0 .. iter' - 1, n \in Nodes : Wrote(u, Rank(u, n))
    BY <1>12, <2>2, <2>3
  <2>5. \A u, a : Wrote(u, a)' <=> Wrote(u, a)
    BY <1>1 DEF Wrote, IsWrite
  <2> QED
    BY <1>1, <2>1, <2>4, <2>5 DEF WroteInv
<1>14. CountInv'
  <2>1. /\ Cardinality(RanksOf(iter, "READ")) = RowStart(v)
        /\ Cardinality(RanksOf(iter, "WRITE")) = v
    BY <1>1, <1>2 DEF CountInv
  <2>2. RowStart(v) = NODES * DEG
    BY <1>1 DEF RowStart
  <2>3. \A u \in 0 .. iter - 1 : /\ Cardinality(RanksOf(u, "READ")) = NODES * DEG
                                 /\ Cardinality(RanksOf(u, "WRITE")) = NODES
    BY <1>2 DEF CountInv
  <2>4. \A u \in 0 .. iter' - 1 : /\ Cardinality(RanksOf(u, "READ")) = NODES * DEG
                                  /\ Cardinality(RanksOf(u, "WRITE")) = NODES
    BY <1>1, <1>12, <2>1, <2>2, <2>3
  <2>5. \A u, op : RanksOf(u, op)' = RanksOf(u, op)
    BY <1>1 DEF RanksOf, OfRank
  <2> QED
    BY <1>1, <2>4, <2>5 DEF CountInv
<1>15. CycleInv'
  <2> SUFFICES ASSUME FewTicks, NEW i \in 1 .. Len(trace), NEW k \in 1 .. iter + 1, InRank(trace[i].addr)
               PROVE  /\ made[i] < k - 1 => trace[i].cycle < windows'[k].begin
                      /\ made[i] = k - 1 => InWindow(windows'[k], trace[i].cycle)
                      /\ made[i] > k - 1 => trace[i].cycle > windows'[k].end
    BY <1>1, <1>6 DEF CycleInv, FewTicks, OfRank
  <2>1. CASE k \in 1 .. iter
    BY <1>2, <1>3, <1>6, <2>1 DEF CycleInv, OfRank
  <2>2. CASE k = iter + 1
    <3>1. /\ made[i] < iter => trace[i].cycle < begin \div div
          /\ made[i] = iter => begin \div div <= trace[i].cycle
      BY <1>1, <1>2 DEF CycleInv, OfRank
    <3>2. trace[i].cycle <= tick \div div
      <4>1. PICK u \in Nat : u < tick /\ trace[i].cycle = u \div div
        BY <1>2 DEF TickInv
      <4> QED
        BY <1>3, <4>1, DivisionMonotone
    <3>3. made[i] \in Int /\ made[i] <= iter
      BY <1>7
    <3>4. k - 1 = iter /\ windows'[k].begin = begin \div div /\ windows'[k].end = tick \div div
      BY <1>3, <1>5, <1>6, <2>2
    <3> QED
      BY <1>3, <3>1, <3>2, <3>3, <3>4 DEF InWindow
  <2> QED
    BY <1>6, <2>1, <2>2
<1> QED
  BY <1>8, <1>9, <1>10, <1>11, <1>13, <1>14, <1>15 DEF TraceParts

LEMMA ChecksumTrace ==
  ASSUME PageType, WorkInv, TraceParts, Checksum
  PROVE  TraceParts' /\ made' # << >>
<1> DEFINE s == <<Read(Code), Read(Code), Read(Code)>>
                \o [n \in 1 .. NODES |-> Read(OldRank(n - 1))]
<1>1. /\ at = "begin" /\ at' = "rewrite" /\ iter = ITERS /\ Access(s, iter)
      /\ UNCHANGED <<iter, v, e, col_idx, div, begin>>
  BY DEF Checksum
<1>2. /\ s \in Seq(Request) /\ Len(s) > 0
      /\ \A k \in 1 .. Len(s) : /\ s[k][2] = "READ"
                                /\ InRank(s[k][1]) => k >= 4 /\ InRange(s[k][1], SourceRange(iter))
  BY ChecksumRequests
<1> HIDE DEF s
<1>3. MadeInv /\ TickInv /\ LoopInv /\ LineInv /\ WroteInv /\ CountInv /\ CycleInv
  BY DEF TraceParts
<1>4. iter \in Nat /\ iter \in Int
  BY DEF PageType
<1>5. MadeInv' /\ TickInv' /\ LineInv' /\ CycleInv' /\ UNCHANGED windows
  <2>1. \A k \in 1 .. Len(s) : InRank(s[k][1]) =>
           /\ s[k][2] = "READ" => iter >= 0 /\ InRange(s[k][1], SourceRange(iter))
           /\ s[k][2] = "WRITE" =>
                iter < ITERS /\ (iter # -1 => InRange(s[k][1], DestRangeForIter(iter)))
           /\ k >= 2 /\ (at = "begin" => k >= 4)
    BY <1>2, <1>4
  <2> QED
    BY <1>1, <1>2, <1>3, <1>4, <2>1, AccessInv
<1>6. trace' # << >> /\ made' # << >>
  <2>1. /\ Len(trace') = Len(trace) + Len(s) /\ Len(made') = Len(trace) + Len(s)
        /\ Len(trace) \in Nat /\ Len(s) \in Nat
    BY <1>1, <1>2, <1>3, <1>4, AccessGrows DEF MadeInv
  <2> QED
    BY <1>2, <2>1
<1>7. LoopInv'
  BY <1>1, <1>3, <1>4, <1>5, <1>6 DEF LoopInv, NWindows
<1>8. /\ \A n \in Nodes : Wrote(-1, RankA(n))'
      /\ \A u \in 0 .. iter - 1, n \in Nodes : Wrote(u, Rank(u, n))'
      /\ \A u \in 0 .. iter - 1 : /\ Cardinality(RanksOf(u, "READ")') = NODES * DEG
                                  /\ Cardinality(RanksOf(u, "WRITE")') = NODES
  BY <1>1, <1>2, <1>3, EndedKept
<1>9. WroteInv' /\ CountInv'
  BY <1>1, <1>8 DEF WroteInv, CountInv
<1> QED
  BY <1>5, <1>6, <1>7, <1>9 DEF TraceParts

\* The trace is as described at every moment, if it is the workload's.
LEMMA TraceStart == PageInit => TraceInv
<1> SUFFICES ASSUME PageInit, Ours PROVE TraceParts
  BY DEF TraceInv, TraceParts
<1>1. WorkloadInit
  <2>1. JobInit => at = "rewrite" /\ made = << >>
    BY DEF JobInit
  <2> QED
    BY <2>1 DEF PageInit, Ours
<1>2. /\ trace = << >> /\ windows = << >> /\ at = "init" /\ iter = 0 /\ made = << >>
  BY <1>1 DEF WorkloadInit
<1>3. Len(trace) = 0 /\ Len(made) = 0 /\ NWindows = 0 /\ ITERS \in Nat
      /\ made \in Seq(Int) /\ 1 .. 0 = {} /\ 0 .. iter - 1 = {}
  BY <1>2, PageRankAssumption DEF NWindows
<1>4. MadeInv /\ TickInv /\ LineInv /\ CycleInv
  BY <1>2, <1>3 DEF MadeInv, TickInv, LineInv, CycleInv, InCycleOrder
<1>5. LoopInv
  BY <1>2, <1>3 DEF LoopInv
<1>6. WroteInv /\ CountInv
  BY <1>2, <1>3 DEF WroteInv, CountInv
<1> QED
  BY <1>4, <1>5, <1>6 DEF TraceParts

\* The rewriters leave it alone.
LEMMA TraceSame ==
  ASSUME TraceInv,
         UNCHANGED <<trace, windows, at, iter, v, e, div, tick, begin, made>>
  PROVE  TraceInv'
<1> SUFFICES ASSUME Ours PROVE TraceParts'
  BY DEF TraceInv, TraceParts, Ours
<1>1. MadeInv /\ TickInv /\ LoopInv /\ LineInv /\ WroteInv /\ CountInv /\ CycleInv
  BY DEF TraceInv
<1>2. MadeInv'
  BY <1>1 DEF MadeInv
<1>3. TickInv'
  BY <1>1 DEF TickInv, InCycleOrder
<1>4. LoopInv'
  BY <1>1 DEF LoopInv, NWindows
<1>5. LineInv'
  BY <1>1 DEF LineInv, OfRank, IsRead, IsWrite
<1>6. WroteInv'
  <2>1. \A u, a : Wrote(u, a)' <=> Wrote(u, a)
    BY DEF Wrote, IsWrite
  <2> QED
    BY <1>1, <2>1 DEF WroteInv
<1>7. CountInv'
  <2>1. \A u, op : RanksOf(u, op)' = RanksOf(u, op)
    BY DEF RanksOf, OfRank
  <2> QED
    BY <1>1, <2>1 DEF CountInv
<1>8. CycleInv'
  BY <1>1 DEF CycleInv, FewTicks, OfRank, NWindows
<1> QED
  BY <1>2, <1>3, <1>4, <1>5, <1>6, <1>7, <1>8 DEF TraceParts

LEMMA TraceKeeps == PageInv /\ TraceInv /\ [PageNext]_pageVars => TraceInv'
<1> SUFFICES ASSUME PageInv, TraceInv, [PageNext]_pageVars PROVE TraceInv'
  OBVIOUS
<1>1. PageType /\ WorkInv
  BY DEF PageInv
<1>2. CASE Workload
  <2>1. TraceParts
    BY <1>2 DEF TraceInv, TraceParts, Ours, Workload, InitGraph, WorkBegin, VertexStart,
                GatherEdge, StoreRank, WorkEnd, Checksum
  <2>2. TraceParts'
    BY <1>1, <1>2, <2>1, InitTrace, BeginTrace, VertexTrace, EdgeTrace, StoreTrace, EndTrace,
       ChecksumTrace DEF Workload
  <2> QED
    BY <2>2 DEF TraceInv, TraceParts
<1>3. CASE Rewrite
  <2>1. UNCHANGED input /\ UNCHANGED workVars
    BY <1>3 DEF Rewrite, Step, SkipBlank, ReadEntry, FlushPassed, PlaceEntry, EndOfTrace,
                FlushTail, Finish, Flush
  <2> QED
    BY <2>1, TraceSame DEF input, workVars
<1>4. CASE UNCHANGED pageVars
  BY <1>4, TraceSame DEF pageVars, rankVars, input, workVars
<1> QED
  BY <1>2, <1>3, <1>4 DEF PageNext, PageStopped

\* Every line of the workload's trace is one of the accesses the loop makes, in its
\* iteration's window and in no other if it is of the rank arrays; every rank is read
\* as often as there are edges and written once per iteration (pagerank_pull.cpp
\* 73-139).
THEOREM TraceInvariance == PageSpec => []TraceInv
BY PageInvariance, TraceStart, TraceKeeps, PTL DEF PageSpec
-----------------------------------------------------------------------------
(***************************************************************************)
(* The rewriting of the workload's trace.                                  *)
(***************************************************************************)

\* What the rewriters find.
LEMMA ReadyFacts ==
  ASSUME PageInv, TraceInv, Ready
  PROVE  /\ Len(trace) \in Nat /\ NWindows \in Nat /\ NWindows = ITERS
         /\ cur \in 1 .. NWindows + 1 /\ next \in 1 .. NWindows + 1 /\ pos \in 1 .. Len(trace) + 1
         /\ Entries(trace) = 1 .. Len(trace)
         /\ \A i \in 1 .. Len(trace) :
              /\ trace[i].cycle \in Nat /\ made[i] \in Int /\ -1 <= made[i]
              /\ (IsRead(i) \/ IsWrite(i)) /\ ~ (IsRead(i) /\ IsWrite(i))
         /\ \A i, j \in 1 .. Len(trace) : i < j => /\ made[i] <= made[j]
                                                   /\ trace[i].cycle <= trace[j].cycle
         /\ \A k \in 1 .. NWindows : /\ windows[k].begin \in Nat /\ windows[k].end \in Nat
                                     /\ windows[k].begin <= windows[k].end
                                     /\ windows[k].id = k - 1
         /\ \A i \in 1 .. Len(trace) : OfRank(i) =>
              /\ IsRead(i) => made[i] >= 0 /\ InRange(trace[i].addr, SourceRange(made[i]))
              /\ IsWrite(i) =>
                   /\ made[i] < ITERS
                   /\ made[i] # -1 => InRange(trace[i].addr, DestRangeForIter(made[i]))
         /\ \A i \in 1 .. Len(trace), k \in 1 .. NWindows : OfRank(i) =>
              /\ made[i] < k - 1 => trace[i].cycle < windows[k].begin
              /\ made[i] = k - 1 => InWindow(windows[k], trace[i].cycle)
              /\ made[i] > k - 1 => trace[i].cycle > windows[k].end
<1>1. PageType /\ RankType
  BY DEF PageInv
<1>2. MadeInv /\ TickInv /\ LoopInv /\ LineInv /\ CycleInv /\ at = "rewrite" /\ FewTicks
  BY DEF Ready, TraceInv, Ours
<1>3. /\ Len(trace) \in Nat /\ NWindows \in Nat
      /\ \A i \in 1 .. Len(trace) : trace[i].cycle \in Nat
      /\ \A k \in 1 .. NWindows : /\ windows[k].begin \in Nat /\ windows[k].end \in Nat
                                  /\ windows[k].begin <= windows[k].end
  BY <1>1, RankFacts
<1>4. cur \in 1 .. NWindows + 1 /\ next \in 1 .. NWindows + 1 /\ pos \in 1 .. Len(trace) + 1
  BY <1>1 DEF RankType
<1>5. NWindows = ITERS /\ \A k \in 1 .. NWindows : windows[k].id = k - 1
  BY <1>2 DEF LoopInv
<1>6. \A i \in 1 .. Len(trace) : trace[i].op \in {"READ", "WRITE"}
  BY <1>2 DEF LineInv
<1>7. Entries(trace) = 1 .. Len(trace)
  BY <1>6 DEF Entries, IsEntry
<1>8. \A i \in 1 .. Len(trace) : /\ made[i] \in Int /\ -1 <= made[i]
                                 /\ (IsRead(i) \/ IsWrite(i)) /\ ~ (IsRead(i) /\ IsWrite(i))
  BY <1>2, <1>6 DEF MadeInv, IsRead, IsWrite
<1>9. \A i, j \in 1 .. Len(trace) : i < j => /\ made[i] <= made[j]
                                             /\ trace[i].cycle <= trace[j].cycle
  BY <1>2 DEF MadeInv, TickInv, InCycleOrder
<1>10. \A i \in 1 .. Len(trace) : OfRank(i) =>
         /\ IsRead(i) => made[i] >= 0 /\ InRange(trace[i].addr, SourceRange(made[i]))
         /\ IsWrite(i) =>
              /\ made[i] < ITERS
              /\ made[i] # -1 => InRange(trace[i].addr, DestRangeForIter(made[i]))
  BY <1>2 DEF LineInv
<1>11. \A i \in 1 .. Len(trace), k \in 1 .. NWindows : OfRank(i) =>
         /\ made[i] < k - 1 => trace[i].cycle < windows[k].begin
         /\ made[i] = k - 1 => InWindow(windows[k], trace[i].cycle)
         /\ made[i] > k - 1 => trace[i].cycle > windows[k].end
  BY <1>2 DEF CycleInv
<1> QED
  BY <1>3, <1>4, <1>5, <1>7, <1>8, <1>9, <1>10, <1>11

\* Two lists put together whose lines follow each other.
LEMMA ConcatFollowing ==
  ASSUME NEW S, NEW s \in Seq(S), NEW t \in Seq(S), InFollowing(s), InFollowing(t),
         \A i \in Idxs(s), j \in Idxs(t) : Follows(i, j)
  PROVE  InFollowing(s \o t)
<1>1. /\ DOMAIN s = 1 .. Len(s) /\ DOMAIN t = 1 .. Len(t) /\ Len(s) \in Nat /\ Len(t) \in Nat
      /\ DOMAIN (s \o t) = 1 .. Len(s) + Len(t)
      /\ \A i \in 1 .. Len(s) + Len(t) :
           (s \o t)[i] = IF i <= Len(s) THEN s[i] ELSE t[i - Len(s)]
  BY LenProperties, ConcatProperties
<1>2. SUFFICES ASSUME NEW k \in 1 .. Len(s) + Len(t), NEW m \in 1 .. Len(s) + Len(t), k < m
               PROVE  Follows((s \o t)[k], (s \o t)[m])
  BY <1>1 DEF InFollowing
<1>3. CASE m <= Len(s)
  <2>1. k \in DOMAIN s /\ m \in DOMAIN s /\ (s \o t)[k] = s[k] /\ (s \o t)[m] = s[m]
    BY <1>1, <1>2, <1>3
  <2> QED
    BY <1>2, <2>1 DEF InFollowing
<1>4. CASE k <= Len(s) /\ ~ (m <= Len(s))
  <2>1. /\ k \in DOMAIN s /\ m - Len(s) \in DOMAIN t
        /\ (s \o t)[k] = s[k] /\ (s \o t)[m] = t[m - Len(s)]
    BY <1>1, <1>4
  <2>2. s[k] \in Idxs(s) /\ t[m - Len(s)] \in Idxs(t)
    BY <2>1 DEF Idxs
  <2> QED
    BY <2>1, <2>2
<1>5. CASE ~ (k <= Len(s))
  <2>1. /\ k - Len(s) \in DOMAIN t /\ (s \o t)[k] = t[k - Len(s)]
        /\ m - Len(s) \in DOMAIN t /\ (s \o t)[m] = t[m - Len(s)]
        /\ k - Len(s) < m - Len(s)
    BY <1>1, <1>2, <1>5
  <2> QED
    BY <2>1 DEF InFollowing
<1> QED
  BY <1>3, <1>4, <1>5

\* A list has as many lines as it has different ones, if each is there once.
LEMMA DistinctCount ==
  ASSUME NEW s \in Seq(Nat \ {0}), Distinct(s)
  PROVE  Cardinality(Idxs(s)) = Len(s)
<1>1. DOMAIN s = 1 .. Len(s) /\ Len(s) \in Nat
  BY LenProperties
<1>2. IsFiniteSet(1 .. Len(s)) /\ Cardinality(1 .. Len(s)) = Len(s)
  BY <1>1, FS_Interval
<1>3. s \in Bijection(1 .. Len(s), Idxs(s))
  <2>1. s \in [1 .. Len(s) -> Idxs(s)]
    BY <1>1 DEF Idxs
  <2>2. s \in Injection(1 .. Len(s), Idxs(s))
    BY <1>1, <2>1 DEF Injection, IsInjective, Distinct
  <2>3. s \in Surjection(1 .. Len(s), Idxs(s))
    BY <1>1, <2>1 DEF Surjection, Idxs
  <2> QED
    BY <2>2, <2>3 DEF Bijection
<1>4. ExistsBijection(1 .. Len(s), Idxs(s))
  BY <1>3 DEF ExistsBijection
<1> QED
  BY <1>2, <1>4, FS_Bijection

\* What is held: lines of the trace that have been read, those of the rank arrays made
\* by the current window's iteration.
LEMMA HeldFacts ==
  ASSUME PageInv, TraceInv, Ready, HeldInv
  PROVE  /\ \A i \in NotSent : /\ i \in 1 .. Len(trace) /\ i < pos /\ i \in Nat
                               /\ cur \in 1 .. NWindows /\ InWindow(windows[cur], trace[i].cycle)
                               /\ OfRank(i) => made[i] = cur - 1
         /\ Idxs(reads) \subseteq NotSent /\ Idxs(writes) \subseteq NotSent
         /\ Idxs(Indices(temp)) \subseteq NotSent
<1>1. PlaceInv /\ Entries(trace) = 1 .. Len(trace)
  BY ReadyFacts DEF PageInv
<1>2. Len(trace) \in Nat /\ cur \in 1 .. NWindows + 1 /\ NWindows \in Nat
  BY ReadyFacts
<1>3. ASSUME NEW i \in NotSent
      PROVE  /\ i \in 1 .. Len(trace) /\ i < pos /\ i \in Nat
             /\ cur \in 1 .. NWindows /\ InWindow(windows[cur], trace[i].cycle)
             /\ OfRank(i) => made[i] = cur - 1
  <2>1. i \in 1 .. Len(trace) /\ i < pos /\ i \in Nat
    BY <1>1, <1>2 DEF PlaceInv, NotSent
  <2>2. cur \in 1 .. NWindows /\ InWindow(windows[cur], trace[i].cycle)
    BY <1>2 DEF HeldInv
  <2>3. /\ trace[i].cycle \in Nat /\ made[i] \in Int
        /\ windows[cur].begin \in Nat /\ windows[cur].end \in Nat
        /\ OfRank(i) => /\ made[i] < cur - 1 => trace[i].cycle < windows[cur].begin
                        /\ made[i] > cur - 1 => trace[i].cycle > windows[cur].end
    BY <2>1, <2>2, ReadyFacts
  <2> QED
    BY <1>2, <2>1, <2>2, <2>3 DEF InWindow
<1> QED
  BY <1>3 DEF NotSent

\* A step of a rewriter leaves what is said of the lines as it is.
LEMMA RewriteLeaves ==
  ASSUME UNCHANGED input, UNCHANGED workVars
  PROVE  /\ trace' = trace /\ windows' = windows /\ how' = how /\ made' = made
         /\ NWindows' = NWindows /\ Ready' = Ready
         /\ \A i : /\ OfRank(i)' <=> OfRank(i) 
                   /\ IsRead(i)' <=> IsRead(i)
                   /\ IsWrite(i)' <=> IsWrite(i)
                   /\ Copied(i)' = Copied(i)
BY DEF input, workVars, NWindows, Ready, FewTicks, OfRank, IsRead, IsWrite, Copied, Emit,
       InRank, InRange

LEMMA FollowingKept ==
  ASSUME UNCHANGED input, UNCHANGED workVars, NEW s, s = Sent', InFollowing(s)
  PROVE  InFollowing(Sent)'
<1>1. trace' = trace /\ how' = how /\ made' = made
  BY RewriteLeaves
<1> QED
  BY <1>1 DEF InFollowing, Follows, OfRank, IsRead, IsWrite, InRank, InRange

\* The order of the held lines in what a flush writes.
LEMMA BurstFollowing ==
  ASSUME PageInv, TraceInv, Ready, HeldInv, cur \in 1 .. NWindows
  PROVE  InFollowing(Indices(Burst \o temp)) /\ Indices(Burst \o temp) \in Seq(Nat \ {0})
<1> DEFINE r == SortedSeq(trace, reads)  w == SortedSeq(trace, writes)
<1>1. PageType /\ RankType /\ PlaceInv
  BY DEF PageInv
<1>2. /\ Len(trace) \in Nat /\ cur \in Nat
      /\ \A i \in 1 .. Len(trace) : made[i] \in Int
  BY ReadyFacts
<1>3. \A i \in NotSent : /\ i \in 1 .. Len(trace) /\ i \in Nat
                         /\ OfRank(i) => made[i] = cur - 1
  BY HeldFacts
<1>4. /\ trace \in Seq(Line) /\ reads \in Seq(Nat \ {0}) /\ writes \in Seq(Nat \ {0})
      /\ Distinct(reads) /\ Distinct(writes)
      /\ \A i \in Idxs(reads) : i \in NotSent
      /\ \A i \in Idxs(writes) : i \in NotSent
      /\ \A i \in Idxs(Indices(temp)) : i \in NotSent
  BY <1>1 DEF PageType, RankType, PlaceInv, NotSent
<1>5. /\ r \in Seq(Nat \ {0}) /\ Len(r) = Len(reads) /\ Idxs(r) = Idxs(reads)
      /\ \A k, m \in 1 .. Len(reads) : k < m => Before(trace, r[k], r[m])
  BY <1>3, <1>4, SortedSeqFacts
<1>6. /\ w \in Seq(Nat \ {0}) /\ Len(w) = Len(writes) /\ Idxs(w) = Idxs(writes)
      /\ \A k, m \in 1 .. Len(writes) : k < m => Before(trace, w[k], w[m])
  BY <1>3, <1>4, SortedSeqFacts
<1>7. /\ \A i \in Idxs(reads) : IsRead(i) /\ ~ IsWrite(i) /\ (how.method = "targeted" => OfRank(i))
      /\ \A i \in Idxs(writes) : IsWrite(i) /\ ~ IsRead(i) /\ (how.method = "targeted" => OfRank(i))
      /\ \A i \in Idxs(Indices(temp)) : how.method = "targeted" /\ ~ OfRank(i)
  BY DEF HeldInv, IsRead, IsWrite
<1> HIDE DEF r, w
<1>8. InFollowing(r)
  <2>1. SUFFICES ASSUME NEW k \in DOMAIN r, NEW m \in DOMAIN r, k < m
                 PROVE  Follows(r[k], r[m])
    BY DEF InFollowing
  <2>2. r[k] \in Idxs(reads) /\ r[m] \in Idxs(reads)
    BY <1>5 DEF Idxs
  <2>3. OfRank(r[k]) /\ OfRank(r[m]) => made[r[k]] = cur - 1 /\ made[r[m]] = cur - 1
    BY <1>3, <1>4, <2>2
  <2> QED
    BY <1>2, <1>7, <2>2, <2>3 DEF Follows
<1>9. InFollowing(w)
  <2>1. SUFFICES ASSUME NEW k \in DOMAIN w, NEW m \in DOMAIN w, k < m
                 PROVE  Follows(w[k], w[m])
    BY DEF InFollowing
  <2>a. DOMAIN w = 1 .. Len(writes)
    BY <1>6, LenProperties
  <2>2. w[k] \in Idxs(writes) /\ w[m] \in Idxs(writes) /\ Before(trace, w[k], w[m])
    BY <1>6, <2>1, <2>a DEF Idxs
  <2>3. OfRank(w[k]) /\ OfRank(w[m]) => made[w[k]] = cur - 1 /\ made[w[m]] = cur - 1
    BY <1>3, <1>4, <2>2
  <2>4. w[k] \in 1 .. Len(trace) /\ w[m] \in 1 .. Len(trace)
    BY <1>3, <1>4, <2>2
  <2>b. trace[w[k]] \in Line /\ trace[w[m]] \in Line
    BY <1>4, <2>4
  <2>5. trace[w[k]].addr \in Nat /\ trace[w[m]].addr \in Nat
    BY <2>b DEF Line
  <2>6. trace[w[k]].addr = trace[w[m]].addr => w[k] < w[m]
    BY <2>2, <2>5 DEF Before
  <2> QED
    BY <1>2, <1>7, <2>2, <2>3, <2>6 DEF Follows
<1>10. \A i \in Idxs(r), j \in Idxs(w) : Follows(i, j)
  <2>1. SUFFICES ASSUME NEW i \in Idxs(reads), NEW j \in Idxs(writes)
                 PROVE  Follows(i, j)
    BY <1>5, <1>6
  <2>2. i \in 1 .. Len(trace) /\ j \in 1 .. Len(trace) /\ IsRead(i) /\ IsWrite(j) /\ ~ IsWrite(i)
    BY <1>3, <1>4, <1>7
  <2>3. OfRank(i) /\ OfRank(j) => made[i] = cur - 1 /\ made[j] = cur - 1
    BY <1>3, <1>4
  <2>4. ASSUME OfRank(i), OfRank(j) PROVE trace[i].addr # trace[j].addr
    <3>1. /\ InRange(trace[i].addr, SourceRange(cur - 1))
          /\ InRange(trace[j].addr, DestRangeForIter(cur - 1))
      <4>1. made[i] = cur - 1 /\ made[j] = cur - 1 /\ made[j] # -1
        BY <1>2, <2>3, <2>4
      <4>2. /\ InRange(trace[i].addr, SourceRange(made[i]))
            /\ InRange(trace[j].addr, DestRangeForIter(made[j]))
        BY <2>2, <2>4, <4>1, ReadyFacts
      <4> QED
        BY <4>1, <4>2
    <3>a. trace[i] \in Line /\ trace[j] \in Line
      BY <1>4, <2>2
    <3>2. trace[i].addr \in Nat /\ trace[j].addr \in Nat
      BY <3>a DEF Line
    <3>3. (cur - 1) % 2 = 0 \/ (cur - 1) % 2 = 1
      BY <1>2
    <3> QED
      BY <3>1, <3>2, <3>3, PageRankAssumption DEF SourceRange, DestRangeForIter, InRange
  <2>5. how.method = "targeted" => OfRank(i) /\ OfRank(j)
    BY <1>7
  <2> QED
    BY <1>2, <2>2, <2>3, <2>4, <2>5 DEF Follows
<1>11. /\ InFollowing(r \o w) /\ r \o w \in Seq(Nat \ {0})
       /\ Idxs(r \o w) = Idxs(reads) \cup Idxs(writes)
  BY <1>5, <1>6, <1>8, <1>9, <1>10, ConcatFollowing, ConcatDistinct
<1>12. Indices(Burst) = r \o w
  <2>1. DOMAIN Burst = DOMAIN (r \o w) /\ \A k \in DOMAIN (r \o w) : Burst[k].idx = (r \o w)[k]
    BY DEF Burst, ReadsThenWrites, Emit, r, w
  <2>2. \A q \in Seq(Nat \ {0}) : q = [k \in DOMAIN q |-> q[k]]
    OBVIOUS
  <2>3. PICK q \in Seq(Nat \ {0}) : q = r \o w
    BY <1>11
  <2>4. q = [k \in DOMAIN q |-> q[k]]
    BY <2>2
  <2> QED
    BY <2>1, <2>3, <2>4 DEF Indices
<1>13. /\ Indices(temp) \in Seq(Nat \ {0}) /\ Burst \in Seq(OutEntry) /\ temp \in Seq(OutEntry)
       /\ Indices(Burst \o temp) = Indices(Burst) \o Indices(temp)
  BY <1>1, BurstFacts, IndicesConcat DEF RankType
<1>14. InFollowing(Indices(temp))
  <2>1. SUFFICES ASSUME NEW k \in DOMAIN temp, NEW m \in DOMAIN temp, k < m
                 PROVE  Follows(temp[k].idx, temp[m].idx)
    BY DEF InFollowing, Indices
  <2>2. temp[k].idx < temp[m].idx
    BY <2>1 DEF HeldInv
  <2>3. temp[k].idx \in Idxs(Indices(temp)) /\ temp[m].idx \in Idxs(Indices(temp))
    BY DEF Indices, Idxs
  <2> QED
    BY <1>7, <2>2, <2>3 DEF Follows
<1>15. \A i \in Idxs(r \o w), j \in Idxs(Indices(temp)) : Follows(i, j)
  <2>1. SUFFICES ASSUME NEW i \in Idxs(reads) \cup Idxs(writes), NEW j \in Idxs(Indices(temp))
                 PROVE  Follows(i, j)
    BY <1>11
  <2>2. how.method = "targeted" /\ OfRank(i) /\ ~ OfRank(j)
    BY <1>7
  <2>3. trace[i].addr # trace[j].addr
    BY <2>2 DEF OfRank
  <2> QED
    BY <2>2, <2>3 DEF Follows
<1>16. InFollowing((r \o w) \o Indices(temp)) /\ (r \o w) \o Indices(temp) \in Seq(Nat \ {0})
  BY <1>11, <1>13, <1>14, <1>15, ConcatFollowing, ConcatDistinct
<1> QED
  BY <1>12, <1>13, <1>16

\* A step of a rewriter that neither reads nor writes a line.
LEMMA QuietKeeps ==
  ASSUME PageInv, TraceInv, Ready, RewriteParts, UNCHANGED input, UNCHANGED workVars,
         UNCHANGED <<pos, cur, temp, reads, writes, out, perWindow>>,
         pc' \in {"read", "line"} => pc \in {"read", "line"},
         pc' \in {"tail", "done"} => pos = Len(trace) + 1,
         pc' = "done" => cur = NWindows + 1
  PROVE  RewriteParts'
<1>1. /\ trace' = trace /\ windows' = windows /\ how' = how /\ made' = made
      /\ NWindows' = NWindows
  BY RewriteLeaves
<1>2. ReadInv /\ HeldInv /\ PassedInv /\ SentInv /\ BurstInv
  BY DEF RewriteParts
<1>3. ReadInv'
  BY <1>1, <1>2 DEF ReadInv, Sent, NotSent, Indices, Idxs
<1>4. HeldInv'
  BY <1>1, <1>2 DEF HeldInv, NotSent, Indices, Idxs, IsRead, IsWrite, OfRank, InRank, InRange,
                    InWindow, Copied, Emit
<1>5. PassedInv'
  BY <1>1, <1>2 DEF PassedInv, NotSent, Sent, Indices, Idxs, OfRank, InRank, InRange
<1>6. SentInv'
  BY <1>1, <1>2 DEF SentInv, InFollowing, Follows, Sent, Indices, IsRead, IsWrite, OfRank, InRank,
                    InRange, Copied, Emit
<1>7. BurstInv'
  BY <1>1, <1>2 DEF BurstInv
<1> QED
  BY <1>3, <1>4, <1>5, <1>6, <1>7 DEF RewriteParts

\* The burst of the targeted rewriter has all ranks its iteration reads and writes, if
\* the trace has been read beyond the window.
LEMMA BurstCounts ==
  ASSUME PageInv, TraceInv, Ready, RewriteParts, cur \in 1 .. NWindows, how.method = "targeted",
         \A i \in 1 .. Len(trace) : trace[i].cycle <= windows[cur].end => i < pos
  PROVE  Len(reads) = NODES * DEG /\ Len(writes) = NODES
<1>1. /\ RankType /\ PlaceInv /\ ReadInv /\ HeldInv /\ PassedInv /\ CountInv /\ LoopInv
  BY DEF PageInv, RewriteParts, TraceInv, Ours, Ready
<1>2. /\ Len(trace) \in Nat /\ cur \in Nat /\ NWindows \in Nat /\ NWindows = iter
      /\ \A i \in 1 .. Len(trace) : made[i] \in Int
  BY <1>1, ReadyFacts DEF LoopInv
<1>3. ASSUME NEW i \in 1 .. Len(trace), OfRank(i), made[i] = cur - 1
      PROVE  i \in Idxs(reads) \cup Idxs(writes)
  <2>1. InWindow(windows[cur], trace[i].cycle)
    BY <1>3, ReadyFacts
  <2>2. i < pos
    BY <2>1 DEF InWindow
  <2>3. i \notin Idxs(Sent)
    BY <1>1, <1>2, <1>3 DEF PassedInv
  <2>4. i \in NotSent
    BY <1>1, <2>2, <2>3 DEF ReadInv
  <2>5. i \notin Idxs(Indices(temp))
    BY <1>1, <1>3 DEF HeldInv
  <2> QED
    BY <2>4, <2>5 DEF NotSent
<1>4. /\ \A i \in Idxs(reads) : IsRead(i) /\ ~ IsWrite(i) /\ OfRank(i)
      /\ \A i \in Idxs(writes) : IsWrite(i) /\ ~ IsRead(i) /\ OfRank(i)
  BY <1>1 DEF HeldInv, IsRead, IsWrite
<1>5. \A i \in Idxs(reads) \cup Idxs(writes) : i \in 1 .. Len(trace) /\ made[i] = cur - 1
  BY <1>1, <1>4, HeldFacts
<1>6. Idxs(reads) = RanksOf(cur - 1, "READ")
  BY <1>3, <1>4, <1>5 DEF RanksOf, IsRead, IsWrite
<1>7. Idxs(writes) = RanksOf(cur - 1, "WRITE")
  BY <1>3, <1>4, <1>5 DEF RanksOf, IsRead, IsWrite
<1>8. cur - 1 \in 0 .. iter - 1
  BY <1>2
<1>9. /\ Cardinality(RanksOf(cur - 1, "READ")) = NODES * DEG
      /\ Cardinality(RanksOf(cur - 1, "WRITE")) = NODES
  BY <1>1, <1>8 DEF CountInv
<1>10. Cardinality(Idxs(reads)) = Len(reads) /\ Cardinality(Idxs(writes)) = Len(writes)
  BY <1>1, DistinctCount DEF RankType, PlaceInv
<1> QED
  BY <1>6, <1>7, <1>9, <1>10

\* One round of a flush loop.
LEMMA FlushKeeps ==
  ASSUME PageInv, TraceInv, Ready, RewriteParts, UNCHANGED workVars,
         FlushPassed \/ FlushTail
  PROVE  RewriteParts'
<1>1. PageType /\ RankType /\ CursorInv /\ PlaceInv
  BY DEF PageInv
<1>2. ReadInv /\ HeldInv /\ PassedInv /\ SentInv /\ BurstInv
  BY DEF RewriteParts
<1>3. /\ Len(trace) \in Nat /\ NWindows \in Nat /\ cur \in 1 .. NWindows + 1 /\ cur \in Nat
      /\ next \in 1 .. NWindows + 1 /\ pos \in 1 .. Len(trace) + 1
  BY ReadyFacts
<1>4. /\ Flush /\ cur \in 1 .. NWindows /\ UNCHANGED input
      /\ (pc = "line" /\ cur < next) \/ pc = "tail"
      /\ pc' = pc /\ pos' = pos /\ cur' = cur + 1
      /\ temp' = << >> /\ reads' = << >> /\ writes' = << >>
      /\ perWindow' = Append(perWindow, [id |-> windows[cur].id, reads |-> Len(reads),
                                         writes |-> Len(writes)])
  BY <1>3 DEF FlushPassed, FlushTail, Flush
<1>5. /\ trace' = trace /\ windows' = windows /\ how' = how /\ made' = made
      /\ NWindows' = NWindows
  BY <1>4, RewriteLeaves
<1>6. /\ out' = out \o (Burst \o temp) /\ Burst \o temp \in Seq(OutEntry)
      /\ out \in Seq(OutEntry) /\ Idxs(Indices(Burst \o temp)) = NotSent
  BY <1>1, <1>4, FlushFacts DEF RankType, NotSent
<1>7. /\ Sent' = Sent \o Indices(Burst \o temp)
      /\ Sent \in Seq(Nat \ {0}) /\ Indices(Burst \o temp) \in Seq(Nat \ {0})
  <2>1. Indices(out \o (Burst \o temp)) = Indices(out) \o Indices(Burst \o temp)
    BY ONLY <1>6, IndicesConcat
  <2>2. Indices(out) \in Seq(Nat \ {0}) /\ Indices(Burst \o temp) \in Seq(Nat \ {0})
    BY ONLY <1>6, IndicesConcat
  <2>3. Sent' = Indices(out \o (Burst \o temp))
    BY <1>6 DEF Sent, Indices
  <2> QED
    BY <2>1, <2>2, <2>3 DEF Sent
<1>8. Idxs(Sent') = Idxs(Sent) \cup NotSent
  BY <1>6, <1>7, ConcatDistinct
<1>9. NotSent' = {}
  BY <1>4, NoLine DEF NotSent, Indices, Idxs
<1>10. \A i \in NotSent : /\ i \in 1 .. Len(trace) /\ i < pos
                          /\ OfRank(i) => made[i] = cur - 1
  BY <1>2, HeldFacts
<1>11. \A j \in 1 .. Len(trace) : pc = "line" /\ j >= pos => trace[j].cycle > windows[cur].end
  <2>1. CASE pc = "line"
    <3>1. cur < next /\ cur \in cur .. next - 1 /\ pos \in 1 .. Len(trace)
      BY <1>1, <1>3, <1>4, <2>1, RankFacts DEF CursorInv
    <3>2. trace[pos].cycle > windows[cur].end
      BY <1>1, <2>1, <3>1 DEF CursorInv
    <3>3. \A j \in 1 .. Len(trace) : j >= pos => j = pos \/ pos < j
      BY <1>3
    <3>4. \A j \in 1 .. Len(trace) : pos < j => trace[pos].cycle <= trace[j].cycle
      BY <3>1, ReadyFacts
    <3>5. /\ \A j \in 1 .. Len(trace) : trace[j].cycle \in Nat
          /\ windows[cur].end \in Nat
      BY <1>4, ReadyFacts
    <3> QED
      BY <3>1, <3>2, <3>3, <3>4, <3>5
  <2> QED
    BY <2>1
<1>12. ReadInv'
  <2>1. perWindow' \in Seq([id : Nat, reads : Nat, writes : Nat]) /\ Len(perWindow') = cur
    <3>1. /\ windows[cur].id \in Nat /\ Len(reads) \in Nat /\ Len(writes) \in Nat
      BY <1>1, <1>3, <1>4, ReadyFacts DEF RankType
    <3> QED
      BY <1>2, <1>3, <1>4, <3>1 DEF ReadInv
  <2>2. /\ \A i \in 1 .. Len(trace) : i < pos => i \in Idxs(Sent')
        /\ \A i \in Idxs(Sent') : i \in 1 .. Len(trace) /\ i < pos
    BY <1>2, <1>8, <1>10 DEF ReadInv
  <2>3. Idxs(Sent)' = Idxs(Sent')
    BY DEF Idxs
  <2>4. pc \in {"tail", "done"} => pos = Len(trace) + 1
    BY <1>2 DEF ReadInv
  <2> QED
    BY <1>3, <1>4, <1>5, <1>9, <2>1, <2>2, <2>3, <2>4 DEF ReadInv
<1>13. HeldInv'
  <2>1. Idxs(reads)' = {} /\ Idxs(writes)' = {} /\ Idxs(Indices(temp))' = {}
    BY <1>9 DEF NotSent
  <2>2. DOMAIN temp' = {}
    BY <1>4
  <2> QED
    BY <1>9, <2>1, <2>2 DEF HeldInv
<1>14. PassedInv'
  <2>1. pc \in {"read", "line"} =>
          \A k \in 1 .. cur, j \in 1 .. Len(trace) : j >= pos => trace[j].cycle > windows[k].end
    <3>1. \A k \in 1 .. cur : k \in 1 .. cur - 1 \/ k = cur
      BY <1>3
    <3> QED
      BY <1>2, <1>4, <1>11, <3>1 DEF PassedInv
  <2>2. \A i \in Idxs(Sent') : OfRank(i) => made[i] < cur
    <3>1. \A i \in Idxs(Sent) : OfRank(i) => made[i] < cur - 1
      BY <1>2, <1>4 DEF PassedInv
    <3>2. \A i \in Idxs(Sent') : i \in 1 .. Len(trace)
      BY <1>2, <1>8, <1>10 DEF ReadInv
    <3>3. \A i \in 1 .. Len(trace) : made[i] \in Int
      BY ReadyFacts
    <3> QED
      BY <1>3, <1>8, <1>10, <3>1, <3>2, <3>3
  <2>3. \A i \in Idxs(Sent)' : OfRank(i)' => made'[i] < cur' - 1
    <3>1. cur' - 1 = cur
      BY <1>3, <1>4
    <3> QED
      BY <1>5, <2>2, <3>1 DEF Idxs, OfRank, InRank, InRange
  <2>4. 1 .. cur' - 1 = 1 .. cur
    BY <1>3, <1>4
  <2> QED
    BY <1>4, <1>5, <1>9, <2>1, <2>3, <2>4 DEF PassedInv
<1>15. SentInv'
  <2>1. InFollowing(Sent \o Indices(Burst \o temp))
    <3>1. InFollowing(Sent) /\ InFollowing(Indices(Burst \o temp))
      BY <1>2, <1>4, BurstFollowing DEF SentInv
    <3>2. ASSUME NEW i \in Idxs(Sent), NEW j \in NotSent PROVE Follows(i, j)
      <4>1. i < j /\ (OfRank(i) => made[i] < cur - 1) /\ (OfRank(j) => made[j] = cur - 1)
        BY <1>2, <1>4, <1>10 DEF PassedInv
      <4>2. i \in 1 .. Len(trace) /\ j \in 1 .. Len(trace) /\ made[i] \in Int
        BY <1>2, <1>10, ReadyFacts DEF ReadInv
      <4> QED
        BY <1>3, <4>1, <4>2 DEF Follows
    <3> QED
      BY <1>6, <1>7, <3>1, <3>2, ConcatFollowing
  <2>2. PICK s : s = Sent \o Indices(Burst \o temp)
    OBVIOUS
  <2>3. InFollowing(Sent)'
    BY <1>4, <1>7, <2>1, <2>2, FollowingKept
  <2>4. ASSUME how.method = "targeted", NEW k \in DOMAIN out'
        PROVE  OfRank(out'[k].idx) \/ out'[k] = Copied(out'[k].idx)
    <3>1. /\ Burst \in Seq(OutEntry) /\ temp \in Seq(OutEntry)
          /\ Idxs(Indices(Burst)) = Idxs(reads) \cup Idxs(writes)
      BY <1>1, <1>4, BurstFacts DEF RankType
    <3>2. \A x \in Idxs(out) : OfRank(x.idx) \/ x = Copied(x.idx)
      BY <1>2, <2>4 DEF SentInv, Idxs
    <3>3. \A x \in Idxs(Burst) : OfRank(x.idx)
      <4>1. \A x \in Idxs(Burst) : x.idx \in Idxs(Indices(Burst))
        BY DEF Idxs, Indices
      <4> QED
        BY <1>2, <2>4, <3>1, <4>1 DEF HeldInv
    <3>4. \A x \in Idxs(temp) : x = Copied(x.idx)
      BY <1>2 DEF HeldInv, Idxs
    <3>5. Idxs(Burst \o temp) = Idxs(Burst) \cup Idxs(temp)
      BY <3>1, ConcatDistinct
    <3>6. Idxs(out') = Idxs(out) \cup Idxs(Burst \o temp)
      BY <1>6, ConcatDistinct
    <3>7. out'[k] \in Idxs(out')
      BY DEF Idxs
    <3> QED
      BY <3>2, <3>3, <3>4, <3>5, <3>6, <3>7
  <2> QED
    BY <1>5, <2>3, <2>4 DEF SentInv, OfRank, InRank, InRange, Copied, Emit
<1>16. BurstInv'
  <2>1. ASSUME how.method = "targeted"
        PROVE  Len(reads) = NODES * DEG /\ Len(writes) = NODES
    <3>1. \A i \in 1 .. Len(trace) : trace[i].cycle <= windows[cur].end => i < pos
      <4>1. \A i \in 1 .. Len(trace) : trace[i].cycle \in Nat /\ windows[cur].end \in Nat
        BY <1>4, ReadyFacts
      <4>2. pc = "tail" => pos = Len(trace) + 1
        BY <1>2 DEF ReadInv
      <4> QED
        BY <1>3, <1>4, <1>11, <4>1, <4>2
    <3> QED
      BY <1>4, <2>1, <3>1, BurstCounts
  <2>2. \A k \in DOMAIN perWindow' :
          \/ k \in DOMAIN perWindow /\ perWindow'[k] = perWindow[k]
          \/ perWindow'[k] = [id |-> windows[cur].id, reads |-> Len(reads), writes |-> Len(writes)]
    <3>1. perWindow \in Seq([id : Nat, reads : Nat, writes : Nat])
      BY <1>2 DEF ReadInv
    <3> QED
      BY <1>4, <3>1
  <2> QED
    BY <1>2, <1>5, <2>1, <2>2 DEF BurstInv
<1> QED
  BY <1>12, <1>13, <1>14, <1>15, <1>16 DEF RewriteParts

\* What makes a line be sent at once: it is behind all that has been held, and of an
\* iteration whose window has not been reached.
LEMMA SentAtOnce ==
  ASSUME PageInv, TraceInv, Ready, RewriteParts, PlaceEntry, ~ InCurrent(trace[pos].cycle)
  PROVE  /\ NotSent = {}
         /\ cur <= NWindows /\ OfRank(pos) => made[pos] < cur - 1
         /\ \A i \in Idxs(Sent) : Follows(i, pos)
<1>1. /\ PageType /\ RankType /\ CursorInv /\ PlaceInv
      /\ ReadInv /\ HeldInv /\ PassedInv /\ SentInv
  BY DEF PageInv, RewriteParts
<1>a. /\ Len(trace) \in Nat /\ NWindows \in Nat /\ cur \in 1 .. NWindows + 1 /\ NWindows = ITERS
      /\ \A i \in 1 .. Len(trace) : trace[i].cycle \in Nat /\ made[i] \in Int
      /\ \A k \in 1 .. NWindows : windows[k].begin \in Nat /\ windows[k].end \in Nat
  BY ReadyFacts
<1>2. /\ Len(trace) \in Nat /\ NWindows \in Nat /\ cur \in 1 .. NWindows + 1 /\ cur \in Nat
      /\ NWindows = ITERS
      /\ \A i \in 1 .. Len(trace) : trace[i].cycle \in Nat /\ made[i] \in Int
      /\ \A k \in 1 .. NWindows : windows[k].begin \in Nat /\ windows[k].end \in Nat
  BY <1>a
<1>3. /\ pos \in 1 .. Len(trace) /\ pc = "line"
      /\ cur <= NWindows => trace[pos].cycle <= windows[cur].end
  BY <1>1, Placed, ReadyFacts DEF CursorInv
<1>4. cur <= NWindows => trace[pos].cycle < windows[cur].begin
  BY <1>2, <1>3 DEF InCurrent, InWindow
<1>5. NotSent = {}
  <2>1. SUFFICES ASSUME NEW i \in NotSent PROVE FALSE
    OBVIOUS
  <2>2. i \in 1 .. Len(trace) /\ i < pos /\ cur \in 1 .. NWindows /\ windows[cur].begin <= trace[i].cycle
    BY <1>1, HeldFacts DEF InWindow
  <2>3. trace[i].cycle <= trace[pos].cycle
    BY <1>3, <2>2, ReadyFacts
  <2> QED
    BY <1>2, <1>3, <1>4, <2>2, <2>3
<1>6. cur <= NWindows /\ OfRank(pos) => made[pos] < cur - 1
  <2>1. SUFFICES ASSUME cur <= NWindows, OfRank(pos) PROVE made[pos] < cur - 1
    OBVIOUS
  <2>2. /\ made[pos] = cur - 1 => InWindow(windows[cur], trace[pos].cycle)
        /\ made[pos] > cur - 1 => trace[pos].cycle > windows[cur].end
    BY <1>2, <1>3, <2>1, ReadyFacts
  <2> QED
    BY <1>2, <1>3, <1>4, <2>1, <2>2 DEF InWindow
<1>7. ASSUME NEW i \in Idxs(Sent) PROVE Follows(i, pos)
  <2>1. i \in 1 .. Len(trace) /\ i < pos
    BY <1>1 DEF ReadInv
  <2>2. made[i] <= made[pos]
    BY <1>3, <2>1, ReadyFacts
  <2>3. ASSUME OfRank(i), OfRank(pos), IsWrite(i), IsRead(pos), made[i] = made[pos]
        PROVE  FALSE
    <3>1. made[pos] >= 0 /\ made[pos] < ITERS
      BY <1>3, <2>1, <2>3, ReadyFacts
    <3>2. PICK k \in 1 .. NWindows : k = made[pos] + 1
      BY <1>2, <1>3, <3>1
    <3>3. made[pos] = k - 1
      BY <1>2, <1>3, <3>2
    <3>4. InWindow(windows[k], trace[pos].cycle)
      BY <1>3, <2>3, <3>3, ReadyFacts
    <3>5. ~ (k \in 1 .. cur - 1)
      BY <1>1, <1>2, <1>3, <3>4 DEF PassedInv, InWindow
    <3>6. cur <= NWindows /\ cur <= k
      BY <1>2, <3>2, <3>5
    <3> QED
      BY <1>2, <1>3, <1>6, <2>3, <3>3, <3>6
  <2> QED
    BY <1>2, <1>3, <2>1, <2>2, <2>3 DEF Follows
<1> QED
  BY <1>5, <1>6, <1>7

\* A line is put into a list, the window's file, or the output.
LEMMA PlaceKeeps ==
  ASSUME PageInv, TraceInv, Ready, RewriteParts, UNCHANGED workVars, PlaceEntry
  PROVE  RewriteParts'
<1>1. PageType /\ RankType /\ CursorInv /\ PlaceInv
  BY DEF PageInv
<1>2. ReadInv /\ HeldInv /\ PassedInv /\ SentInv /\ BurstInv
  BY DEF RewriteParts
<1>3. /\ Len(trace) \in Nat /\ NWindows \in Nat /\ cur \in 1 .. NWindows + 1 /\ cur \in Nat
      /\ pos \in 1 .. Len(trace) /\ pos \in Nat \ {0}
      /\ (IsRead(pos) \/ IsWrite(pos)) /\ ~ (IsRead(pos) /\ IsWrite(pos))
  BY <1>1, Placed, ReadyFacts
<1>4. /\ UNCHANGED input /\ Copied(pos) \in OutEntry /\ Copied(pos).idx = pos
      /\ pc' = "read" /\ pc = "line" /\ pos' = pos + 1 /\ UNCHANGED <<cur, perWindow>>
  BY <1>1, Placed DEF PlaceEntry
<1>5. /\ trace' = trace /\ windows' = windows /\ how' = how /\ made' = made
      /\ NWindows' = NWindows
  BY <1>4, RewriteLeaves
<1>6. /\ reads \in Seq(Nat \ {0}) /\ writes \in Seq(Nat \ {0})
      /\ temp \in Seq(OutEntry) /\ out \in Seq(OutEntry)
  BY <1>1 DEF RankType
<1>7. \A i \in NotSent : i \in 1 .. Len(trace) /\ i < pos
  BY <1>2, HeldFacts
<1> HIDE DEF Copied
\* Where the line goes.
<1>8. CASE /\ InCurrent(trace[pos].cycle) /\ UNCHANGED out
           /\ \/ /\ reads' = Append(reads, pos) /\ UNCHANGED <<writes, temp>>
                 /\ IsRead(pos) /\ (how.method = "targeted" => OfRank(pos))
              \/ /\ writes' = Append(writes, pos) /\ UNCHANGED <<reads, temp>>
                 /\ IsWrite(pos) /\ (how.method = "targeted" => OfRank(pos))
              \/ /\ temp' = Append(temp, Copied(pos)) /\ UNCHANGED <<reads, writes>>
                 /\ how.method = "targeted" /\ ~ OfRank(pos)
  <2>1. /\ Idxs(Append(reads, pos)) = Idxs(reads) \cup {pos}
        /\ Idxs(Append(writes, pos)) = Idxs(writes) \cup {pos}
        /\ Idxs(Indices(Append(temp, Copied(pos)))) = Idxs(Indices(temp)) \cup {pos}
    <3>1. /\ Indices(Append(temp, Copied(pos))) = Append(Indices(temp), Copied(pos).idx)
          /\ Indices(temp) \in Seq(Nat \ {0}) /\ Copied(pos).idx \in Nat \ {0}
      BY <1>4, <1>6, AppendIndices
    <3>2. Idxs(Append(Indices(temp), pos)) = Idxs(Indices(temp)) \cup {pos}
      BY ONLY <1>3, <3>1, AppendDistinct
    <3>a. \A s \in Seq(Nat \ {0}), x \in Nat \ {0} : Idxs(Append(s, x)) = Idxs(s) \cup {x}
      BY AppendDistinct
    <3>3. Idxs(Append(reads, pos)) = Idxs(reads) \cup {pos}
      BY <1>3, <1>6, <3>a
    <3>4. Idxs(Append(writes, pos)) = Idxs(writes) \cup {pos}
      BY <1>3, <1>6, <3>a
    <3> QED
      BY <1>4, <3>1, <3>2, <3>3, <3>4
  <2>2. NotSent' = NotSent \cup {pos} /\ Sent' = Sent
    <3>1. NotSent' = Idxs(reads') \cup Idxs(writes') \cup Idxs(Indices(temp'))
      BY DEF NotSent, Idxs, Indices
    <3>2. NotSent' = NotSent \cup {pos}
      BY <1>8, <2>1, <3>1 DEF NotSent
    <3> QED
      BY <1>8, <3>2 DEF Sent, Indices
  <2>3. /\ \A i \in Idxs(reads') : i \in Idxs(reads)
             \/ (i = pos /\ IsRead(pos) /\ (how.method = "targeted" => OfRank(pos)))
        /\ \A i \in Idxs(writes') : i \in Idxs(writes)
             \/ (i = pos /\ IsWrite(pos) /\ (how.method = "targeted" => OfRank(pos)))
        /\ \A i \in Idxs(Indices(temp')) : i \in Idxs(Indices(temp))
             \/ (i = pos /\ how.method = "targeted" /\ ~ OfRank(pos))
    BY <1>8, <2>1
  <2>4. cur <= NWindows /\ InWindow(windows[cur], trace[pos].cycle)
    BY <1>8 DEF InCurrent
  <2>5. ReadInv'
    <3>1. \A i \in 1 .. Len(trace) : i < pos + 1 => i < pos \/ i = pos
      BY <1>3
    <3>2. \A i \in Idxs(Sent) : i < pos + 1
      BY <1>2, <1>3 DEF ReadInv
    <3>3. Idxs(Sent)' = Idxs(Sent)
      BY <2>2 DEF Idxs
    <3> QED
      BY <1>2, <1>4, <1>5, <2>2, <3>1, <3>2, <3>3 DEF ReadInv
  <2>6. HeldInv'
    <3>1. \A i \in NotSent' : cur <= NWindows /\ InWindow(windows[cur], trace[i].cycle)
      BY <1>2, <2>2, <2>4 DEF HeldInv
    <3>2. /\ \A i \in Idxs(reads') : IsRead(i) /\ (how.method = "targeted" => OfRank(i))
          /\ \A i \in Idxs(writes') : IsWrite(i) /\ (how.method = "targeted" => OfRank(i))
          /\ \A i \in Idxs(Indices(temp')) : how.method = "targeted" /\ ~ OfRank(i)
      BY <1>2, <2>3 DEF HeldInv
    <3>3. /\ \A k \in DOMAIN temp' : temp'[k] = Copied(temp'[k].idx)
          /\ \A k, m \in DOMAIN temp' : k < m => temp'[k].idx < temp'[m].idx
      <4>1. CASE UNCHANGED temp
        BY <1>2, <4>1 DEF HeldInv
      <4>2. CASE temp' = Append(temp, Copied(pos))
        <5>1. /\ DOMAIN temp = 1 .. Len(temp) /\ Len(temp) \in Nat
              /\ DOMAIN temp' = 1 .. Len(temp) + 1
              /\ \A k \in 1 .. Len(temp) : temp'[k] = temp[k]
              /\ temp'[Len(temp) + 1] = Copied(pos)
          BY <1>4, <1>6, <4>2, AppendProperties, LenProperties
        <5>2. \A k \in 1 .. Len(temp) : temp[k].idx < pos
          <6>1. \A k \in 1 .. Len(temp) : temp[k].idx \in NotSent
            BY <5>1 DEF NotSent, Idxs, Indices
          <6> QED
            BY <1>7, <6>1
        <5>3. \A k \in 1 .. Len(temp) + 1 : k \in 1 .. Len(temp) \/ k = Len(temp) + 1
          BY <5>1
        <5>4. \A k \in DOMAIN temp' : temp'[k] = Copied(temp'[k].idx)
          BY <1>2, <1>4, <5>1, <5>3 DEF HeldInv
        <5>5. ASSUME NEW k \in DOMAIN temp', NEW m \in DOMAIN temp', k < m
              PROVE  temp'[k].idx < temp'[m].idx
          <6>1. k \in 1 .. Len(temp)
            BY <5>1, <5>5
          <6>2. CASE m \in 1 .. Len(temp)
            BY <1>2, <5>1, <5>5, <6>1, <6>2 DEF HeldInv
          <6>3. CASE m = Len(temp) + 1
            BY <1>4, <5>1, <5>2, <6>1, <6>3
          <6> QED
            BY <5>1, <5>3, <6>2, <6>3
        <5> QED
          BY <5>4, <5>5
      <4> QED
        BY <1>8, <4>1, <4>2
    <3>4. \A i : IsRead(i)' = IsRead(i) /\ IsWrite(i)' = IsWrite(i) /\ OfRank(i)' = OfRank(i)
      BY <1>5 DEF IsRead, IsWrite, OfRank, InRank, InRange
    <3>5. (HeldInv)' <=>
            /\ \A i \in NotSent' : cur' <= NWindows' /\ InWindow(windows'[cur'], trace'[i].cycle)
            /\ \A i \in Idxs(reads') : IsRead(i)' /\ (how'.method = "targeted" => OfRank(i)')
            /\ \A i \in Idxs(writes') : IsWrite(i)' /\ (how'.method = "targeted" => OfRank(i)')
            /\ \A i \in Idxs(Indices(temp')) : how'.method = "targeted" /\ ~ OfRank(i)'
            /\ \A k \in DOMAIN temp' : temp'[k] = [idx |-> temp'[k].idx,
                                                   cycle |-> trace'[temp'[k].idx].cycle]
            /\ \A k, m \in DOMAIN temp' : k < m => temp'[k].idx < temp'[m].idx
      BY DEF HeldInv, Idxs, Indices, InWindow, Copied, Emit
    <3>6. \A k \in DOMAIN temp' : temp'[k] = [idx |-> temp'[k].idx,
                                              cycle |-> trace'[temp'[k].idx].cycle]
      BY <1>5, <3>3 DEF Copied, Emit
    <3> QED
      BY <1>4, <1>5, <3>1, <3>2, <3>3, <3>4, <3>5, <3>6
  <2>7. PassedInv'
    <3>1. \A k \in 1 .. cur - 1, j \in 1 .. Len(trace) : j >= pos + 1 => trace[j].cycle > windows[k].end
      <4>1. \A j \in 1 .. Len(trace) : j >= pos + 1 => j >= pos
        BY <1>3
      <4> QED
        BY <1>2, <1>4, <4>1 DEF PassedInv
    <3>2. \A i \in Idxs(Sent), j \in NotSent \cup {pos} : i < j
      BY <1>2 DEF PassedInv, ReadInv
    <3>3. Idxs(Sent)' = Idxs(Sent)
      BY <2>2 DEF Idxs
    <3>4. cur <= NWindows => \A i \in Idxs(Sent) : OfRank(i) => made[i] < cur - 1
      BY <1>2 DEF PassedInv
    <3>5. \A i : OfRank(i)' = OfRank(i)
      BY <1>5 DEF OfRank, InRank, InRange
    <3> QED
      BY <1>4, <1>5, <2>2, <3>1, <3>2, <3>3, <3>4, <3>5 DEF PassedInv
  <2>8. SentInv' /\ BurstInv'
    BY <1>2, <1>4, <1>5, <1>8, <2>2 DEF SentInv, BurstInv, InFollowing, Follows, IsRead, IsWrite,
                                        OfRank, InRank, InRange, Copied, Emit
  <2> QED
    BY <2>5, <2>6, <2>7, <2>8 DEF RewriteParts
<1>9. CASE /\ ~ InCurrent(trace[pos].cycle)
           /\ out' = Append(out, Copied(pos)) /\ UNCHANGED <<reads, writes, temp>>
  <2>1. /\ NotSent = {} /\ (cur <= NWindows /\ OfRank(pos) => made[pos] < cur - 1)
        /\ \A i \in Idxs(Sent) : Follows(i, pos)
    BY <1>9, SentAtOnce
  <2>2. Sent' = Append(Sent, pos) /\ Sent \in Seq(Nat \ {0})
    <3>1. /\ Indices(Append(out, Copied(pos))) = Append(Indices(out), Copied(pos).idx)
          /\ Indices(out) \in Seq(Nat \ {0})
      BY <1>4, <1>6, AppendIndices
    <3> QED
      BY <1>4, <1>9, <3>1 DEF Sent, Indices
  <2>3. /\ Idxs(Sent') = Idxs(Sent) \cup {pos} /\ Idxs(Sent)' = Idxs(Sent')
        /\ NotSent' = {} /\ Idxs(reads)' = {} /\ Idxs(writes)' = {} /\ Idxs(Indices(temp))' = {}
    <3>1. Idxs(Sent') = Idxs(Sent) \cup {pos}
      BY <1>3, <2>2, AppendDistinct
    <3>2. NotSent' = NotSent
      BY <1>9 DEF NotSent, Idxs, Indices
    <3>3. Idxs(reads)' \subseteq NotSent' /\ Idxs(writes)' \subseteq NotSent' /\ Idxs(Indices(temp))' \subseteq NotSent'
      BY DEF NotSent
    <3> QED
      BY <2>1, <3>1, <3>2, <3>3 DEF Idxs
  <2>4. ReadInv'
    <3>1. \A i \in 1 .. Len(trace) : i < pos + 1 => i < pos \/ i = pos
      BY <1>3
    <3>2. \A i \in Idxs(Sent) \cup {pos} : i \in 1 .. Len(trace) /\ i < pos + 1
      BY <1>2, <1>3 DEF ReadInv
    <3> QED
      BY <1>2, <1>4, <1>5, <2>1, <2>3, <3>1, <3>2 DEF ReadInv
  <2>5. HeldInv'
    <3>1. DOMAIN temp = {}
      <4>1. \A k \in DOMAIN temp : temp[k].idx \in NotSent
        BY DEF NotSent, Idxs, Indices
      <4> QED
        BY <2>1, <4>1
    <3> QED
      BY <1>9, <2>3, <3>1 DEF HeldInv
  <2>6. PassedInv'
    <3>1. \A k \in 1 .. cur - 1, j \in 1 .. Len(trace) : j >= pos + 1 => trace[j].cycle > windows[k].end
      <4>1. \A j \in 1 .. Len(trace) : j >= pos + 1 => j >= pos
        BY <1>3
      <4> QED
        BY <1>2, <1>4, <4>1 DEF PassedInv
    <3>2. cur <= NWindows => \A i \in Idxs(Sent) \cup {pos} : OfRank(i) => made[i] < cur - 1
      BY <1>2, <2>1 DEF PassedInv
    <3>3. \A i : OfRank(i)' = OfRank(i)
      BY <1>5 DEF OfRank, InRank, InRange
    <3> QED
      BY <1>4, <1>5, <2>3, <3>1, <3>2, <3>3 DEF PassedInv
  <2>7. SentInv'
    <3>1. InFollowing(Append(Sent, pos))
      <4>1. /\ DOMAIN Sent = 1 .. Len(Sent) /\ Len(Sent) \in Nat
            /\ DOMAIN Append(Sent, pos) = 1 .. Len(Sent) + 1
            /\ \A k \in 1 .. Len(Sent) : Append(Sent, pos)[k] = Sent[k]
            /\ Append(Sent, pos)[Len(Sent) + 1] = pos
        BY <1>3, <2>2, AppendProperties, LenProperties
      <4>2. SUFFICES ASSUME NEW k \in 1 .. Len(Sent) + 1, NEW m \in 1 .. Len(Sent) + 1, k < m
                     PROVE  Follows(Append(Sent, pos)[k], Append(Sent, pos)[m])
        BY <4>1 DEF InFollowing
      <4>3. k \in 1 .. Len(Sent) /\ (m \in 1 .. Len(Sent) \/ m = Len(Sent) + 1)
        BY <4>1, <4>2
      <4>4. CASE m \in 1 .. Len(Sent)
        BY <1>2, <4>1, <4>2, <4>3, <4>4 DEF SentInv, InFollowing
      <4>5. CASE m = Len(Sent) + 1
        <5>1. Sent[k] \in Idxs(Sent)
          BY <4>1, <4>3 DEF Idxs
        <5> QED
          BY <2>1, <4>1, <4>3, <4>5, <5>1
      <4> QED
        BY <4>3, <4>4, <4>5
    <3>2. PICK s : s = Append(Sent, pos)
      OBVIOUS
    <3>3. InFollowing(Sent)'
      BY <1>4, <2>2, <3>1, <3>2, FollowingKept
    <3>4. ASSUME how.method = "targeted", NEW k \in DOMAIN out'
          PROVE  OfRank(out'[k].idx) \/ out'[k] = Copied(out'[k].idx)
      <4>1. (k \in DOMAIN out /\ out'[k] = out[k]) \/ out'[k] = Copied(pos)
        BY <1>4, <1>6, <1>9, AppendProperties, LenProperties
      <4> QED
        BY <1>2, <1>4, <3>4, <4>1 DEF SentInv
    <3>5. \A i : OfRank(i)' = OfRank(i) /\ Copied(i)' = Copied(i)
      BY <1>5 DEF OfRank, InRank, InRange, Copied, Emit
    <3>6. SentInv' <=> /\ InFollowing(Sent)'
                       /\ how'.method = "targeted" =>
                            \A k \in DOMAIN out' :
                              \/ InRank(trace'[out'[k].idx].addr)
                              \/ out'[k] = [idx |-> out'[k].idx, cycle |-> trace'[out'[k].idx].cycle]
      BY DEF SentInv, OfRank, InRank, InRange, Copied, Emit
    <3> QED
      BY <1>5, <3>3, <3>4, <3>6 DEF OfRank, Copied, Emit
  <2>8. BurstInv'
    BY <1>2, <1>4, <1>5 DEF BurstInv
  <2> QED
    BY <2>4, <2>5, <2>6, <2>7, <2>8 DEF RewriteParts
<1>10. QED
  <2>1. ASSUME InCurrent(trace[pos].cycle), how.method = "targeted", OfRank(pos)
        PROVE  Absorbed(trace[pos])
    <3>1. cur \in 1 .. NWindows /\ InWindow(windows[cur], trace[pos].cycle)
      BY <1>3, <2>1 DEF InCurrent
    <3>2. /\ trace[pos].cycle \in Nat /\ made[pos] \in Int
          /\ windows[cur].begin \in Nat /\ windows[cur].end \in Nat /\ windows[cur].id = cur - 1
          /\ made[pos] < cur - 1 => trace[pos].cycle < windows[cur].begin
          /\ made[pos] > cur - 1 => trace[pos].cycle > windows[cur].end
      BY <1>3, <2>1, <3>1, ReadyFacts
    <3>3. made[pos] = cur - 1
      BY <1>3, <3>1, <3>2 DEF InWindow
    <3>4. IsWrite(pos) => InRange(trace[pos].addr, DestRangeForIter(windows[cur].id))
      <4>1. made[pos] # -1
        BY <1>3, <3>1, <3>3
      <4> QED
        BY <1>3, <2>1, <3>2, <3>3, <4>1, ReadyFacts
    <3> QED
      BY <1>3, <2>1, <3>4 DEF Absorbed, IsRead, IsWrite, OfRank
  <2>2. Absorbed(trace[pos]) /\ how.method = "targeted" => OfRank(pos)
    BY DEF Absorbed, OfRank, InRank, DestRangeForIter
  <2>4. how.method \in {"targeted", "blind"}
    BY <1>1 DEF PageType
  <2>3. how.method # "targeted" => Absorbed(trace[pos])
    BY <1>3, <2>4 DEF Absorbed, IsRead, IsWrite
  <2>5. CASE InCurrent(trace[pos].cycle)
    BY <1>8, <2>1, <2>2, <2>3, <2>5 DEF PlaceEntry, Spills, IsRead, IsWrite
  <2>6. CASE ~ InCurrent(trace[pos].cycle)
    BY <1>9, <2>6 DEF PlaceEntry, Spills
  <2> QED
    BY <2>5, <2>6

\* The rewriters begin with nothing.
LEMMA RewriteStart == PageType /\ RewriterStart => RewriteParts
<1> SUFFICES ASSUME PageType, RewriterStart PROVE RewriteParts
  OBVIOUS
<1>1. /\ pc = "read" /\ pos = 1 /\ cur = 1 /\ temp = << >> /\ reads = << >> /\ writes = << >>
      /\ out = << >> /\ perWindow = << >>
  BY DEF RewriterStart
<1>2. Idxs(Sent) = {} /\ NotSent = {} /\ Sent = << >>
  BY <1>1, NoLine DEF Sent, NotSent
<1>3. Len(trace) \in Nat
  BY DEF PageType
<1>4. ReadInv
  BY <1>1, <1>2, <1>3 DEF ReadInv
<1>5. HeldInv
  BY <1>1, <1>2 DEF HeldInv, NotSent
<1>6. PassedInv
  BY <1>1, <1>2 DEF PassedInv
<1>7. SentInv /\ BurstInv
  BY <1>1, <1>2 DEF SentInv, BurstInv, InFollowing
<1> QED
  BY <1>4, <1>5, <1>6, <1>7 DEF RewriteParts

LEMMA RewriteKeeps == PageInv /\ TraceInv /\ RewriteInv /\ [PageNext]_pageVars => RewriteInv'
<1> SUFFICES ASSUME PageInv, TraceInv, RewriteInv, [PageNext]_pageVars, Ready'
             PROVE  RewriteParts'
  BY DEF RewriteInv
<1>1. CASE Workload
  <2>1. PageType' /\ RewriterStart'
    BY <1>1, WorkNext DEF PageInv
  <2>2. (PageType /\ RewriterStart => RewriteParts)'
    BY RewriteStart, PTL
  <2> QED
    BY <2>1, <2>2
<1>2. CASE Rewrite
  <2>1. Step /\ UNCHANGED workVars
    BY <1>2 DEF Rewrite
  <2>2. UNCHANGED input
    BY <2>1 DEF Step, SkipBlank, ReadEntry, FlushPassed, PlaceEntry, EndOfTrace, FlushTail,
                Finish, Flush
  <2>3. Ready /\ RewriteParts
    BY <2>1, <2>2, RewriteLeaves DEF RewriteInv
  <2>4. CASE SkipBlank
    <3>1. pos \in 1 .. Len(trace)
      BY <2>3, <2>4, ReadyFacts DEF SkipBlank
    <3>2. IsEntry(trace[pos])
      BY <2>3, <3>1, ReadyFacts DEF Entries
    <3> QED
      BY <2>4, <3>2 DEF SkipBlank
  <2>5. CASE ReadEntry
    BY <2>1, <2>2, <2>3, <2>5, QuietKeeps DEF ReadEntry
  <2>6. CASE EndOfTrace
    BY <2>1, <2>2, <2>3, <2>6, QuietKeeps DEF EndOfTrace
  <2>7. CASE Finish
    <3>1. pos = Len(trace) + 1
      BY <2>3, <2>7 DEF Finish, RewriteParts, ReadInv
    <3> QED
      BY <2>1, <2>2, <2>3, <2>7, <3>1, QuietKeeps DEF Finish
  <2> QED
    BY <2>1, <2>3, <2>4, <2>5, <2>6, <2>7, FlushKeeps, PlaceKeeps DEF Step
<1>3. CASE UNCHANGED pageVars
  <2>1. /\ UNCHANGED input /\ UNCHANGED workVars
        /\ UNCHANGED <<pos, cur, temp, reads, writes, out, perWindow>> /\ pc' = pc
    BY <1>3 DEF pageVars, rankVars
  <2>2. Ready /\ RewriteParts
    BY <2>1, RewriteLeaves DEF RewriteInv
  <2>3. /\ pc \in {"tail", "done"} => pos = Len(trace) + 1
        /\ pc = "done" => cur = NWindows + 1
    BY <2>2 DEF RewriteParts, ReadInv
  <2> QED
    BY <2>1, <2>2, <2>3, QuietKeeps
<1> QED
  BY <1>1, <1>2, <1>3 DEF PageNext, PageStopped

\* What a rewriter holds and has written of the workload's trace: each iteration's
\* accesses of the ranks go between those of the others, reads before writes, and the
\* targeted rewriter leaves the order of the other lines, and of accesses of one
\* address, as it is (run_experiment.py 106-242).
THEOREM RewriteInvariance == PageSpec => []RewriteInv
<1>1. PageInit => RewriteInv
  BY DEF PageInit, WorkloadInit, JobInit, RewriteInv, Ready
<1> QED
  BY <1>1, RewriteKeeps, PageInvariance, TraceInvariance, PTL DEF PageSpec
-----------------------------------------------------------------------------
(***************************************************************************)
(* What becomes of the ranks.                                              *)
(***************************************************************************)

\* When a rewriter has finished, all lines are in the output.
LEMMA DoneFacts ==
  ASSUME PageInv, TraceInv, Ready, RewriteParts, pc = "done"
  PROVE  /\ DOMAIN out = 1 .. Len(out) /\ Len(out) \in Nat
         /\ \A k \in DOMAIN out : out[k].idx \in 1 .. Len(trace)
         /\ \A i \in 1 .. Len(trace) : \E k \in DOMAIN out : out[k].idx = i
         /\ \A k, m \in DOMAIN out : k < m => Follows(out[k].idx, out[m].idx)
         /\ how.method = "targeted" =>
              \A k \in DOMAIN out : OfRank(out[k].idx) \/ out[k] = Copied(out[k].idx)
         /\ cur = NWindows + 1 /\ NWindows = ITERS
<1>1. ReadInv /\ HeldInv /\ SentInv /\ RankType
  BY DEF RewriteParts, PageInv
<1>2. Len(trace) \in Nat /\ NWindows \in Nat /\ cur = NWindows + 1 /\ NWindows = ITERS
      /\ pos = Len(trace) + 1
  BY <1>1, ReadyFacts DEF ReadInv
<1>3. NotSent = {}
  BY <1>1, <1>2 DEF HeldInv
<1>4. DOMAIN out = 1 .. Len(out) /\ Len(out) \in Nat
  BY <1>1, LenProperties DEF RankType
<1>5. DOMAIN Sent = DOMAIN out /\ \A k \in DOMAIN out : Sent[k] = out[k].idx
  BY DEF Sent, Indices
<1>6. \A i \in 1 .. Len(trace) : i \in Idxs(Sent)
  BY <1>1, <1>2, <1>3 DEF ReadInv
<1>7. \A i \in Idxs(Sent) : i \in 1 .. Len(trace)
  BY <1>1 DEF ReadInv
<1>8. \A k, m \in DOMAIN out : k < m => Follows(out[k].idx, out[m].idx)
  BY <1>1, <1>5 DEF SentInv, InFollowing
<1> QED
  BY <1>1, <1>2, <1>4, <1>5, <1>6, <1>7, <1>8 DEF Idxs, SentInv

\* Of some numbers up to n one is the last.
LEMMA LastNumber ==
  ASSUME NEW n \in Nat, NEW W \in SUBSET (1 .. n), W # {}
  PROVE  \E x \in W : \A y \in W : y <= x
<1>1. PICK R : R = OpToRel(<, Nat)
  OBVIOUS
<1>2. IsWellFoundedOn(R, Nat)
  BY <1>1, NatLessThanWellFounded
<1>3. PICK T : T = {n - x : x \in W}
  OBVIOUS
<1>4. T \subseteq Nat /\ T # {}
  <2>1. \A x \in W : n - x \in Nat
    OBVIOUS
  <2>2. PICK x \in W : TRUE
    OBVIOUS
  <2> QED
    BY <1>3, <2>1, <2>2
<1>5. PICK z \in T : \A y \in T : ~ (<<y, z>> \in R)
  BY <1>2, <1>4, WFMin
<1>6. PICK x \in W : z = n - x
  BY <1>3, <1>5
<1>7. ASSUME NEW y \in W PROVE y <= x
  <2>1. n - y \in T /\ n - y \in Nat /\ z \in Nat
    BY <1>3, <1>4, <1>5
  <2>2. ~ (n - y < z)
    BY <1>1, <1>5, <2>1 DEF OpToRel
  <2> QED
    BY <1>6, <2>1, <2>2
<1> QED
  BY <1>7

\* The line a read finds: the last write of its address in front of it.
LEMMA SourceFacts ==
  ASSUME NEW lines, DOMAIN lines = 1 .. Len(lines), NEW k \in DOMAIN lines, k \in Nat,
         NEW W, W = {m \in 1 .. k - 1 : /\ trace[lines[m].idx].op = "WRITE"
                                        /\ trace[lines[m].idx].addr = trace[lines[k].idx].addr}
  PROVE  /\ W = {} => Source(lines, k) = 0
         /\ W # {} => \E m \in W : Source(lines, k) = lines[m].idx /\ \A n \in W : n <= m
<1>1. Source(lines, k) = IF W = {} THEN 0 ELSE lines[CHOOSE m \in W : \A n \in W : n <= m].idx
  BY DEF Source
<1>2. ASSUME W # {}
      PROVE  \E m \in W : Source(lines, k) = lines[m].idx /\ \A n \in W : n <= m
  <2>1. \E x \in W : \A y \in W : y <= x
    <3>1. k - 1 \in Nat /\ W \in SUBSET (1 .. k - 1)
      OBVIOUS
    <3> QED
      BY <1>2, <3>1, LastNumber
  <2> QED
    BY <1>1, <1>2, <2>1
<1> QED
  BY <1>1, <1>2

\* The ranks an iteration reads have been written by the one before.
LEMMA RankWritten ==
  ASSUME PageInv, TraceInv, Ready, NEW i \in 1 .. Len(trace), OfRank(i), IsRead(i)
  PROVE  Wrote(made[i] - 1, trace[i].addr)
<1>1. WroteInv /\ LoopInv /\ MadeInv /\ at = "rewrite" /\ trace \in Seq(Line)
  BY DEF PageInv, PageType, TraceInv, Ours, Ready
<1>2. /\ iter = ITERS /\ made[i] \in Int /\ made[i] <= iter /\ made[i] >= 0
      /\ InRange(trace[i].addr, SourceRange(made[i])) /\ ITERS \in Nat
  BY <1>1, ReadyFacts, PageRankAssumption DEF LoopInv, MadeInv
<1>3. trace[i] \in Line
  BY <1>1
<1>4. PICK t \in Nat : t = made[i]
  BY <1>2
<1>5. /\ NODES \in Nat /\ Regions.rank_a.lo \in Nat /\ Regions.rank_b.lo \in Nat
      /\ Regions.rank_a.hi = Regions.rank_a.lo + NODES
      /\ Regions.rank_b.hi = Regions.rank_b.lo + NODES
  BY PageRankAssumption
<1>6. trace[i].addr \in Nat
  BY <1>3 DEF Line
<1>7. CASE t = 0
  <2>1. InRange(trace[i].addr, Regions.rank_a)
    BY <1>2, <1>4, <1>7 DEF SourceRange
  <2>2. PICK n \in Nodes : trace[i].addr = RankA(n)
    <3>1. trace[i].addr - Regions.rank_a.lo \in Nodes
      BY <1>5, <1>6, <2>1 DEF InRange, Nodes
    <3> QED
      BY <1>5, <1>6, <3>1 DEF RankA
  <2>3. Wrote(-1, RankA(n))
    BY <1>1 DEF WroteInv
  <2>4. made[i] - 1 = -1
    BY <1>4, <1>7
  <2> QED
    BY <2>2, <2>3, <2>4
<1>8. CASE t # 0
  <2>1. t - 1 \in 0 .. iter - 1
    BY <1>2, <1>4, <1>8
  <2>2. (t % 2 = 1 /\ (t - 1) % 2 = 0) \/ (t % 2 = 0 /\ (t - 1) % 2 = 1)
    BY <1>4, <1>8
  <2>3. PICK n \in Nodes : trace[i].addr = Rank(t - 1, n)
    <3>1. CASE t % 2 = 1 /\ (t - 1) % 2 = 0
      <4>1. InRange(trace[i].addr, Regions.rank_b)
        BY <1>2, <1>4, <3>1 DEF SourceRange
      <4>2. trace[i].addr - Regions.rank_b.lo \in Nodes
        BY <1>5, <1>6, <4>1 DEF InRange, Nodes
      <4>3. PICK n \in Nodes : n = trace[i].addr - Regions.rank_b.lo
        BY <4>2
      <4>4. trace[i].addr = RankB(n)
        BY <1>5, <1>6, <4>3 DEF RankB, Nodes
      <4>5. Rank(t - 1, n) = RankB(n)
        BY <3>1 DEF Rank
      <4> QED
        BY <4>4, <4>5
    <3>2. CASE t % 2 = 0 /\ (t - 1) % 2 = 1
      <4>1. InRange(trace[i].addr, Regions.rank_a)
        BY <1>2, <1>4, <3>2 DEF SourceRange
      <4>2. trace[i].addr - Regions.rank_a.lo \in Nodes
        BY <1>5, <1>6, <4>1 DEF InRange, Nodes
      <4> QED
        BY <1>5, <1>6, <3>2, <4>2 DEF Rank, RankA
    <3> QED
      BY <2>2, <3>1, <3>2
  <2>4. Wrote(t - 1, Rank(t - 1, n))
    BY <1>1, <2>1 DEF WroteInv
  <2> QED
    BY <1>4, <2>3, <2>4
<1> QED
  BY <1>7, <1>8

LEMMA ReadsPreviousOut ==
  ASSUME PageInv, TraceInv, Ready, RewriteParts, pc = "done"
  PROVE  ReadsPrevious(out)
<1>1. /\ DOMAIN out = 1 .. Len(out) /\ Len(out) \in Nat
      /\ \A k \in DOMAIN out : out[k].idx \in 1 .. Len(trace)
      /\ \A i \in 1 .. Len(trace) : \E k \in DOMAIN out : out[k].idx = i
      /\ \A k, m \in DOMAIN out : k < m => Follows(out[k].idx, out[m].idx)
  BY DoneFacts
<1>2. Len(trace) \in Nat /\ \A i \in 1 .. Len(trace) : made[i] \in Int /\ ~ (IsRead(i) /\ IsWrite(i))
  BY ReadyFacts
<1>3. SUFFICES ASSUME NEW k \in DOMAIN out, NEW i, i = out[k].idx, IsRead(i), OfRank(i)
               PROVE  Source(out, k) # 0 /\ made[Source(out, k)] = made[i] - 1
  BY DEF ReadsPrevious, IsRead, OfRank
<1>4. i \in 1 .. Len(trace) /\ k \in Nat
  BY <1>1, <1>3
<1>5. PICK W : W = {m \in 1 .. k - 1 : /\ trace[out[m].idx].op = "WRITE"
                                       /\ trace[out[m].idx].addr = trace[out[k].idx].addr}
  OBVIOUS
<1>6. PICK w \in 1 .. Len(trace) : IsWrite(w) /\ trace[w].addr = trace[i].addr /\ made[w] = made[i] - 1
  BY <1>3, <1>4, RankWritten DEF Wrote
<1>7. OfRank(w)
  BY <1>3, <1>6 DEF OfRank
<1>8. PICK n \in DOMAIN out : out[n].idx = w
  BY <1>1
<1>9. n < k
  <2>1. n # k
    BY <1>2, <1>3, <1>6, <1>8
  <2>2. ~ (k < n)
    <3>1. k < n => made[i] <= made[w]
      BY <1>1, <1>3, <1>7, <1>8 DEF Follows
    <3> QED
      BY <1>2, <1>4, <1>6, <3>1
  <2> QED
    BY <1>1, <2>1, <2>2
<1>10. n \in W
  BY <1>1, <1>3, <1>4, <1>5, <1>6, <1>8, <1>9 DEF IsWrite
<1>11. PICK m \in W : Source(out, k) = out[m].idx /\ \A x \in W : x <= m
  BY <1>1, <1>4, <1>5, <1>10, SourceFacts
<1>12. PICK x : x = out[m].idx
  OBVIOUS
<1>13. /\ m \in DOMAIN out /\ m < k /\ x \in 1 .. Len(trace)
       /\ IsWrite(x) /\ OfRank(x) /\ n <= m
  BY <1>1, <1>3, <1>4, <1>5, <1>10, <1>11, <1>12 DEF IsWrite, OfRank
<1>14. made[x] < made[i]
  BY <1>1, <1>3, <1>12, <1>13 DEF Follows
<1>15. made[w] <= made[x]
  <2>1. CASE n = m
    BY <1>2, <1>8, <1>12, <1>13, <2>1
  <2>2. CASE n < m
    BY <1>1, <1>7, <1>8, <1>12, <1>13, <2>2 DEF Follows
  <2> QED
    BY <1>1, <1>13, <2>1, <2>2
<1> QED
  BY <1>2, <1>4, <1>6, <1>11, <1>12, <1>13, <1>14, <1>15

\* Nothing is finished before there is a trace.
LEMMA DoneReady ==
  ASSUME PageInv, RewriteInv, FewTicks, FromWorkload, pc = "done"
  PROVE  Ready /\ RewriteParts
<1>1. at = "rewrite"
  BY DEF PageInv, WorkInv, RewriterStart
<1> QED
  BY <1>1 DEF Ready, RewriteInv, FromWorkload

\* Every iteration still reads the ranks the one before wrote, whatever the graph and
\* whichever rewriter, if a DRAM cycle is no longer than three accesses: the marker
\* and the accesses of the ranks on its two sides are then in different cycles
\* (pagerank_pull.cpp 105-126, run_experiment.py 106-242).
THEOREM RanksSurvive == PageSpec => [](FewTicks => RanksStillRight)
<1>1. PageInv /\ TraceInv /\ RewriteInv => (FewTicks => RanksStillRight)
  BY DoneReady, ReadsPreviousOut DEF RanksStillRight
<1> QED
  BY <1>1, PageInvariance, TraceInvariance, RewriteInvariance, PTL

\* Each burst of the targeted rewriter has every in-edge's old rank and every new rank
\* once (pagerank_pull.cpp 105-126, run_experiment.py 149-188).
THEOREM BurstsWhole == PageSpec => [](FewTicks => BurstPerIteration)
<1>1. ASSUME PageInv, TraceInv, RewriteInv, FewTicks, FromWorkload, pc = "done",
             how.method = "targeted"
      PROVE  /\ Len(perWindow) = ITERS
             /\ \A k \in 1 .. ITERS : /\ perWindow[k].reads = NODES * DEG
                                      /\ perWindow[k].writes = NODES
  <2>1. Ready /\ RewriteParts
    BY <1>1, DoneReady
  <2>2. cur = NWindows + 1 /\ NWindows = ITERS /\ NWindows \in Nat
    BY <1>1, <2>1, DoneFacts, ReadyFacts
  <2>3. Len(perWindow) = ITERS /\ DOMAIN perWindow = 1 .. ITERS
    BY <2>1, <2>2, LenProperties DEF RewriteParts, ReadInv
  <2> QED
    BY <1>1, <2>1, <2>3 DEF RewriteParts, BurstInv
<1>2. PageInv /\ TraceInv /\ RewriteInv => (FewTicks => BurstPerIteration)
  BY <1>1 DEF BurstPerIteration
<1> QED
  BY <1>2, PageInvariance, TraceInvariance, RewriteInvariance, PTL

\* What is not of the rank arrays is copied.
LEMMA TraversalOut ==
  ASSUME PageInv, TraceInv, Ready, RewriteParts, pc = "done", how.method = "targeted"
  PROVE  Traversal(out) = Traversal(Whole)
<1>1. /\ \A k \in DOMAIN out : out[k].idx \in 1 .. Len(trace)
      /\ \A i \in 1 .. Len(trace) : \E k \in DOMAIN out : out[k].idx = i
      /\ \A k \in DOMAIN out : OfRank(out[k].idx) \/ out[k] = Copied(out[k].idx)
  BY DoneFacts
<1>2. DOMAIN trace = 1 .. Len(trace)
  BY LenProperties DEF PageInv, PageType
<1>3. /\ DOMAIN Whole = 1 .. Len(trace)
      /\ \A i \in 1 .. Len(trace) : Whole[i] = Copied(i)
  BY <1>2 DEF Whole
<1>4. \A i \in 1 .. Len(trace) : Copied(i).idx = i
  BY DEF Copied, Emit
<1> HIDE DEF Copied
<1>5. ASSUME NEW k \in DOMAIN out, ~ OfRank(out[k].idx)
      PROVE  out[k] \in Traversal(Whole)
  <2>1. PICK i \in 1 .. Len(trace) : i = out[k].idx
    BY <1>1
  <2>2. Whole[i] = out[k] /\ ~ InRank(trace[Whole[i].idx].addr)
    BY <1>1, <1>3, <1>4, <1>5, <2>1 DEF OfRank
  <2> QED
    BY <1>3, <2>2 DEF Traversal
<1>6. ASSUME NEW i \in DOMAIN Whole, ~ InRank(trace[Whole[i].idx].addr)
      PROVE  Whole[i] \in Traversal(out)
  <2>1. ~ OfRank(i) /\ i \in 1 .. Len(trace) /\ Whole[i] = Copied(i)
    BY <1>3, <1>4, <1>6 DEF OfRank
  <2>2. PICK k \in DOMAIN out : out[k].idx = i
    BY <1>1, <2>1
  <2>3. out[k] = Whole[i] /\ ~ InRank(trace[out[k].idx].addr)
    BY <1>1, <2>1, <2>2 DEF OfRank
  <2> QED
    BY <2>3 DEF Traversal
<1> QED
  BY <1>5, <1>6 DEF Traversal, OfRank

\* No read finds another line than before.
LEMMA SourceKept ==
  ASSUME PageInv, TraceInv, Ready, RewriteParts, pc = "done", how.method = "targeted",
         NEW k \in DOMAIN out, IsRead(out[k].idx)
  PROVE  Source(out, k) = Source(Whole, out[k].idx)
<1>1. /\ DOMAIN out = 1 .. Len(out) /\ Len(out) \in Nat
      /\ \A m \in DOMAIN out : out[m].idx \in 1 .. Len(trace)
      /\ \A i \in 1 .. Len(trace) : \E m \in DOMAIN out : out[m].idx = i
      /\ \A m, n \in DOMAIN out : m < n => Follows(out[m].idx, out[n].idx)
  BY DoneFacts
<1>2. Len(trace) \in Nat /\ DOMAIN trace = 1 .. Len(trace)
  BY LenProperties DEF PageInv, PageType
<1>3. /\ DOMAIN Whole = 1 .. Len(Whole) /\ DOMAIN Whole = 1 .. Len(trace)
      /\ \A i \in 1 .. Len(trace) : Whole[i].idx = i
  <2>1. \A s : s = [i \in 1 .. Len(trace) |-> Copied(i)] => Len(s) = Len(trace)
    BY <1>2
  <2> QED
    BY <1>2, <2>1 DEF Whole, Copied, Emit
<1>4. PICK i \in 1 .. Len(trace) : i = out[k].idx
  BY <1>1
<1>5. PICK W : W = {m \in 1 .. k - 1 : /\ trace[out[m].idx].op = "WRITE"
                                       /\ trace[out[m].idx].addr = trace[out[k].idx].addr}
  OBVIOUS
<1>6. PICK V : V = {m \in 1 .. i - 1 : /\ trace[Whole[m].idx].op = "WRITE"
                                       /\ trace[Whole[m].idx].addr = trace[Whole[i].idx].addr}
  OBVIOUS
<1>7. IsRead(i) /\ ~ IsWrite(i)
  BY <1>4 DEF IsRead, IsWrite
\* The writes in front of it are the same.
<1>8. ASSUME NEW m \in W
      PROVE  out[m].idx \in V /\ m \in DOMAIN out /\ IsWrite(out[m].idx) 
             /\ trace[out[m].idx].addr = trace[i].addr
  <2>1. m \in DOMAIN out /\ m < k /\ IsWrite(out[m].idx) /\ trace[out[m].idx].addr = trace[i].addr
    BY <1>1, <1>4, <1>5, <1>8 DEF IsWrite
  <2>2. out[m].idx < i
    BY <1>1, <1>4, <2>1 DEF Follows
  <2>3. out[m].idx \in 1 .. Len(trace)
    BY <1>1, <2>1
  <2> QED
    BY <1>3, <1>6, <2>1, <2>2, <2>3 DEF IsWrite
<1>9. ASSUME NEW j \in V
      PROVE  \E m \in W : out[m].idx = j
  <2>1. j \in 1 .. Len(trace) /\ j < i /\ IsWrite(j) /\ trace[j].addr = trace[i].addr
    BY <1>3, <1>6, <1>9 DEF IsWrite
  <2>2. PICK m \in DOMAIN out : out[m].idx = j
    BY <1>1, <2>1
  <2>3. m # k
    BY <1>4, <1>7, <2>1, <2>2
  <2>4. ~ (k < m)
    <3>1. k < m => i < j
      BY <1>1, <1>4, <2>1, <2>2 DEF Follows
    <3> QED
      BY <2>1, <3>1
  <2>5. m \in 1 .. k - 1
    BY <1>1, <2>3, <2>4
  <2> QED
    BY <1>4, <1>5, <2>1, <2>2, <2>5 DEF IsWrite
<1>10. /\ W = {} => Source(out, k) = 0
       /\ W # {} => \E m \in W : Source(out, k) = out[m].idx /\ \A n \in W : n <= m
  <2>1. DOMAIN out = 1 .. Len(out) /\ k \in DOMAIN out /\ k \in Nat
    BY <1>1
  <2> QED
    BY ONLY <1>5, <2>1, SourceFacts
<1>11. /\ V = {} => Source(Whole, i) = 0
       /\ V # {} => \E m \in V : Source(Whole, i) = Whole[m].idx /\ \A n \in V : n <= m
  <2>1. DOMAIN Whole = 1 .. Len(Whole) /\ i \in DOMAIN Whole /\ i \in Nat
    BY <1>2, <1>3
  <2> QED
    BY ONLY <1>6, <2>1, SourceFacts
<1>12. CASE W = {}
  BY <1>4, <1>9, <1>10, <1>11, <1>12
<1>13. CASE W # {}
  <2>1. PICK m \in W : Source(out, k) = out[m].idx /\ \A n \in W : n <= m
    BY <1>10, <1>13
  <2>2. PICK j \in V : Source(Whole, i) = Whole[j].idx /\ \A n \in V : n <= j
    BY <1>8, <1>11, <1>13
  <2>3. j \in 1 .. Len(trace) /\ Source(Whole, i) = j /\ IsWrite(j) /\ trace[j].addr = trace[i].addr
    BY <1>3, <1>6, <2>2 DEF IsWrite
  <2>4. PICK n \in W : out[n].idx = j
    BY <1>9
  <2>5. n = m \/ n < m
    BY <1>1, <1>8, <2>1
  <2>6. ~ (n < m)
    <3>1. n < m => j < out[m].idx
      BY <1>1, <1>8, <2>3, <2>4 DEF Follows
    <3>2. out[m].idx <= j /\ out[m].idx \in Nat
      BY <1>1, <1>8, <2>2
    <3> QED
      BY <2>3, <3>1, <3>2
  <2> QED
    BY <1>4, <2>1, <2>3, <2>4, <2>5, <2>6
<1> QED
  BY <1>12, <1>13

\* The targeted rewriter moves the ranks only: the other lines keep their order and
\* cycles, and no read of any address finds another value than in the workload
\* (run_experiment.py 149-188).
THEOREM TraversalKept == PageSpec => [](FewTicks => TraversalUntouched)
<1>1. ASSUME PageInv, TraceInv, RewriteInv, FewTicks, FromWorkload, pc = "done",
             how.method = "targeted"
      PROVE  /\ Traversal(out) = Traversal(Whole)
             /\ \A k, m \in DOMAIN out :
                  k < m /\ {out[k], out[m]} \subseteq Traversal(out) => out[k].idx < out[m].idx
             /\ \A k \in DOMAIN out :
                  trace[out[k].idx].op = "READ" => Source(out, k) = Source(Whole, out[k].idx)
  <2>1. Ready /\ RewriteParts
    BY <1>1, DoneReady
  <2>2. ASSUME NEW k \in DOMAIN out, NEW m \in DOMAIN out, k < m,
               out[k] \in Traversal(out), out[m] \in Traversal(out)
        PROVE  out[k].idx < out[m].idx
    <3>1. ~ OfRank(out[k].idx) /\ ~ OfRank(out[m].idx)
      BY <2>2 DEF Traversal, OfRank
    <3>2. Follows(out[k].idx, out[m].idx)
      BY <1>1, <2>1, <2>2, DoneFacts
    <3> QED
      BY <1>1, <3>1, <3>2 DEF Follows
  <2>3. \A k \in DOMAIN out :
          trace[out[k].idx].op = "READ" => Source(out, k) = Source(Whole, out[k].idx)
    BY <1>1, <2>1, SourceKept DEF IsRead
  <2> QED
    BY <1>1, <2>1, <2>2, <2>3, TraversalOut
<1>2. PageInv /\ TraceInv /\ RewriteInv => (FewTicks => TraversalUntouched)
  BY <1>1 DEF TraversalUntouched
<1> QED
  BY <1>2, PageInvariance, TraceInvariance, RewriteInvariance, PTL
=============================================================================

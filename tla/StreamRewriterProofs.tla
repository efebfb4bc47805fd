------------------------ MODULE StreamRewriterProofs ------------------------
(***************************************************************************)
(* Proofs about StreamRewriter, for every set of inputs and every number   *)
(* of runs: where each line is, what the summary counts, that the buffer   *)
(* is the abstract one, that the sorted lists it writes exist, and, for    *)
(* traces in cycle order, the order of the output and of each burst.       *)
(***************************************************************************)
EXTENDS StreamRewriter, SequenceTheorems, FunctionTheorems, FiniteSetTheorems, TLAPS

(***************************************************************************)
(* The lines of the output and of the files.                               *)
(***************************************************************************)

\* The job's parts have the types JobsAssumption gives them.
LEMMA JobTypes ==
  ASSUME job \in Jobs
  PROVE  /\ trace \in Seq(Line) /\ Len(trace) \in Nat
         /\ windows \in Seq(Windows(WindowIds)) /\ NWindows \in Nat
         /\ \A i \in 1 .. Len(trace) : trace[i] \in Line
         /\ \A k \in 1 .. NWindows : windows[k] \in Windows(WindowIds)
BY JobsAssumption DEF trace, windows, NWindows

\* A set of line numbers is finite.
LEMMA LineNumbersFinite ==
  ASSUME NEW n \in Nat, NEW S \in SUBSET (1 .. n)
  PROVE  IsFiniteSet(S) /\ Cardinality(S) \in Nat
<1>1. IsFiniteSet(1 .. n)
  BY FS_Interval
<1>2. IsFiniteSet(S)
  BY <1>1, FS_Subset
<1> QED
  BY <1>2, FS_CardinalityType

\* A finite set can be listed in the order of a strict linear order on it, where B[i]
\* is what comes before i: how much does is different for each element, so each place
\* is taken by one.
LEMMA ListInOrder ==
  ASSUME NEW S, IsFiniteSet(S), NEW B,
         \A i \in S : i \notin B[i],
         \A i, j, l \in S : i \in B[j] /\ j \in B[l] => i \in B[l],
         \A i, j \in S : i # j => i \in B[j] \/ j \in B[i]
  PROVE  \E p \in Arrangements(S) :
           \A k, m \in DOMAIN p : k < m => p[k] \in B[p[m]]
<1> DEFINE n == Cardinality(S)
           D == 1 .. n
           E(i) == {j \in S : j \in B[i]}
           rank == [i \in S |-> Cardinality(E(i)) + 1]
<1>1. n \in Nat
  BY FS_CardinalityType
<1>2. IsFiniteSet(D) /\ Cardinality(D) = n
  <2> HIDE DEF n
  <2>1. IsFiniteSet(1 .. n) /\ Cardinality(1 .. n) = IF 1 > n THEN 0 ELSE n - 1 + 1
    BY <1>1, FS_Interval
  <2> QED
    BY <1>1, <2>1
<1>3. ASSUME NEW i \in S
      PROVE  /\ IsFiniteSet(E(i)) /\ Cardinality(E(i)) \in Nat
             /\ Cardinality(E(i)) + 1 \in D
  <2>1. i \notin E(i)
    OBVIOUS
  <2>2. IsFiniteSet(S \ {i}) /\ Cardinality(S \ {i}) = n - 1
    BY FS_RemoveElement
  <2>3. E(i) \in SUBSET (S \ {i})
    BY <2>1
  <2> HIDE DEF E, n
  <2>4. IsFiniteSet(E(i)) /\ Cardinality(E(i)) <= n - 1
    BY <2>2, <2>3, FS_Subset
  <2>5. Cardinality(E(i)) \in Nat
    BY <2>4, FS_CardinalityType
  <2> QED
    BY <1>1, <2>4, <2>5
<1>4. ASSUME NEW i \in S, NEW j \in S, i \in B[j]
      PROVE  Cardinality(E(i)) < Cardinality(E(j))
  <2>1. E(i) \in SUBSET E(j)
    BY <1>4
  <2>2. i \in E(j) /\ i \notin E(i)
    BY <1>4
  <2>3. IsFiniteSet(E(j))
    BY <1>3
  <2>4. /\ Cardinality(E(i)) <= Cardinality(E(j))
        /\ Cardinality(E(j)) = Cardinality(E(i)) => E(j) = E(i)
    BY <2>1, <2>3, FS_Subset
  <2>5. Cardinality(E(i)) \in Nat /\ Cardinality(E(j)) \in Nat
    BY <1>3
  <2> QED
    BY <2>2, <2>4, <2>5
<1>5. /\ rank \in [S -> D]
      /\ \A i, j \in S : i \in B[j] => rank[i] < rank[j]
  <2>1. rank \in [S -> D]
    BY <1>3
  <2>2. ASSUME NEW i \in S, NEW j \in S, i \in B[j] PROVE rank[i] < rank[j]
    <3>1. /\ Cardinality(E(i)) \in Nat /\ Cardinality(E(j)) \in Nat
          /\ Cardinality(E(i)) < Cardinality(E(j))
      BY <1>3, <1>4, <2>2
    <3>2. rank[i] = Cardinality(E(i)) + 1 /\ rank[j] = Cardinality(E(j)) + 1
      OBVIOUS
    <3> HIDE DEF E, rank
    <3> QED
      BY <3>1, <3>2
  <2> QED
    BY <2>1, <2>2
<1> HIDE DEF rank
<1>6. \A i, j \in S : rank[i] = rank[j] => i = j
  <2>1. \A i \in S : rank[i] \in Int
    BY <1>1, <1>5
  <2>2. \A i, j \in S : ~ (rank[i] < rank[j] /\ rank[i] = rank[j])
                        /\ ~ (rank[j] < rank[i] /\ rank[i] = rank[j])
    BY <2>1
  <2> QED
    BY <1>5, <2>2
<1>7. \A k \in D : \E i \in S : rank[i] = k
  <2> HIDE DEF D
  <2>1. rank \in Injection(S, D)
    BY <1>5, <1>6, Fun_IsInj
  <2>2. Cardinality(S) = Cardinality(D)
    BY <1>2
  <2>3. rank \in Surjection(S, D)
    BY <1>2, <2>1, <2>2, FS_Injection
  <2> QED
    BY <2>3 DEF Surjection
<1> DEFINE p == [k \in D |-> CHOOSE i \in S : rank[i] = k]
<1>8. /\ p \in [D -> S] /\ DOMAIN p = D /\ \A k \in D : rank[p[k]] = k
  <2>1. \A k \in D : (CHOOSE i \in S : rank[i] = k) \in S
                     /\ rank[CHOOSE i \in S : rank[i] = k] = k
    <3> HIDE DEF D
    <3> QED
      BY <1>7
  <2> HIDE DEF D
  <2> QED
    BY <2>1
<1> HIDE DEF p
<1>9. p \in Arrangements(S)
  <2>1. ASSUME NEW i \in S PROVE \E k \in DOMAIN p : p[k] = i
    <3>1. rank[i] \in D /\ p[rank[i]] \in S /\ rank[p[rank[i]]] = rank[i]
      BY <1>5, <1>8
    <3>2. p[rank[i]] = i
      BY <1>6, <3>1
    <3> QED
      BY <1>8, <3>1, <3>2
  <2> QED
    BY <1>8, <2>1 DEF Arrangements
<1>10. ASSUME NEW k \in D, NEW m \in D, k < m PROVE p[k] \in B[p[m]]
  <2>1. p[k] \in S /\ p[m] \in S /\ rank[p[k]] = k /\ rank[p[m]] = m
    BY <1>8
  <2>2. p[k] # p[m]
    BY <1>1, <1>10, <2>1
  <2>3. ~ (p[m] \in B[p[k]])
    BY <1>1, <1>5, <1>10, <2>1
  <2> QED
    BY <2>1, <2>2, <2>3
<1> QED
  BY <1>8, <1>9, <1>10

\* Lines can be sorted by their key, whatever the trace: the key decides between any
\* two of them.  So a flush is never without an order to write in.
LEMMA SortExists ==
  ASSUME NEW S, IsFiniteSet(S), NEW t, \A i \in S : i \in Nat /\ t[i].addr \in Nat
  PROVE  Sorted(t, S) # {}
<1> DEFINE B == [j \in S |-> {i \in S : Before(t, i, j)}]
<1>2. \A i, j \in S : i \in B[j] <=> Before(t, i, j)
  OBVIOUS
<1>3. /\ \A i \in S : ~ Before(t, i, i)
      /\ \A i, j, l \in S : Before(t, i, j) /\ Before(t, j, l) => Before(t, i, l)
      /\ \A i, j \in S : i # j => Before(t, i, j) \/ Before(t, j, i)
  BY DEF Before
<1> HIDE DEF B
<1>5. PICK p \in Arrangements(S) :
        \A k, m \in DOMAIN p : k < m => p[k] \in B[p[m]]
  <2>1. \A i \in S : i \notin B[i]
    BY <1>2, <1>3
  <2>2. \A i, j, l \in S : i \in B[j] /\ j \in B[l] => i \in B[l]
    BY <1>2, <1>3
  <2>3. \A i, j \in S : i # j => i \in B[j] \/ j \in B[i]
    BY <1>2, <1>3
  <2> QED
    BY <2>1, <2>2, <2>3, ListInOrder
<1>6. \A k \in DOMAIN p : p[k] \in S
  BY DEF Arrangements
<1>7. p \in Sorted(t, S)
  BY <1>2, <1>5, <1>6 DEF Sorted
<1> QED
  BY <1>7

\* What sorting a set of line numbers gives: a list of exactly those numbers.
LEMMA SortedFacts ==
  ASSUME job \in Jobs, NEW S \in SUBSET (1 .. Len(trace)),
         NEW p \in Sorted(trace, S)
  PROVE  /\ p \in Seq(S) /\ DOMAIN p = 1 .. Len(p) /\ Len(p) \in Nat
         /\ \A i \in S : \E k \in 1 .. Len(p) : p[k] = i
         /\ \A k, m \in 1 .. Len(p) : p[k] = p[m] => k = m
<1>1. Cardinality(S) \in Nat
  BY JobTypes, LineNumbersFinite
<1>2. p \in [1 .. Cardinality(S) -> S] /\ \A i \in S : \E k \in DOMAIN p : p[k] = i
  BY DEF Sorted, Arrangements
<1>3. p \in Seq(S) /\ Len(p) = Cardinality(S)
  BY <1>1, <1>2
<1>4. ASSUME NEW k \in 1 .. Len(p), NEW m \in 1 .. Len(p), p[k] = p[m], k < m
      PROVE  FALSE
  <2>1. Before(trace, p[k], p[m])
    BY <1>2, <1>3, <1>4 DEF Sorted
  <2>2. p[k] \in 1 .. Len(trace) /\ trace[p[k]].addr \in Nat
    BY <1>2, <1>3, JobTypes DEF Line
  <2> QED
    BY <1>4, <2>1, <2>2 DEF Before
<1> QED
  BY <1>1, <1>2, <1>3, <1>4

\* A phase of a burst: one line for each number of the set it was made from.
LEMMA PhaseFacts ==
  ASSUME TypeOK, cur \in 1 .. NWindows, NEW S \in SUBSET (1 .. Len(trace)),
         NEW p \in Sorted(trace, S)
  PROVE  /\ Phase(p) \in Seq(OutLine)
         /\ Len(Phase(p)) = Len(p)
         /\ \A k \in 1 .. Len(p) : Phase(p)[k] = Written(p[k], windows[cur].begin)
<1>1. /\ p \in Seq(S) /\ DOMAIN p = 1 .. Len(p) /\ Len(p) \in Nat
  BY SortedFacts DEF TypeOK
<1>2. windows[cur].begin \in Nat
  BY JobTypes DEF TypeOK, Windows
<1>3. ASSUME NEW k \in 1 .. Len(p)
      PROVE  Written(p[k], windows[cur].begin) \in OutLine
  <2>1. p[k] \in S
    BY <1>1
  <2>2. p[k] \in Nat \ {0}
    <3>1. Len(trace) \in Nat
      BY JobTypes DEF TypeOK
    <3>2. p[k] \in 1 .. Len(trace)
      BY <2>1
    <3> QED
      BY <3>1, <3>2
  <2>3. run \in 1 .. MaxRuns
    BY DEF TypeOK
  <2> QED
    BY <1>2, <2>2, <2>3 DEF OutLine, Written
<1> QED
  BY <1>1, <1>3 DEF Phase
-----------------------------------------------------------------------------
(***************************************************************************)
(* Type correctness.                                                       *)
(***************************************************************************)
\* The initial state is well typed.
LEMMA TypeInit == Init => TypeOK
<1> SUFFICES ASSUME Init PROVE TypeOK
  OBVIOUS
<1>1. job \in Jobs /\ Len(trace) \in Nat /\ NWindows \in Nat
  BY JobTypes DEF Init, FirstStart
<1>2. temp \in [WindowIds -> Seq(OutLine)]
  BY DEF Init, FirstStart
<1>3. counts \in [total : Nat, gcell : Nat, rewritten : Nat, outside : Nat]
  BY DEF Init, FirstStart, NoCounts
<1>4. active \in BOOLEAN /\ ~ active /\ reads \in SUBSET (1 .. Len(trace))
      /\ writes \in SUBSET (1 .. Len(trace))
  BY DEF Init, FirstStart
<1>5. out \in Seq(OutLine) /\ perWindow \in Seq([id : WindowIds, reads : Nat, writes : Nat])
  BY DEF Init, FirstStart
<1>6. /\ run \in 1 .. MaxRuns /\ pc \in Pcs /\ pc # "line"
      /\ pos \in 1 .. Len(trace) + 1 /\ cur \in 1 .. NWindows + 1 /\ next \in 1 .. NWindows + 1
  BY <1>1, MaxRunsAssumption DEF Init, FirstStart, Pcs
<1> QED
  BY <1>1, <1>2, <1>3, <1>4, <1>5, <1>6 DEF TypeOK

\* A flush keeps the output, the files and the summary well typed.
LEMMA FlushType ==
  ASSUME TypeOK, cur \in 1 .. NWindows, FlushWindow
  PROVE  /\ out' \in Seq(OutLine) /\ temp' \in [WindowIds -> Seq(OutLine)]
         /\ perWindow' \in Seq([id : WindowIds, reads : Nat, writes : Nat])
<1>1. windows[cur].id \in WindowIds
  BY JobTypes DEF TypeOK, Windows
<1>2. PICK r \in Sorted(trace, reads), w \in Sorted(trace, writes) :
        out' = out \o Burst(r, w) \o temp[windows[cur].id]
  BY DEF FlushWindow
<1>3. Phase(r) \in Seq(OutLine) /\ Phase(w) \in Seq(OutLine)
  BY PhaseFacts DEF TypeOK
<1>4. out' \in Seq(OutLine)
  <2>1. out \in Seq(OutLine) /\ temp[windows[cur].id] \in Seq(OutLine)
    BY <1>1 DEF TypeOK
  <2> QED
    BY <1>2, <1>3, <2>1 DEF Burst
<1>5. Cardinality(reads) \in Nat /\ Cardinality(writes) \in Nat
  BY JobTypes, LineNumbersFinite DEF TypeOK
<1>6. temp' \in [WindowIds -> Seq(OutLine)]
  BY <1>1 DEF FlushWindow, TypeOK
<1>7. perWindow' \in Seq([id : WindowIds, reads : Nat, writes : Nat])
  BY <1>1, <1>5 DEF FlushWindow, TypeOK
<1> QED
  BY <1>4, <1>6, <1>7

\* Every step keeps the state well typed.
LEMMA TypeNext == TypeOK /\ [Next]_vars => TypeOK'
<1> SUFFICES ASSUME TypeOK, [Next]_vars PROVE TypeOK'
  OBVIOUS
<1> USE DEF files, buffer
<1>1. /\ trace \in Seq(Line) /\ Len(trace) \in Nat /\ NWindows \in Nat
      /\ \A k \in 1 .. NWindows : windows[k].id \in WindowIds
  BY JobTypes DEF TypeOK, Windows
<1>2. job' = job => trace' = trace /\ windows' = windows /\ NWindows' = NWindows
  BY DEF trace, windows, NWindows
<1>3. ASSUME job' = job, run' = run, pc' \in Pcs, pos' \in 1 .. Len(trace) + 1,
             pc' = "line" => pos' \in Entries(trace),
             cur' \in 1 .. NWindows + 1, next' \in 1 .. NWindows + 1,
             pc' = "line" => cur' <= next',
             active' \in BOOLEAN, active' => cur' <= NWindows,
             reads' \in SUBSET (1 .. Len(trace)), writes' \in SUBSET (1 .. Len(trace)),
             temp' \in [WindowIds -> Seq(OutLine)], out' \in Seq(OutLine),
             counts' \in [total : Nat, gcell : Nat, rewritten : Nat, outside : Nat],
             perWindow' \in Seq([id : WindowIds, reads : Nat, writes : Nat])
      PROVE  TypeOK'
  BY <1>2, <1>3 DEF TypeOK
<1>4. CASE SkipBlank
  BY <1>1, <1>3, <1>4 DEF SkipBlank, TypeOK, Pcs
<1>5. CASE ReadEntry
  <2>1. pos \in Entries(trace)
    BY <1>1, <1>5 DEF ReadEntry, Entries, TypeOK
  <2>2. counts' \in [total : Nat, gcell : Nat, rewritten : Nat, outside : Nat]
    <3>1. counts \in [total : Nat, gcell : Nat, rewritten : Nat, outside : Nat]
      BY DEF TypeOK
    <3> QED
      BY <1>5, <3>1 DEF ReadEntry
  <2>3. next' \in cur .. NWindows + 1
    BY <1>5 DEF ReadEntry
  <2>4. cur' <= next' /\ next' \in 1 .. NWindows + 1
    BY <1>1, <1>5, <2>3 DEF ReadEntry, TypeOK
  <2>5. /\ temp' \in [WindowIds -> Seq(OutLine)] /\ out' \in Seq(OutLine)
        /\ reads' \in SUBSET (1 .. Len(trace)) /\ writes' \in SUBSET (1 .. Len(trace))
        /\ perWindow' \in Seq([id : WindowIds, reads : Nat, writes : Nat])
    BY <1>5 DEF ReadEntry, TypeOK
  <2>8. active' \in BOOLEAN /\ (active' => cur' <= NWindows)
    BY <1>5 DEF ReadEntry, TypeOK
  <2>6. job' = job /\ run' = run /\ pc' \in Pcs /\ pos' = pos /\ cur' = cur
    BY <1>5 DEF ReadEntry, Pcs
  <2>7. pos \in 1 .. Len(trace) + 1 /\ cur \in 1 .. NWindows + 1
    BY DEF TypeOK
  <2> QED
    BY <1>3, <2>1, <2>2, <2>4, <2>5, <2>6, <2>7, <2>8
<1>6. CASE FlushWindow /\ cur \in 1 .. NWindows /\ (pc = "line" => cur < next)
  <2>1. /\ out' \in Seq(OutLine) /\ temp' \in [WindowIds -> Seq(OutLine)]
        /\ perWindow' \in Seq([id : WindowIds, reads : Nat, writes : Nat])
    BY <1>6, FlushType
  <2>2. cur' \in 1 .. NWindows + 1 /\ (pc = "line" => cur' <= next)
    BY <1>1, <1>6 DEF FlushWindow, TypeOK
  <2> QED
    BY <1>1, <1>3, <1>6, <2>1, <2>2 DEF FlushWindow, TypeOK, Pcs
<1>7. CASE FlushPassed
  BY <1>1, <1>6, <1>7 DEF FlushPassed, TypeOK
<1>8. CASE FlushTail
  BY <1>1, <1>6, <1>8 DEF FlushTail, TypeOK
<1>9. CASE PlaceEntry
  <2>1. /\ pos \in 1 .. Len(trace) /\ trace[pos] \in Line
    BY <1>1, <1>9 DEF PlaceEntry, TypeOK, Entries
  <2>2. \A c \in Nat : Written(pos, c) \in OutLine
    BY <1>1, <2>1 DEF Written, OutLine, TypeOK
  <2>3. Written(pos, trace[pos].cycle) \in OutLine
    BY <2>1, <2>2 DEF Line
  <2>4. ASSUME NEW kept \in BOOLEAN
        PROVE  Tally(trace[pos], kept) \in [total : Nat, gcell : Nat, rewritten : Nat, outside : Nat]
    <3>1. counts \in [total : Nat, gcell : Nat, rewritten : Nat, outside : Nat]
      BY DEF TypeOK
    <3>2. /\ (IF IsGcell(trace[pos]) THEN 1 ELSE 0) \in Nat
          /\ (IF kept THEN 1 ELSE 0) \in Nat
          /\ (IF IsGcell(trace[pos]) /\ ~ kept THEN 1 ELSE 0) \in Nat
      OBVIOUS
    <3>3. ASSUME NEW x \in Nat, NEW y \in Nat, NEW z \in Nat
          PROVE  [total |-> counts.total, gcell |-> counts.gcell + x,
                  rewritten |-> counts.rewritten + y, outside |-> counts.outside + z]
                   \in [total : Nat, gcell : Nat, rewritten : Nat, outside : Nat]
      BY <3>1
    <3> QED
      BY <3>2, <3>3 DEF Tally
  <2>5. InCurrent(trace[pos].cycle) =>
          /\ windows[cur].id \in WindowIds
          /\ OpenTemp \in Seq(OutLine)
    BY <1>1 DEF InCurrent, OpenTemp, TypeOK
  <2>9. /\ pos + 1 \in 1 .. Len(trace) + 1
        /\ cur \in 1 .. NWindows + 1 /\ next \in 1 .. NWindows + 1
    BY <1>1, <2>1 DEF TypeOK
  <2>6. CASE BufferEntry(trace[pos])
    <3>1. temp' \in [WindowIds -> Seq(OutLine)]
      BY <2>5, <2>6 DEF BufferEntry, TypeOK
    <3>2. counts' \in [total : Nat, gcell : Nat, rewritten : Nat, outside : Nat]
      BY <2>4, <2>6 DEF BufferEntry
    <3>3. reads' \in SUBSET (1 .. Len(trace)) /\ writes' \in SUBSET (1 .. Len(trace))
      BY <2>1, <2>6 DEF BufferEntry, TypeOK
    <3>4. active' \in BOOLEAN /\ (active' => cur' <= NWindows)
      BY <2>6 DEF BufferEntry, Placing, InCurrent, TypeOK
    <3>5. out' \in Seq(OutLine)
      BY <2>6 DEF BufferEntry, TypeOK
    <3>6. perWindow' \in Seq([id : WindowIds, reads : Nat, writes : Nat])
      BY <2>6 DEF BufferEntry, Placing, TypeOK
    <3>7. /\ job' = job /\ run' = run /\ pc' \in Pcs /\ pc' # "line"
          /\ pos' = pos + 1 /\ cur' = cur /\ next' = next
      BY <2>6 DEF BufferEntry, Placing, Pcs
    <3> QED
      BY <1>3, <2>9, <3>1, <3>2, <3>3, <3>4, <3>5, <3>6, <3>7
  <2>7. CASE SpillEntry(trace[pos])
    <3>1. temp' \in [WindowIds -> Seq(OutLine)]
      BY <2>3, <2>5, <2>7 DEF SpillEntry, TypeOK
    <3>2. counts' \in [total : Nat, gcell : Nat, rewritten : Nat, outside : Nat]
      BY <2>4, <2>7 DEF SpillEntry
    <3>4. active' \in BOOLEAN /\ (active' => cur' <= NWindows)
      BY <2>7 DEF SpillEntry, Placing, InCurrent, TypeOK
    <3>5. out' \in Seq(OutLine) /\ reads' \in SUBSET (1 .. Len(trace)) /\ writes' \in SUBSET (1 .. Len(trace))
      BY <2>7 DEF SpillEntry, TypeOK
    <3>6. perWindow' \in Seq([id : WindowIds, reads : Nat, writes : Nat])
      BY <2>7 DEF SpillEntry, Placing, TypeOK
    <3>7. /\ job' = job /\ run' = run /\ pc' \in Pcs /\ pc' # "line"
          /\ pos' = pos + 1 /\ cur' = cur /\ next' = next
      BY <2>7 DEF SpillEntry, Placing, Pcs
    <3> QED
      BY <1>3, <2>9, <3>1, <3>2, <3>4, <3>5, <3>6, <3>7
  <2>8. CASE PassEntry(trace[pos])
    <3>1. out' \in Seq(OutLine)
      BY <2>3, <2>8 DEF PassEntry, TypeOK
    <3>2. counts' \in [total : Nat, gcell : Nat, rewritten : Nat, outside : Nat]
      BY <2>4, <2>8 DEF PassEntry
    <3>4. active' \in BOOLEAN /\ (active' => cur' <= NWindows)
      BY <2>8 DEF PassEntry, Placing, InCurrent, TypeOK
    <3>5. temp' \in [WindowIds -> Seq(OutLine)] /\ reads' \in SUBSET (1 .. Len(trace)) /\ writes' \in SUBSET (1 .. Len(trace))
      BY <2>8 DEF PassEntry, TypeOK
    <3>6. perWindow' \in Seq([id : WindowIds, reads : Nat, writes : Nat])
      BY <2>8 DEF PassEntry, Placing, TypeOK
    <3>7. /\ job' = job /\ run' = run /\ pc' \in Pcs /\ pc' # "line"
          /\ pos' = pos + 1 /\ cur' = cur /\ next' = next
      BY <2>8 DEF PassEntry, Placing, Pcs
    <3> QED
      BY <1>3, <2>9, <3>1, <3>2, <3>4, <3>5, <3>6, <3>7
  <2> QED
    BY <1>9, <2>6, <2>7, <2>8 DEF PlaceEntry
<1>10. CASE EndOfTrace
  BY <1>1, <1>3, <1>10 DEF EndOfTrace, TypeOK, Pcs
<1>11. CASE Finish
  <2>1. temp' \in [WindowIds -> Seq(OutLine)]
    BY <1>11 DEF Finish
  <2> QED
    BY <1>1, <1>3, <1>11, <2>1 DEF Finish, TypeOK, Pcs
<1>12. CASE Kill
  <2>1. temp' \in [WindowIds -> Seq(OutLine)]
    <3>1. CASE ~ active
      BY <1>12, <3>1 DEF Kill, TypeOK
    <3>2. CASE active
      <4>1. windows[cur].id \in WindowIds /\ temp[windows[cur].id] \in Seq(OutLine)
        BY <1>1, <3>2 DEF TypeOK
      <4>2. PICK n \in 0 .. Len(temp[windows[cur].id]) :
              temp' = [temp EXCEPT ![windows[cur].id] = SubSeq(temp[windows[cur].id], 1, n)]
        BY <1>12, <3>2 DEF Kill
      <4>3. SubSeq(temp[windows[cur].id], 1, n) \in Seq(OutLine)
        BY <4>1
      <4> QED
        BY <4>1, <4>2, <4>3 DEF TypeOK
    <3> QED
      BY <3>1, <3>2
  <2> QED
    BY <1>1, <1>3, <1>12, <2>1 DEF Kill, TypeOK, Pcs
<1>13. CASE Start(job)
  <2>1. out' \in Seq(OutLine) /\ perWindow' \in Seq([id : WindowIds, reads : Nat, writes : Nat])
    BY <1>13 DEF Start
  <2>2. counts' \in [total : Nat, gcell : Nat, rewritten : Nat, outside : Nat]
    BY <1>13 DEF Start, NoCounts
  <2>3. run' \in 1 .. MaxRuns
    BY <1>13, MaxRunsAssumption DEF Start, TypeOK
  <2>4. temp' \in [WindowIds -> Seq(OutLine)] /\ active' \in BOOLEAN /\ ~ active'
        /\ reads' \in SUBSET (1 .. Len(trace)) /\ writes' \in SUBSET (1 .. Len(trace))
    BY <1>13 DEF Start, TypeOK
  <2>5. /\ job' = job /\ pc' \in Pcs /\ pc' # "line" /\ pos' \in 1 .. Len(trace) + 1
        /\ cur' \in 1 .. NWindows + 1 /\ next' \in 1 .. NWindows + 1
    BY <1>1, <1>13 DEF Start, Pcs
  <2>6. job' \in Jobs
    BY <2>5 DEF TypeOK
  <2> QED
    BY <1>2, <2>1, <2>2, <2>3, <2>4, <2>5, <2>6 DEF TypeOK
<1>14. CASE UNCHANGED vars
  BY <1>2, <1>14 DEF vars, TypeOK
<1> QED
  BY <1>4, <1>5, <1>7, <1>8, <1>9, <1>10, <1>11, <1>12, <1>13, <1>14
     DEF Next, Step, Stopped

\* The state of the rewriter is well typed: in particular the cursor stays
\* within the windows and never runs ahead of the window a line belongs to.
THEOREM TypeCorrect == Spec => []TypeOK
BY TypeInit, TypeNext, PTL DEF Spec
-----------------------------------------------------------------------------
(***************************************************************************)
(* The inductive invariant.  Conservation alone is not inductive: a flush  *)
(* copies whatever the window's file holds, so it must be known that a     *)
(* file of an earlier run is never flushed.  It is not, because a line of  *)
(* the trace that falls in the window is still to come (LeftInv), and that *)
(* line opens the file for writing.  Why it must come before the window is *)
(* passed is a fact about the cursor (CursorInv).                          *)
(***************************************************************************)

\* Line i finds the cursor at window k and lies in it: no line up to i has
\* passed the end of k, some line up to i has passed each earlier window.
FallsIn(i, k) ==
  /\ i \in Entries(trace)
  /\ windows[k].begin <= trace[i].cycle
  /\ \A j \in Entries(trace) : j <= i => trace[j].cycle <= windows[k].end
  /\ \A m \in 1 .. k - 1 : \E j \in Entries(trace) :
       j <= i /\ trace[j].cycle > windows[m].end

\* The lines whose cycles the cursor has seen, and where they take it.
Seen == {j \in Entries(trace) : IF pc = "line" THEN j <= pos ELSE j < pos}
Goal == IF pc = "line" THEN next ELSE cur

CursorInv ==
  /\ pc \in {"read", "line"} =>
       /\ \A m \in 1 .. Goal - 1 : \E j \in Seen : trace[j].cycle > windows[m].end
       /\ Goal <= NWindows => \A j \in Seen : trace[j].cycle <= windows[Goal].end
  /\ pc \in {"tail", "done"} => pos = Len(trace) + 1
  /\ pc = "done" => cur = NWindows + 1

\* The file of window k is not the one that is open.
NotOpen(k) == ~ (active /\ k = cur)

LeftInv ==
  /\ active => /\ pc \in {"read", "line", "tail"} /\ cur <= NWindows
               /\ \E i \in Entries(trace) : i < pos /\ FallsIn(i, cur)
  /\ \A k \in 1 .. NWindows :
       temp[windows[k].id] # << >> /\ NotOpen(k) =>
         \E i \in Entries(trace) : (pc # "killed" => i >= pos) /\ FallsIn(i, k)

NoRepeat(lines) ==
  \A k, m \in DOMAIN lines : lines[k].idx = lines[m].idx => k = m
OfThisRun(lines) == \A k \in DOMAIN lines : lines[k].run = run

\* The contents of the open file.
Open == IF active THEN temp[windows[cur].id] ELSE << >>

PlaceInv ==
  Running =>
    /\ ~ active => reads = {} /\ writes = {}
    /\ reads \cap writes = {}
    /\ (reads \cup writes) \cap Idxs(Open) = {}
    /\ (reads \cup writes \cup Idxs(Open)) \cap Idxs(out) = {}
    /\ reads \cup writes \cup Idxs(Open) \cup Idxs(out) = Consumed
    /\ NoRepeat(out) /\ NoRepeat(Open)
    /\ OfThisRun(out) /\ OfThisRun(Open)

Inv == TypeOK /\ CursorInv /\ LeftInv /\ PlaceInv
-----------------------------------------------------------------------------
(***************************************************************************)
(* The cursor.                                                             *)
(***************************************************************************)

\* What the proofs need to know of a job.
LEMMA JobFacts ==
  ASSUME job \in Jobs
  PROVE  /\ Len(trace) \in Nat /\ NWindows \in Nat
         /\ \A i \in Entries(trace) : i \in 1 .. Len(trace) /\ trace[i].cycle \in Nat
         /\ \A k \in 1 .. NWindows : /\ windows[k].id \in WindowIds
                                     /\ windows[k].begin \in Nat /\ windows[k].end \in Nat
                                     /\ windows[k].begin <= windows[k].end
         /\ \A k, m \in 1 .. NWindows : k < m => windows[k].end <= windows[m].end
         /\ \A k, m \in 1 .. NWindows : windows[k].id = windows[m].id => k = m
<1>1. /\ Len(trace) \in Nat /\ NWindows \in Nat
      /\ \A i \in 1 .. Len(trace) : trace[i] \in Line
      /\ \A k \in 1 .. NWindows : windows[k] \in Windows(WindowIds)
  BY JobTypes
<1>2. \A i \in Entries(trace) : i \in 1 .. Len(trace) /\ trace[i].cycle \in Nat
  BY <1>1 DEF Entries, Line
<1>3. \A k \in 1 .. NWindows : /\ windows[k].id \in WindowIds
                               /\ windows[k].begin \in Nat /\ windows[k].end \in Nat
                               /\ windows[k].begin <= windows[k].end
  BY <1>1 DEF Windows
<1>4. SortedById(windows) /\ Successive(windows)
  BY JobsAssumption DEF windows
<1>5. \A k, m \in 1 .. NWindows : k < m => windows[k].end <= windows[m].end
  <2> SUFFICES ASSUME NEW k \in 1 .. NWindows, NEW m \in 1 .. NWindows, k < m
               PROVE  windows[k].end <= windows[m].end
    OBVIOUS
  <2>1. windows[k].end <= windows[m].begin
    BY <1>4 DEF Successive, NWindows
  <2> QED
    BY <1>3, <2>1
<1>6. \A k, m \in 1 .. NWindows : windows[k].id = windows[m].id => k = m
  <2> SUFFICES ASSUME NEW k \in 1 .. NWindows, NEW m \in 1 .. NWindows, k < m
               PROVE  windows[k].id # windows[m].id
    BY <1>1
  <2>1. windows[k].id < windows[m].id
    BY <1>4 DEF SortedById, NWindows
  <2>2. windows[k].id \in Nat /\ windows[m].id \in Nat
    BY <1>3, WindowIdsAssumption
  <2> QED
    BY <2>1, <2>2
<1> QED
  BY <1>1, <1>2, <1>3, <1>5, <1>6

\* While the input stays the same, so does everything computed from it.
LEMMA SameJob ==
  ASSUME job' = job
  PROVE  /\ trace' = trace /\ windows' = windows /\ NWindows' = NWindows
         /\ Entries(trace)' = Entries(trace)
         /\ \A i, k : FallsIn(i, k)' <=> FallsIn(i, k)
BY DEF trace, windows, NWindows, FallsIn

\* Every step keeps the cursor where the lines read so far have brought it.
LEMMA CursorNext == TypeOK /\ CursorInv /\ [Next]_vars => CursorInv'
<1> SUFFICES ASSUME TypeOK, CursorInv, [Next]_vars PROVE CursorInv'
  OBVIOUS
<1> USE DEF files, buffer
<1>1. /\ Len(trace) \in Nat /\ NWindows \in Nat
      /\ \A i \in Entries(trace) : i \in 1 .. Len(trace) /\ trace[i].cycle \in Nat
      /\ \A k \in 1 .. NWindows : windows[k].end \in Nat
      /\ \A k, m \in 1 .. NWindows : k < m => windows[k].end <= windows[m].end
  BY JobFacts DEF TypeOK
<1>2. job' = job => /\ trace' = trace /\ windows' = windows /\ NWindows' = NWindows
                    /\ Entries(trace)' = Entries(trace)
  BY SameJob
<1>3. pos \in 1 .. Len(trace) + 1 /\ cur \in 1 .. NWindows + 1 /\ next \in 1 .. NWindows + 1
  BY DEF TypeOK
<1>4. \* A step that changes neither what was seen nor where it leads.
      ASSUME job' = job, pc \in {"read", "line"}, pc' \in {"read", "line"},
             Seen' = Seen, Goal' = Goal
      PROVE  CursorInv'
  BY <1>2, <1>4 DEF CursorInv
<1>5. CASE SkipBlank
  <2>1. Seen' = Seen
    BY <1>1, <1>2, <1>3, <1>5 DEF SkipBlank, Seen, Entries
  <2> QED
    BY <1>4, <1>5, <2>1 DEF SkipBlank, Goal
<1>6. CASE ReadEntry
  <2>1. /\ pc = "read" /\ pc' = "line" /\ pos \in Entries(trace) /\ job' = job
        /\ pos' = pos /\ cur' = cur
    BY <1>1, <1>3, <1>6 DEF ReadEntry, Entries
  <2>2. PICK n \in cur .. NWindows + 1 : Advances(trace[pos].cycle, cur, n) /\ next' = n
    BY <1>6 DEF ReadEntry
  <2>3. Seen' = Seen \cup {pos} /\ Goal' = n /\ Goal = cur /\ n \in Int /\ cur \in Int
    BY <1>1, <1>2, <1>3, <2>1, <2>2 DEF Seen, Goal
  <2>4. ASSUME NEW m \in 1 .. n - 1
        PROVE  \E j \in Seen' : trace[j].cycle > windows[m].end
    <3>1. CASE m < cur
      BY <1>3, <2>1, <2>3, <3>1 DEF CursorInv
    <3>2. CASE m >= cur
      <4>1. m \in cur .. n - 1
        BY <2>3, <3>2
      <4>2. trace[pos].cycle > windows[m].end
        BY <2>2, <4>1 DEF Advances
      <4> QED
        BY <2>3, <4>2
    <3> QED
      BY <2>3, <3>1, <3>2
  <2>5. ASSUME n <= NWindows, NEW j \in Seen'
        PROVE  trace[j].cycle <= windows[n].end
    <3>1. CASE j = pos
      BY <2>2, <2>5, <3>1 DEF Advances
    <3>2. CASE j \in Seen
      <4>1. /\ cur \in 1 .. NWindows /\ n \in 1 .. NWindows
            /\ trace[j].cycle <= windows[cur].end
        BY <1>1, <1>3, <2>1, <2>2, <2>3, <2>5, <3>2 DEF CursorInv
      <4>2. windows[cur].end <= windows[n].end /\ j \in Entries(trace)
        BY <1>1, <1>3, <2>2, <3>2, <4>1 DEF Seen
      <4> QED
        BY <1>1, <4>1, <4>2
    <3> QED
      BY <2>3, <2>5, <3>1, <3>2
  <2> QED
    BY <1>2, <2>1, <2>3, <2>4, <2>5 DEF CursorInv
<1>7. CASE FlushPassed
  BY <1>2, <1>4, <1>7 DEF FlushPassed, FlushWindow, Seen, Goal
<1>8. CASE FlushTail
  BY <1>2, <1>8 DEF FlushTail, FlushWindow, CursorInv
<1>9. CASE PlaceEntry
  <2>1. /\ pc = "line" /\ pc' = "read" /\ pos' = pos + 1 /\ cur = next /\ cur' = cur
        /\ next' = next /\ job' = job
    BY <1>9 DEF PlaceEntry, BufferEntry, SpillEntry, PassEntry, Placing
  <2>2. Seen' = Seen /\ Goal' = Goal
    BY <1>1, <1>2, <1>3, <2>1 DEF Seen, Goal
  <2> QED
    BY <1>4, <2>1, <2>2
<1>10. CASE EndOfTrace
  BY <1>2, <1>10 DEF EndOfTrace, CursorInv
<1>11. CASE Finish
  BY <1>2, <1>11 DEF Finish, CursorInv
<1>12. CASE Kill
  BY <1>12 DEF Kill, CursorInv
<1>13. CASE Start(job)
  <2>1. pc' = "read" /\ pos' = 1 /\ cur' = 1 /\ job' = job
    BY <1>13 DEF Start
  <2>2. Seen' = {} /\ Goal' = 1
    BY <1>1, <1>2, <2>1 DEF Seen, Goal
  <2> QED
    BY <2>1, <2>2 DEF CursorInv
<1>14. CASE UNCHANGED vars
  BY <1>2, <1>14 DEF vars, CursorInv, Seen, Goal
<1> QED
  BY <1>5, <1>6, <1>7, <1>8, <1>9, <1>10, <1>11, <1>12, <1>13, <1>14
     DEF Next, Step, Stopped
-----------------------------------------------------------------------------
(***************************************************************************)
(* What earlier runs left behind.                                          *)
(***************************************************************************)

\* A file left by an earlier run is never flushed: its window is not passed yet.
LEMMA LeftNotFlushed ==
  ASSUME TypeOK, CursorInv, LeftInv, cur \in 1 .. NWindows, ~ active,
         \/ pc = "line" /\ cur < next
         \/ pc = "tail"
  PROVE  temp[windows[cur].id] = << >>
<1> SUFFICES ASSUME temp[windows[cur].id] # << >> PROVE FALSE
  OBVIOUS
<1>1. /\ Len(trace) \in Nat /\ NWindows \in Nat
      /\ \A i \in Entries(trace) : i \in 1 .. Len(trace) /\ trace[i].cycle \in Nat
      /\ \A k \in 1 .. NWindows : windows[k].end \in Nat
  BY JobFacts DEF TypeOK
<1>2. PICK i \in Entries(trace) : i >= pos /\ FallsIn(i, cur)
  BY DEF LeftInv, NotOpen
<1>3. CASE pc = "tail"
  BY <1>1, <1>2, <1>3 DEF CursorInv
<1>4. CASE pc = "line" /\ cur < next
  <2>1. cur \in 1 .. Goal - 1
    BY <1>1, <1>4 DEF Goal, TypeOK
  <2>2. PICK j \in Seen : trace[j].cycle > windows[cur].end
    BY <1>4, <2>1 DEF CursorInv
  <2>3. j \in Entries(trace) /\ j <= i
    BY <1>1, <1>2, <1>4, <2>2 DEF Seen, TypeOK
  <2>4. trace[j].cycle <= windows[cur].end
    BY <1>2, <2>3 DEF FallsIn
  <2> QED
    BY <1>1, <2>2, <2>3, <2>4
<1> QED
  BY <1>3, <1>4

\* When the loop places line pos, the line falls in no window but the current
\* one, and in that one exactly if the code finds it there.
LEMMA PlacedFallsIn ==
  ASSUME TypeOK, CursorInv, pc = "line", cur = next
  PROVE  /\ InCurrent(trace[pos].cycle) => cur \in 1 .. NWindows /\ FallsIn(pos, cur)
         /\ \A k \in 1 .. NWindows :
              FallsIn(pos, k) => k = cur /\ InCurrent(trace[pos].cycle)
<1>1. /\ Len(trace) \in Nat /\ NWindows \in Nat
      /\ \A i \in Entries(trace) : i \in 1 .. Len(trace) /\ trace[i].cycle \in Nat
      /\ \A k \in 1 .. NWindows : windows[k].end \in Nat /\ windows[k].begin \in Nat
  BY JobFacts DEF TypeOK
<1>2. /\ pos \in Entries(trace) /\ cur \in 1 .. NWindows + 1 /\ Goal = cur
      /\ \A j : j \in Seen <=> j \in Entries(trace) /\ j <= pos
  BY DEF TypeOK, Goal, Seen
<1>3. ASSUME InCurrent(trace[pos].cycle)
      PROVE  cur \in 1 .. NWindows /\ FallsIn(pos, cur)
  <2>1. cur \in 1 .. NWindows
    BY <1>1, <1>2, <1>3 DEF InCurrent
  <2>2. windows[cur].begin <= trace[pos].cycle
    BY <1>3 DEF InCurrent, InWindow
  <2>3. \A j \in Entries(trace) : j <= pos => trace[j].cycle <= windows[cur].end
    BY <1>2, <2>1 DEF CursorInv
  <2>4. ASSUME NEW m \in 1 .. cur - 1
        PROVE  \E j \in Entries(trace) : j <= pos /\ trace[j].cycle > windows[m].end
    BY <1>2, <2>4 DEF CursorInv
  <2> QED
    BY <1>2, <2>1, <2>2, <2>3, <2>4 DEF FallsIn
<1>4. ASSUME NEW k \in 1 .. NWindows, FallsIn(pos, k)
      PROVE  k = cur /\ InCurrent(trace[pos].cycle)
  <2>1. CASE k < cur
    <3>1. PICK j \in Seen : trace[j].cycle > windows[k].end
      <4>1. k \in 1 .. Goal - 1
        BY <1>1, <1>2, <2>1
      <4> QED
        BY <4>1 DEF CursorInv
    <3>2. j \in Entries(trace) /\ trace[j].cycle <= windows[k].end
      BY <1>2, <1>4, <3>1 DEF FallsIn
    <3> QED
      BY <1>1, <3>1, <3>2
  <2>2. CASE k > cur
    <3>1. cur \in 1 .. k - 1 /\ cur <= NWindows
      BY <1>1, <1>2, <2>2
    <3>2. PICK j \in Entries(trace) : j <= pos /\ trace[j].cycle > windows[cur].end
      BY <1>4, <3>1 DEF FallsIn
    <3>3. trace[j].cycle <= windows[cur].end
      BY <1>2, <3>1, <3>2 DEF CursorInv
    <3> QED
      BY <1>1, <1>2, <3>1, <3>2, <3>3
  <2>3. k = cur
    BY <1>1, <1>2, <2>1, <2>2
  <2>4. windows[cur].begin <= trace[pos].cycle /\ trace[pos].cycle <= windows[cur].end
    BY <1>1, <1>2, <1>4, <2>3 DEF FallsIn
  <2> QED
    BY <1>1, <2>3, <2>4 DEF InCurrent, InWindow
<1> QED
  BY <1>3, <1>4

\* Every step keeps what earlier runs left behind ahead of the cursor.
LEMMA LeftNext == TypeOK /\ CursorInv /\ LeftInv /\ [Next]_vars => LeftInv'
<1> SUFFICES ASSUME TypeOK, CursorInv, LeftInv, [Next]_vars PROVE LeftInv'
  OBVIOUS
<1> USE DEF files, buffer
<1>1. /\ Len(trace) \in Nat /\ NWindows \in Nat
      /\ \A i \in Entries(trace) : i \in 1 .. Len(trace)
      /\ \A k \in 1 .. NWindows : windows[k].id \in WindowIds
      /\ \A k, m \in 1 .. NWindows : windows[k].id = windows[m].id => k = m
      /\ pos \in 1 .. Len(trace) + 1 /\ cur \in 1 .. NWindows + 1
      /\ active \in BOOLEAN /\ DOMAIN temp = WindowIds
  BY JobFacts DEF TypeOK
<1>2. job' = job => /\ trace' = trace /\ windows' = windows /\ NWindows' = NWindows
                    /\ Entries(trace)' = Entries(trace)
                    /\ \A i, k : FallsIn(i, k)' <=> FallsIn(i, k)
  BY SameJob
<1>3. \* It is enough to look at the open file and at each other file.
      ASSUME job' = job,
             active' => /\ pc' \in {"read", "line", "tail"} /\ cur' <= NWindows
                        /\ \E i \in Entries(trace) : i < pos' /\ FallsIn(i, cur'),
             \A k \in 1 .. NWindows :
               temp'[windows[k].id] # << >> /\ ~ (active' /\ k = cur') =>
                 \E i \in Entries(trace) : (pc' # "killed" => i >= pos') /\ FallsIn(i, k)
      PROVE  LeftInv'
  BY <1>2, <1>3 DEF LeftInv, NotOpen
<1>4. \* A step that only moves the control point, within the run.
      ASSUME job' = job, pos' = pos, cur' = cur, active' = active, temp' = temp,
             pc \in {"read", "line", "tail"}, pc' \in {"read", "line", "tail"}
      PROVE  LeftInv'
  BY <1>3, <1>4 DEF LeftInv, NotOpen
<1>5. CASE SkipBlank
  <2>1. /\ pc = "read" /\ pc' = pc /\ pos' = pos + 1 /\ pos \notin Entries(trace)
        /\ job' = job /\ cur' = cur /\ active' = active /\ temp' = temp
    BY <1>5 DEF SkipBlank, Entries
  <2>2. \A i \in Entries(trace) : (i < pos => i < pos') /\ (i >= pos => i >= pos')
    BY <1>1, <2>1
  <2> QED
    BY <1>3, <2>1, <2>2 DEF LeftInv, NotOpen
<1>6. CASE ReadEntry
  BY <1>4, <1>6 DEF ReadEntry
<1>7. CASE FlushWindow /\ cur <= NWindows /\ pc \in {"line", "tail"}
  <2>1. /\ job' = job /\ pc' = pc /\ pos' = pos /\ ~ active'
        /\ temp' = [temp EXCEPT ![windows[cur].id] = << >>]
    BY <1>7 DEF FlushWindow
  <2>2. ASSUME NEW k \in 1 .. NWindows, temp'[windows[k].id] # << >>
        PROVE  \E i \in Entries(trace) : i >= pos /\ FallsIn(i, k)
    <3>1. k # cur /\ temp[windows[k].id] # << >>
      BY <1>1, <1>7, <2>1, <2>2
    <3> QED
      BY <1>7, <3>1 DEF LeftInv, NotOpen
  <2> QED
    BY <1>3, <2>1, <2>2
<1>8. CASE FlushPassed
  BY <1>1, <1>7, <1>8 DEF FlushPassed, TypeOK
<1>9. CASE FlushTail
  BY <1>7, <1>9 DEF FlushTail
<1>10. CASE PlaceEntry
  <2>1. /\ pc = "line" /\ pc' = "read" /\ pos' = pos + 1 /\ cur = next /\ cur' = cur
        /\ job' = job /\ pos \in Entries(trace)
    BY <1>10 DEF PlaceEntry, BufferEntry, SpillEntry, PassEntry, Placing, TypeOK
  <2>2. \* The line that is placed is no other window's line.
        ASSUME NEW k \in 1 .. NWindows, NEW i \in Entries(trace), i >= pos, FallsIn(i, k),
               k = cur => ~ InCurrent(trace[pos].cycle)
        PROVE  i >= pos'
    <3>1. i # pos
      BY <2>1, <2>2, PlacedFallsIn
    <3>2. i \in Int /\ pos \in Int
      BY <1>1
    <3> QED
      BY <2>1, <2>2, <3>1, <3>2
  <2>3. CASE InCurrent(trace[pos].cycle)
    <3>1. /\ active' /\ cur \in 1 .. NWindows
          /\ \E c : temp' = [temp EXCEPT ![windows[cur].id] = c]
      <4>1. BufferEntry(trace[pos]) \/ SpillEntry(trace[pos])
        BY <1>10, <2>3 DEF PlaceEntry, PassEntry
      <4>2. active' /\ \E c : temp' = [temp EXCEPT ![windows[cur].id] = c]
        BY <4>1 DEF BufferEntry, SpillEntry
      <4>3. cur \in 1 .. NWindows
        BY <2>1, <2>3, PlacedFallsIn
      <4> QED
        BY <4>2, <4>3
    <3>2. pos < pos' /\ FallsIn(pos, cur)
      BY <1>1, <2>1, <2>3, PlacedFallsIn
    <3>3. ASSUME NEW k \in 1 .. NWindows, temp'[windows[k].id] # << >>, k # cur
          PROVE  \E i \in Entries(trace) : i >= pos' /\ FallsIn(i, k)
      <4>1. temp[windows[k].id] # << >>
        BY <1>1, <3>1, <3>3
      <4>2. PICK i \in Entries(trace) : i >= pos /\ FallsIn(i, k)
        BY <2>1, <3>3, <4>1 DEF LeftInv, NotOpen
      <4> QED
        BY <2>2, <3>3, <4>2
    <3> QED
      BY <1>3, <2>1, <3>1, <3>2, <3>3
  <2>4. CASE ~ InCurrent(trace[pos].cycle)
    <3>1. active' = active /\ temp' = temp
      BY <1>10, <2>4 DEF PlaceEntry, BufferEntry, SpillEntry, PassEntry
    <3>2. ASSUME NEW k \in 1 .. NWindows, temp[windows[k].id] # << >>, NotOpen(k)
          PROVE  \E i \in Entries(trace) : i >= pos' /\ FallsIn(i, k)
      <4>1. PICK i \in Entries(trace) : i >= pos /\ FallsIn(i, k)
        BY <2>1, <3>2 DEF LeftInv
      <4> QED
        BY <2>2, <2>4, <4>1
    <3>3. ASSUME active
          PROVE  cur <= NWindows /\ \E i \in Entries(trace) : i < pos' /\ FallsIn(i, cur)
      <4>1. cur <= NWindows
        BY <3>3 DEF LeftInv
      <4>2. PICK i \in Entries(trace) : i < pos /\ FallsIn(i, cur)
        BY <3>3 DEF LeftInv
      <4>3. i < pos'
        <5>1. i \in Int /\ pos \in Int
          BY <1>1
        <5> QED
          BY <2>1, <4>2, <5>1
      <4> QED
        BY <4>1, <4>2, <4>3
    <3> QED
      BY <1>3, <2>1, <3>1, <3>2, <3>3 DEF NotOpen
  <2> QED
    BY <2>3, <2>4
<1>11. CASE EndOfTrace
  BY <1>4, <1>11 DEF EndOfTrace
<1>12. CASE Finish
  <2>1. ~ active
    BY <1>1, <1>12 DEF Finish, TypeOK
  <2>2. job' = job /\ ~ active' /\ temp' = [id \in WindowIds |-> << >>]
    BY <1>12, <2>1 DEF Finish
  <2>3. \A k \in 1 .. NWindows : temp'[windows[k].id] = << >>
    BY <1>1, <2>2
  <2> QED
    BY <1>3, <2>2, <2>3
<1>13. CASE Kill
  <2>1. job' = job /\ pc' = "killed" /\ pc # "killed" /\ ~ active'
    BY <1>13 DEF Kill
  <2>2. ASSUME NEW k \in 1 .. NWindows, temp'[windows[k].id] # << >>
        PROVE  \E i \in Entries(trace) : FallsIn(i, k)
    <3>1. CASE active /\ k = cur
      BY <3>1 DEF LeftInv
    <3>2. CASE NotOpen(k)
      <4>1. temp[windows[k].id] # << >>
        BY <1>1, <1>13, <2>2, <3>2 DEF Kill, NotOpen, TypeOK
      <4> QED
        BY <2>1, <3>2, <4>1 DEF LeftInv
    <3> QED
      BY <3>1, <3>2 DEF NotOpen
  <2> QED
    BY <1>3, <2>1, <2>2
<1>14. CASE Start(job)
  <2>1. job' = job /\ pc = "killed" /\ ~ active' /\ pos' = 1 /\ temp' = temp
    BY <1>14 DEF Start
  <2>2. ~ active
    BY <2>1 DEF LeftInv
  <2>3. \A i \in Entries(trace) : i >= pos'
    BY <1>1, <2>1
  <2> QED
    BY <1>3, <2>1, <2>2, <2>3 DEF LeftInv, NotOpen
<1>15. CASE UNCHANGED vars
  BY <1>2, <1>15 DEF vars, LeftInv, NotOpen
<1> QED
  BY <1>5, <1>6, <1>8, <1>9, <1>10, <1>11, <1>12, <1>13, <1>14, <1>15
     DEF Next, Step, Stopped
-----------------------------------------------------------------------------
(***************************************************************************)
(* Where the lines are.                                                    *)
(***************************************************************************)

\* Two lists without a common line put together repeat no line either.
LEMMA ConcatLines ==
  ASSUME NEW s \in Seq(OutLine), NEW t \in Seq(OutLine)
  PROVE  /\ Idxs(s \o t) = Idxs(s) \cup Idxs(t)
         /\ NoRepeat(s) /\ NoRepeat(t) /\ Idxs(s) \cap Idxs(t) = {} => NoRepeat(s \o t)
         /\ OfThisRun(s) /\ OfThisRun(t) => OfThisRun(s \o t)
<1>1. /\ DOMAIN s = 1 .. Len(s) /\ DOMAIN t = 1 .. Len(t) /\ Len(s) \in Nat /\ Len(t) \in Nat
      /\ DOMAIN (s \o t) = 1 .. Len(s) + Len(t)
      /\ \A i \in 1 .. Len(s) + Len(t) :
           (s \o t)[i] = IF i <= Len(s) THEN s[i] ELSE t[i - Len(s)]
  BY LenProperties, ConcatProperties
<1>2. \A i \in DOMAIN s : i \in DOMAIN (s \o t) /\ (s \o t)[i] = s[i]
  BY <1>1
<1>3. ASSUME NEW i \in DOMAIN t
      PROVE  i + Len(s) \in DOMAIN (s \o t) /\ (s \o t)[i + Len(s)] = t[i]
  <2>1. i \in 1 .. Len(t) /\ i + Len(s) \in 1 .. Len(s) + Len(t) /\ ~ (i + Len(s) <= Len(s))
    BY <1>1
  <2>2. i + Len(s) - Len(s) = i
    BY <1>1, <2>1
  <2> QED
    BY <1>1, <2>1, <2>2
<1>4. \A i \in DOMAIN (s \o t) :
        \/ i \in DOMAIN s
        \/ i - Len(s) \in DOMAIN t /\ (s \o t)[i] = t[i - Len(s)]
  BY <1>1
<1>5. Idxs(s \o t) = Idxs(s) \cup Idxs(t)
  <2>1. ASSUME NEW e \in Idxs(s \o t) PROVE e \in Idxs(s) \cup Idxs(t)
    BY <1>2, <1>4 DEF Idxs
  <2>2. ASSUME NEW e \in Idxs(s) PROVE e \in Idxs(s \o t)
    BY <1>2 DEF Idxs
  <2>3. ASSUME NEW e \in Idxs(t) PROVE e \in Idxs(s \o t)
    <3>1. PICK i \in DOMAIN t : t[i].idx = e
      BY DEF Idxs
    <3>2. i + Len(s) \in DOMAIN (s \o t) /\ (s \o t)[i + Len(s)].idx = e
      BY <1>3, <3>1
    <3> QED
      BY <3>2 DEF Idxs
  <2> QED
    BY <2>1, <2>2, <2>3
<1>6. ASSUME NoRepeat(s), NoRepeat(t), Idxs(s) \cap Idxs(t) = {}
      PROVE  NoRepeat(s \o t)
  <2> SUFFICES ASSUME NEW i \in DOMAIN (s \o t), NEW j \in DOMAIN (s \o t),
                      (s \o t)[i].idx = (s \o t)[j].idx
               PROVE  i = j
    BY DEF NoRepeat
  <2>1. CASE i \in DOMAIN s /\ j \in DOMAIN s
    BY <1>2, <1>6, <2>1 DEF NoRepeat
  <2>2. CASE i \notin DOMAIN s /\ j \notin DOMAIN s
    <3>1. /\ i - Len(s) \in DOMAIN t /\ j - Len(s) \in DOMAIN t
          /\ t[i - Len(s)].idx = t[j - Len(s)].idx
      BY <1>4, <2>2
    <3>2. i - Len(s) = j - Len(s)
      BY <1>6, <3>1 DEF NoRepeat
    <3> QED
      BY <1>1, <3>2
  <2>3. ASSUME NEW a \in DOMAIN s, NEW b \in DOMAIN t, s[a].idx = t[b].idx
        PROVE  FALSE
    BY <1>6, <2>3 DEF Idxs
  <2> QED
    BY <1>2, <1>4, <2>1, <2>2, <2>3
<1>7. OfThisRun(s) /\ OfThisRun(t) => OfThisRun(s \o t)
  BY <1>2, <1>4 DEF OfThisRun
<1> QED
  BY <1>5, <1>6, <1>7

\* A list of one line written by this run.
LEMMA OneLine ==
  ASSUME NEW i, NEW c
  PROVE  /\ Idxs(<<Written(i, c)>>) = {i}
         /\ NoRepeat(<<Written(i, c)>>) /\ OfThisRun(<<Written(i, c)>>)
BY DEF Idxs, NoRepeat, OfThisRun, Written

\* The empty list.
LEMMA NoLine == Idxs(<< >>) = {} /\ NoRepeat(<< >>) /\ OfThisRun(<< >>)
BY DEF Idxs, NoRepeat, OfThisRun

\* A phase writes each line of its set once.
LEMMA PhaseLines ==
  ASSUME TypeOK, cur \in 1 .. NWindows, NEW S \in SUBSET (1 .. Len(trace)),
         NEW p \in Sorted(trace, S)
  PROVE  /\ Phase(p) \in Seq(OutLine)
         /\ Idxs(Phase(p)) = S /\ NoRepeat(Phase(p)) /\ OfThisRun(Phase(p))
<1>1. /\ Phase(p) \in Seq(OutLine) /\ Len(Phase(p)) = Len(p)
      /\ \A k \in 1 .. Len(p) : Phase(p)[k] = Written(p[k], windows[cur].begin)
  BY PhaseFacts
<1>2. /\ p \in Seq(S) /\ DOMAIN p = 1 .. Len(p) /\ Len(p) \in Nat
      /\ \A i \in S : \E k \in 1 .. Len(p) : p[k] = i
      /\ \A k, m \in 1 .. Len(p) : p[k] = p[m] => k = m
  BY SortedFacts DEF TypeOK
<1>3. DOMAIN Phase(p) = 1 .. Len(p) /\ \A k \in 1 .. Len(p) : p[k] \in S
  BY <1>1, <1>2
<1>4. ASSUME NEW k \in 1 .. Len(p)
      PROVE  Phase(p)[k].idx = p[k] /\ Phase(p)[k].run = run
  <2>1. Phase(p)[k] = [run |-> run, idx |-> p[k], cycle |-> windows[cur].begin]
    BY <1>1 DEF Written
  <2> QED
    BY <2>1
<1>5. Idxs(Phase(p)) = S
  <2>1. ASSUME NEW i \in Idxs(Phase(p)) PROVE i \in S
    BY <1>3, <1>4 DEF Idxs
  <2>2. ASSUME NEW i \in S PROVE i \in Idxs(Phase(p))
    <3>1. PICK k \in 1 .. Len(p) : p[k] = i
      BY <1>2
    <3>2. k \in DOMAIN Phase(p) /\ Phase(p)[k].idx = i
      BY <1>3, <1>4, <3>1
    <3> QED
      BY <3>2 DEF Idxs
  <2> QED
    BY <2>1, <2>2
<1> QED
  BY <1>1, <1>2, <1>3, <1>4, <1>5 DEF NoRepeat, OfThisRun

\* A flush sends what was held, and nothing else.
LEMMA FlushLines ==
  ASSUME TypeOK, PlaceInv, Running, cur \in 1 .. NWindows, FlushWindow,
         temp[windows[cur].id] = Open
  PROVE  /\ Idxs(out') = Idxs(out) \cup reads \cup writes \cup Idxs(Open)
         /\ NoRepeat(out') /\ OfThisRun(out')
<1>1. PICK r \in Sorted(trace, reads), w \in Sorted(trace, writes) :
        out' = out \o Burst(r, w) \o Open
  BY DEF FlushWindow
<1>2. /\ Phase(r) \in Seq(OutLine) /\ Idxs(Phase(r)) = reads
      /\ NoRepeat(Phase(r)) /\ OfThisRun(Phase(r))
  BY PhaseLines DEF TypeOK
<1>3. /\ Phase(w) \in Seq(OutLine) /\ Idxs(Phase(w)) = writes
      /\ NoRepeat(Phase(w)) /\ OfThisRun(Phase(w))
  BY PhaseLines DEF TypeOK
<1>4. out \in Seq(OutLine) /\ Open \in Seq(OutLine)
  BY JobFacts DEF TypeOK, Open
<1>5. /\ Burst(r, w) \in Seq(OutLine) /\ Idxs(Burst(r, w)) = reads \cup writes
      /\ NoRepeat(Burst(r, w)) /\ OfThisRun(Burst(r, w))
  BY <1>2, <1>3, ConcatLines DEF Burst, PlaceInv
<1>6. /\ out \o Burst(r, w) \in Seq(OutLine)
      /\ Idxs(out \o Burst(r, w)) = Idxs(out) \cup reads \cup writes
      /\ NoRepeat(out \o Burst(r, w)) /\ OfThisRun(out \o Burst(r, w))
  BY <1>4, <1>5, ConcatLines DEF PlaceInv
<1> QED
  BY <1>1, <1>4, <1>6, ConcatLines DEF PlaceInv

\* Every step keeps each line read in exactly one place.
LEMMA PlaceNext == Inv /\ [Next]_vars => PlaceInv'
<1> SUFFICES ASSUME Inv, [Next]_vars PROVE PlaceInv'
  OBVIOUS
<1> USE DEF files, buffer
<1>1. /\ TypeOK /\ CursorInv /\ LeftInv /\ PlaceInv
      /\ Len(trace) \in Nat /\ NWindows \in Nat
      /\ \A i \in Entries(trace) : i \in 1 .. Len(trace) /\ trace[i].cycle \in Nat
      /\ \A k \in 1 .. NWindows : windows[k].id \in WindowIds
      /\ pos \in 1 .. Len(trace) + 1 /\ cur \in 1 .. NWindows + 1
      /\ run \in 1 .. MaxRuns /\ temp \in [WindowIds -> Seq(OutLine)] /\ out \in Seq(OutLine)
      /\ (active => cur \in 1 .. NWindows)
  <2>1. TypeOK
    BY DEF Inv
  <2> QED
    BY <2>1, JobFacts DEF Inv, TypeOK
<1>2. job' = job => /\ trace' = trace /\ windows' = windows /\ NWindows' = NWindows
                    /\ Entries(trace)' = Entries(trace)
  BY SameJob
<1>3. \* A step that moves no line.
      ASSUME job' = job, run' = run, Running, Consumed' = Consumed, active' = active,
             reads' = reads, writes' = writes, out' = out, Open' = Open
      PROVE  PlaceInv'
  BY <1>1, <1>3 DEF PlaceInv, Running, OfThisRun
<1>4. CASE SkipBlank
  <2>1. /\ Running /\ job' = job /\ run' = run /\ active' = active /\ reads' = reads
        /\ writes' = writes /\ out' = out /\ temp' = temp /\ cur' = cur
        /\ pos' = pos + 1 /\ pos \notin Entries(trace)
    BY <1>4 DEF SkipBlank, Running, Entries
  <2>2. Consumed' = Consumed /\ Open' = Open
    BY <1>1, <1>2, <2>1 DEF Consumed, Open
  <2> QED
    BY <1>3, <2>1, <2>2
<1>5. CASE ReadEntry \/ EndOfTrace
  <2>1. /\ Running /\ job' = job /\ run' = run /\ active' = active /\ reads' = reads
        /\ writes' = writes /\ out' = out /\ temp' = temp /\ cur' = cur /\ pos' = pos
    BY <1>5 DEF ReadEntry, EndOfTrace, Running
  <2>2. Consumed' = Consumed /\ Open' = Open
    BY <1>2, <2>1 DEF Consumed, Open
  <2> QED
    BY <1>3, <2>1, <2>2
<1>6. CASE /\ FlushWindow /\ cur \in 1 .. NWindows
           /\ (pc = "line" /\ cur < next) \/ pc = "tail"
  <2>1. Running /\ temp[windows[cur].id] = Open
    BY <1>1, <1>6, LeftNotFlushed DEF Open, Running
  <2>2. /\ Idxs(out') = Idxs(out) \cup reads \cup writes \cup Idxs(Open)
        /\ NoRepeat(out') /\ OfThisRun(out')
    BY <1>1, <1>6, <2>1, FlushLines
  <2>3. /\ job' = job /\ run' = run /\ pos' = pos /\ ~ active' /\ reads' = {} /\ writes' = {}
    BY <1>6 DEF FlushWindow
  <2>4. Consumed' = Consumed /\ Open' = << >>
    BY <1>2, <2>3 DEF Consumed, Open
  <2>5. Idxs(out)' = Idxs(out') /\ NoRepeat(out)' /\ OfThisRun(out)'
    BY <2>2, <2>3 DEF Idxs, NoRepeat, OfThisRun
  <2>6. Idxs(Open)' = {} /\ NoRepeat(Open)' /\ OfThisRun(Open)'
    BY <2>4 DEF Idxs, NoRepeat, OfThisRun
  <2> QED
    BY <1>1, <2>1, <2>2, <2>3, <2>4, <2>5, <2>6 DEF PlaceInv
<1>7. CASE FlushPassed
  <2>1. cur \in 1 .. NWindows
    BY <1>1, <1>7 DEF FlushPassed, TypeOK
  <2> QED
    BY <1>6, <1>7, <2>1 DEF FlushPassed
<1>8. CASE FlushTail
  <2>1. cur \in 1 .. NWindows
    BY <1>1, <1>8 DEF FlushTail
  <2> QED
    BY <1>6, <1>8, <2>1 DEF FlushTail
<1>9. CASE PlaceEntry
  <2>1. /\ pc = "line" /\ pc' = "read" /\ pos' = pos + 1 /\ cur' = cur
        /\ job' = job /\ run' = run /\ pos \in Entries(trace) /\ Running
    BY <1>1, <1>9 DEF PlaceEntry, BufferEntry, SpillEntry, PassEntry, Placing, TypeOK, Running
  <2>2. Consumed' = Consumed \cup {pos} /\ pos \notin Consumed
    BY <1>1, <1>2, <2>1 DEF Consumed
  <2>3. Written(pos, trace[pos].cycle) \in OutLine
    BY <1>1, <2>1 DEF Written, OutLine
  <2>4. OpenTemp = Open /\ Open \in Seq(OutLine)
    BY <1>1 DEF OpenTemp, Open
  <2>5. /\ reads \cup writes \cup Idxs(Open) \cup Idxs(out) = Consumed
        /\ reads \cap writes = {} /\ (reads \cup writes) \cap Idxs(Open) = {}
        /\ (reads \cup writes \cup Idxs(Open)) \cap Idxs(out) = {}
        /\ NoRepeat(out) /\ NoRepeat(Open) /\ OfThisRun(out) /\ OfThisRun(Open)
        /\ ~ active => reads = {} /\ writes = {}
    BY <1>1, <2>1 DEF PlaceInv
  <2>6. InCurrent(trace[pos].cycle) => windows[cur].id \in WindowIds
    BY <1>1 DEF InCurrent
  <2>8. CASE BufferEntry(trace[pos])
    <3>1. /\ active' /\ out' = out /\ InCurrent(trace[pos].cycle)
          /\ temp' = [temp EXCEPT ![windows[cur].id] = OpenTemp]
      BY <2>8 DEF BufferEntry
    <3>2. Open' = Open
      BY <1>1, <1>2, <2>1, <2>4, <2>6, <3>1 DEF Open
    <3>3. \/ reads' = reads \cup {pos} /\ writes' = writes
          \/ reads' = reads /\ writes' = writes \cup {pos}
      BY <2>8 DEF BufferEntry, Buffered
    <3>4. Idxs(Open)' = Idxs(Open) /\ Idxs(out)' = Idxs(out)
      BY <3>1, <3>2 DEF Idxs
    <3>5. /\ NoRepeat(out)' /\ NoRepeat(Open)' /\ OfThisRun(out)' /\ OfThisRun(Open)'
      BY <2>1, <2>5, <3>1, <3>2 DEF NoRepeat, OfThisRun
    <3> QED
      BY <2>2, <2>5, <3>1, <3>3, <3>4, <3>5 DEF PlaceInv
  <2>9. CASE SpillEntry(trace[pos])
    <3> DEFINE line == Written(pos, trace[pos].cycle)
    <3>1. /\ active' /\ out' = out /\ reads' = reads /\ writes' = writes
          /\ InCurrent(trace[pos].cycle)
          /\ temp' = [temp EXCEPT ![windows[cur].id] = Append(OpenTemp, line)]
      BY <2>9 DEF SpillEntry
    <3>2. Open' = Open \o <<line>>
      <4>1. Open' = temp'[windows[cur].id]
        BY <1>2, <2>1, <3>1 DEF Open
      <4>2. temp'[windows[cur].id] = Append(Open, line)
        BY <1>1, <2>4, <2>6, <3>1
      <4> QED
        BY <2>3, <2>4, <4>1, <4>2
    <3>3. Idxs(<<line>>) = {pos} /\ NoRepeat(<<line>>) /\ OfThisRun(<<line>>)
      BY OneLine
    <3>4. <<line>> \in Seq(OutLine) /\ Idxs(Open) \cap Idxs(<<line>>) = {}
      BY <2>2, <2>3, <2>5, <3>3
    <3>5. /\ Idxs(Open \o <<line>>) = Idxs(Open) \cup {pos}
          /\ NoRepeat(Open \o <<line>>) /\ OfThisRun(Open \o <<line>>)
      BY <2>4, <2>5, <3>3, <3>4, ConcatLines
    <3> HIDE DEF line
    <3>6. Idxs(Open)' = Idxs(Open) \cup {pos} /\ Idxs(out)' = Idxs(out)
      BY <3>1, <3>2, <3>5 DEF Idxs
    <3>7. NoRepeat(out)' /\ NoRepeat(Open)' /\ OfThisRun(out)' /\ OfThisRun(Open)'
      BY <2>1, <2>5, <3>1, <3>2, <3>5 DEF NoRepeat, OfThisRun
    <3> QED
      BY <2>2, <2>5, <3>1, <3>6, <3>7 DEF PlaceInv
  <2>10. CASE PassEntry(trace[pos])
    <3> DEFINE line == Written(pos, trace[pos].cycle)
    <3>1. /\ active' = active /\ reads' = reads /\ writes' = writes /\ temp' = temp
          /\ out' = out \o <<line>>
      BY <1>1, <2>3, <2>10 DEF PassEntry
    <3>2. Open' = Open
      BY <1>2, <2>1, <3>1 DEF Open
    <3>3. Idxs(<<line>>) = {pos} /\ NoRepeat(<<line>>) /\ OfThisRun(<<line>>)
      BY OneLine
    <3>4. <<line>> \in Seq(OutLine) /\ Idxs(out) \cap Idxs(<<line>>) = {}
      BY <2>2, <2>3, <2>5, <3>3
    <3>5. /\ Idxs(out \o <<line>>) = Idxs(out) \cup {pos}
          /\ NoRepeat(out \o <<line>>) /\ OfThisRun(out \o <<line>>)
      BY <1>1, <2>5, <3>3, <3>4, ConcatLines
    <3> HIDE DEF line
    <3>6. Idxs(out)' = Idxs(out) \cup {pos} /\ Idxs(Open)' = Idxs(Open)
      BY <3>1, <3>2, <3>5 DEF Idxs
    <3>7. NoRepeat(out)' /\ NoRepeat(Open)' /\ OfThisRun(out)' /\ OfThisRun(Open)'
      BY <2>1, <2>5, <3>1, <3>2, <3>5 DEF NoRepeat, OfThisRun
    <3> QED
      BY <2>2, <2>5, <3>1, <3>6, <3>7 DEF PlaceInv
  <2> QED
    BY <1>9, <2>8, <2>9, <2>10 DEF PlaceEntry
<1>10. CASE Finish
  <2>1. /\ Running /\ ~ active /\ job' = job /\ run' = run /\ active' = active
        /\ reads' = reads /\ writes' = writes /\ out' = out /\ pos' = pos
    BY <1>1, <1>10 DEF Finish, Running
  <2>2. Consumed' = Consumed /\ Open' = Open
    BY <1>2, <2>1 DEF Consumed, Open
  <2> QED
    BY <1>3, <2>1, <2>2
<1>11. CASE Kill
  BY <1>11 DEF Kill, PlaceInv, Running
<1>12. CASE Start(job)
  <2>1. /\ job' = job /\ pos' = 1 /\ ~ active' /\ reads' = {} /\ writes' = {} /\ out' = << >>
    BY <1>12 DEF Start
  <2>2. Consumed' = {} /\ Open' = << >>
    BY <1>1, <1>2, <2>1 DEF Consumed, Open
  <2>3. /\ Idxs(out)' = {} /\ NoRepeat(out)' /\ OfThisRun(out)'
        /\ Idxs(Open)' = {} /\ NoRepeat(Open)' /\ OfThisRun(Open)'
    BY <2>1, <2>2 DEF Idxs, NoRepeat, OfThisRun
  <2> QED
    BY <2>1, <2>2, <2>3 DEF PlaceInv
<1>13. CASE UNCHANGED vars
  <2>1. Consumed' = Consumed /\ Open' = Open
    BY <1>2, <1>13 DEF vars, Consumed, Open
  <2> QED
    BY <1>1, <1>3, <1>13, <2>1 DEF vars, PlaceInv, Running
<1> QED
  BY <1>4, <1>5, <1>7, <1>8, <1>9, <1>10, <1>11, <1>12, <1>13
     DEF Next, Step, Stopped
-----------------------------------------------------------------------------
(***************************************************************************)
(* The theorems.                                                           *)
(***************************************************************************)
\* The invariant holds initially.
LEMMA InvInit == Init => Inv
<1> SUFFICES ASSUME Init PROVE Inv
  OBVIOUS
<1>1. TypeOK
  BY TypeInit
<1>2. Len(trace) \in Nat /\ \A i \in Entries(trace) : i \in 1 .. Len(trace)
  BY <1>1, JobFacts DEF TypeOK
<1>3. Seen = {} /\ Goal = 1 /\ Consumed = {}
  BY <1>2 DEF Init, FirstStart, Seen, Goal, Consumed
<1>4. CursorInv
  BY <1>3 DEF Init, FirstStart, CursorInv
<1>5. LeftInv
  <2>1. \A k \in 1 .. NWindows : temp[windows[k].id] = << >>
    BY <1>1, JobFacts DEF Init, FirstStart, TypeOK
  <2> QED
    BY <2>1 DEF Init, FirstStart, LeftInv
<1>6. PlaceInv
  <2>1. Open = << >> /\ out = << >>
    BY DEF Init, FirstStart, Open
  <2> QED
    BY <1>3, <2>1, NoLine DEF Init, FirstStart, PlaceInv
<1> QED
  BY <1>1, <1>4, <1>5, <1>6 DEF Inv

\* The invariant holds in every reachable state.
THEOREM Invariance == Spec => []Inv
<1>1. Inv /\ [Next]_vars => Inv'
  BY TypeNext, CursorNext, LeftNext, PlaceNext DEF Inv
<1> QED
  BY <1>1, InvInit, PTL DEF Spec

\* No line is lost or written twice, whatever the trace, the windows and the
\* kills: each line read is once in the output, or held and not in it.
THEOREM NothingLost == Spec => []Conservation
<1>1. Inv => Conservation
  <2> SUFFICES ASSUME Inv, Running PROVE Conservation
    BY DEF Conservation
  <2>1. Held = reads \cup writes \cup Idxs(Open) /\ Spilled = Idxs(Open)
    BY NoLine DEF Held, Spilled, Open
  <2>2. /\ reads \cap writes = {} /\ (reads \cup writes) \cap Spilled = {}
        /\ Held \cap Idxs(out) = {} /\ Held \cup Idxs(out) = Consumed
        /\ NoRepeat(out)
    BY <2>1 DEF Inv, PlaceInv
  <2>3. ASSUME NEW i \in Consumed
        PROVE  Cardinality(Positions(i)) = IF i \in Held THEN 0 ELSE 1
    <3>1. CASE i \in Held
      <4>1. Positions(i) = {}
        BY <2>2, <3>1 DEF Positions, Idxs
      <4> QED
        BY <3>1, <4>1, FS_EmptySet
    <3>2. CASE i \notin Held
      <4>1. PICK k \in DOMAIN out : out[k].idx = i
        BY <2>2, <2>3, <3>2 DEF Idxs
      <4>2. Positions(i) = {k}
        BY <2>2, <4>1 DEF Positions, NoRepeat
      <4> QED
        BY <3>2, <4>2, FS_Singleton
    <3> QED
      BY <3>1, <3>2
  <2>4. pc = "done" => Held = {}
    <3> SUFFICES ASSUME pc = "done" PROVE Held = {}
      OBVIOUS
    <3>1. ~ active
      BY DEF Inv, LeftInv
    <3> QED
      BY <2>1, <3>1, NoLine DEF Inv, PlaceInv, Open
  <2> QED
    BY <2>2, <2>3, <2>4 DEF Conservation
<1> QED
  BY <1>1, Invariance, PTL

\* Rerunning after kills with the same input never copies a line that an
\* earlier run left behind, although nothing clears the directory.
THEOREM RerunIsClean == Spec => []OnlyOwnLines
<1>1. Inv => OnlyOwnLines
  BY DEF Inv, PlaceInv, OnlyOwnLines, OfThisRun
<1> QED
  BY <1>1, Invariance, PTL
-----------------------------------------------------------------------------
(***************************************************************************)
(* The summary.  While a window is open the counters run ahead of the      *)
(* output: what is in the buffers is counted as rewritten and in the       *)
(* total, what is spilled and the line being placed in the total only.     *)
(***************************************************************************)
Buffers == Cardinality(reads) + Cardinality(writes)

CountInv ==
  Running =>
    /\ counts.gcell = counts.rewritten + counts.outside
    /\ Buffers <= counts.rewritten
    /\ WindowsAddUpTo(counts.rewritten - Buffers)
    /\ counts.total = Len(out) + Buffers + Len(Open) + (IF pc = "line" THEN 1 ELSE 0)

\* Another window's counts added at the end of the list add to its total.
LEMMA OneMoreWindow ==
  ASSUME TypeOK, NEW total \in Nat, WindowsAddUpTo(total),
         NEW id, NEW r \in Nat, NEW w \in Nat,
         perWindow' = Append(perWindow, [id |-> id, reads |-> r, writes |-> w]),
         NEW more \in Nat, more = total + r + w
  PROVE  WindowsAddUpTo(more)'
<1> DEFINE n == Len(perWindow)
<1>1. n \in Nat /\ perWindow \in Seq([id : WindowIds, reads : Nat, writes : Nat])
  BY DEF TypeOK
<1>2. Len(perWindow') = n + 1
  BY <1>1
<1>3. PICK sum \in [0 .. n -> 0 .. total] :
        /\ sum[0] = 0
        /\ \A k \in 1 .. n : sum[k] = sum[k - 1] + perWindow[k].reads + perWindow[k].writes
        /\ sum[n] = total
  BY DEF WindowsAddUpTo
<1> DEFINE longer == [k \in 0 .. n + 1 |-> IF k = n + 1 THEN more ELSE sum[k]]
<1>4. longer \in [0 .. n + 1 -> 0 .. more]
  <2>1. ASSUME NEW k \in 0 .. n + 1
        PROVE  (IF k = n + 1 THEN more ELSE sum[k]) \in 0 .. more
    <3>1. CASE k = n + 1
      BY <3>1
    <3>2. CASE k # n + 1
      <4>1. sum[k] \in 0 .. total
        BY <1>1, <1>3, <3>2
      <4> QED
        BY <3>2, <4>1
    <3> QED
      BY <3>1, <3>2
  <2> QED
    BY <2>1
<1>5. longer[0] = 0 /\ longer[n + 1] = more
  BY <1>1, <1>3
<1>6. ASSUME NEW k \in 1 .. n + 1
      PROVE  longer[k] = longer[k - 1] + perWindow'[k].reads + perWindow'[k].writes
  <2>1. CASE k = n + 1
    <3>1. perWindow'[k] = [id |-> id, reads |-> r, writes |-> w]
      BY <1>1, <2>1
    <3>2. longer[k] = more /\ longer[k - 1] = total
      BY <1>1, <1>3, <2>1
    <3> QED
      BY <3>1, <3>2
  <2>2. CASE k \in 1 .. n
    <3>1. perWindow'[k] = perWindow[k]
      BY <1>1, <2>2
    <3>2. longer[k] = sum[k] /\ longer[k - 1] = sum[k - 1]
      BY <1>1, <2>2
    <3> QED
      BY <1>3, <2>2, <3>1, <3>2
  <2> QED
    BY <1>1, <2>1, <2>2
<1> HIDE DEF longer
<1> QED
  BY <1>2, <1>4, <1>5, <1>6 DEF WindowsAddUpTo

\* A sorted list is as long as the set is large.
LEMMA SortedLength ==
  ASSUME job \in Jobs, NEW S \in SUBSET (1 .. Len(trace)),
         NEW p \in Sorted(trace, S)
  PROVE  Len(p) = Cardinality(S)
<1>1. Cardinality(S) \in Nat
  BY JobTypes, LineNumbersFinite
<1>2. p \in [1 .. Cardinality(S) -> S]
  BY DEF Sorted, Arrangements
<1> QED
  BY <1>1, <1>2

\* What a flush writes is what was held.
LEMMA FlushLength ==
  ASSUME TypeOK, cur \in 1 .. NWindows, FlushWindow
  PROVE  Len(out') = Len(out) + Buffers + Len(temp[windows[cur].id])
<1>1. PICK r \in Sorted(trace, reads), w \in Sorted(trace, writes) :
        out' = out \o Burst(r, w) \o temp[windows[cur].id]
  BY DEF FlushWindow
<1>2. /\ Phase(r) \in Seq(OutLine) /\ Len(Phase(r)) = Len(r)
      /\ Phase(w) \in Seq(OutLine) /\ Len(Phase(w)) = Len(w)
  BY PhaseFacts DEF TypeOK
<1>3. Len(r) = Cardinality(reads) /\ Len(w) = Cardinality(writes)
  BY SortedLength DEF TypeOK
<1>4. out \in Seq(OutLine) /\ temp[windows[cur].id] \in Seq(OutLine)
  BY JobFacts DEF TypeOK
<1>5. ASSUME NEW a \in Seq(OutLine), NEW b \in Seq(OutLine)
      PROVE  a \o b \in Seq(OutLine) /\ Len(a \o b) = Len(a) + Len(b)
             /\ Len(a) \in Nat /\ Len(b) \in Nat
  BY <1>5
<1>6. Burst(r, w) \in Seq(OutLine) /\ Len(Burst(r, w)) = Buffers
  BY <1>2, <1>3, <1>5 DEF Burst, Buffers
<1>7. out \o Burst(r, w) \in Seq(OutLine) /\ Len(out \o Burst(r, w)) = Len(out) + Buffers
  BY <1>4, <1>5, <1>6
<1> QED
  BY <1>1, <1>4, <1>5, <1>7

\* The counts of no windows add up to nothing.
LEMMA EmptySum ==
  \E sum \in [0 .. Len(<< >>) -> 0 .. 0] :
    sum[0] = 0 /\ sum[Len(<< >>)] = 0 /\ 1 .. Len(<< >>) = {}
<1> DEFINE zero == [k \in 0 .. 0 |-> 0]
<1>1. Len(<< >>) = 0
  OBVIOUS
<1>2. zero \in [0 .. 0 -> 0 .. 0] /\ zero[0] = 0 /\ 1 .. 0 = {}
  OBVIOUS
<1> HIDE DEF zero
<1> QED
  BY <1>1, <1>2

\* The buffers have a size.
LEMMA BuffersFinite ==
  ASSUME TypeOK
  PROVE  /\ IsFiniteSet(reads) /\ Cardinality(reads) \in Nat
         /\ IsFiniteSet(writes) /\ Cardinality(writes) \in Nat
         /\ Buffers \in Nat
<1>1. Len(trace) \in Nat /\ reads \in SUBSET (1 .. Len(trace)) /\ writes \in SUBSET (1 .. Len(trace))
  BY JobFacts DEF TypeOK
<1>2. /\ IsFiniteSet(reads) /\ Cardinality(reads) \in Nat
      /\ IsFiniteSet(writes) /\ Cardinality(writes) \in Nat
  BY <1>1, LineNumbersFinite
<1> QED
  BY <1>2 DEF Buffers

\* Every step keeps the counters in step with what is written and held.
LEMMA CountNext == Inv /\ CountInv /\ [Next]_vars => CountInv'
<1> SUFFICES ASSUME Inv, CountInv, [Next]_vars PROVE CountInv'
  OBVIOUS
<1> USE DEF files, buffer
<1>1. TypeOK /\ CursorInv /\ LeftInv /\ PlaceInv
  BY DEF Inv
<1>2. /\ Buffers \in Nat /\ Cardinality(reads) \in Nat /\ Cardinality(writes) \in Nat
      /\ IsFiniteSet(reads) /\ IsFiniteSet(writes)
  BY <1>1, BuffersFinite
<1>3. /\ counts \in [total : Nat, gcell : Nat, rewritten : Nat, outside : Nat]
      /\ counts.total \in Nat /\ counts.gcell \in Nat
      /\ counts.rewritten \in Nat /\ counts.outside \in Nat
      /\ out \in Seq(OutLine) /\ Len(out) \in Nat
      /\ cur \in 1 .. NWindows + 1 /\ NWindows \in Nat /\ active \in BOOLEAN
  BY <1>1, JobFacts DEF TypeOK
<1>4. ASSUME cur \in 1 .. NWindows
      PROVE  /\ windows[cur].id \in WindowIds /\ temp[windows[cur].id] \in Seq(OutLine)
             /\ Len(temp[windows[cur].id]) \in Nat
  BY <1>1, <1>4, JobFacts DEF TypeOK
<1>5. job' = job => windows' = windows
  BY SameJob
<1>6. \* A step that leaves all of it alone.
      ASSUME job' = job, cur' = cur, active' = active, reads' = reads, writes' = writes,
             temp' = temp, out' = out, perWindow' = perWindow, counts' = counts,
             Running, (pc' = "line") = (pc = "line")
      PROVE  CountInv'
  BY <1>5, <1>6 DEF CountInv, Buffers, Open, WindowsAddUpTo
<1>18. \* What is to be shown of each step.
       ASSUME counts'.gcell = counts'.rewritten + counts'.outside,
              Buffers' <= counts'.rewritten,
              WindowsAddUpTo(counts.rewritten - Buffers)',
              counts'.total = Len(out') + Buffers' + Len(Open') + (IF pc' = "line" THEN 1 ELSE 0)
       PROVE  CountInv'
  BY <1>18 DEF CountInv
<1>7. CASE SkipBlank
  BY <1>6, <1>7 DEF SkipBlank, Running
<1>8. CASE ReadEntry
  <2>1. /\ job' = job /\ cur' = cur /\ active' = active /\ reads' = reads /\ writes' = writes
        /\ temp' = temp /\ out' = out /\ perWindow' = perWindow
        /\ pc = "read" /\ pc' = "line" /\ Running
        /\ counts' = [counts EXCEPT !.total = @ + 1]
    BY <1>8 DEF ReadEntry, Running
  <2>2. /\ counts'.total = counts.total + 1 /\ counts'.gcell = counts.gcell
        /\ counts'.rewritten = counts.rewritten /\ counts'.outside = counts.outside
    BY <1>3, <2>1
  <2>3. Buffers' = Buffers /\ Open' = Open
        /\ \A t : WindowsAddUpTo(t)' <=> WindowsAddUpTo(t)
    BY <1>5, <2>1 DEF Buffers, Open, WindowsAddUpTo
  <2>4. Len(Open) \in Nat
    BY <1>1, <1>3, <1>4 DEF Open, TypeOK
  <2> QED
    BY <1>2, <1>3, <2>1, <2>2, <2>3, <2>4 DEF CountInv
<1>9. CASE FlushWindow /\ cur \in 1 .. NWindows /\ ((pc = "line" /\ cur < next) \/ pc = "tail")
  <2>1. /\ job' = job /\ pc' = pc /\ active' = FALSE /\ reads' = {} /\ writes' = {}
        /\ counts' = counts
        /\ perWindow' = Append(perWindow, [id |-> windows[cur].id,
                                           reads |-> Cardinality(reads),
                                           writes |-> Cardinality(writes)])
    BY <1>9 DEF FlushWindow
  <2>2. temp[windows[cur].id] = Open
    BY <1>1, <1>9, LeftNotFlushed DEF Open
  <2>3. Len(out') = Len(out) + Buffers + Len(Open)
    BY <1>1, <1>9, <2>2, FlushLength
  <2>4. Running /\ Buffers' = 0 /\ Open' = << >>
    BY <1>9, <2>1, FS_EmptySet DEF Buffers, Open, Running
  <2>5. counts.rewritten - Buffers \in Nat /\ WindowsAddUpTo(counts.rewritten - Buffers)
    BY <1>2, <1>3, <2>4 DEF CountInv
  <2>6. counts.rewritten = (counts.rewritten - Buffers) + Cardinality(reads) + Cardinality(writes)
    BY <1>2, <1>3 DEF Buffers
  <2>7. PICK more \in Nat : more = counts.rewritten
    BY <1>3
  <2>8. WindowsAddUpTo(more)'
    BY <1>1, <1>2, <2>1, <2>5, <2>6, <2>7, OneMoreWindow
  <2>9. WindowsAddUpTo(counts.rewritten - Buffers)'
    <3>1. (counts.rewritten - Buffers)' = more
      BY <2>1, <2>4, <2>7
    <3> QED
      BY <2>8, <3>1 DEF WindowsAddUpTo
  <2> QED
    BY <1>2, <1>3, <2>1, <2>3, <2>4, <2>9 DEF CountInv
<1>10. CASE FlushPassed
  <2>1. cur \in 1 .. NWindows
    BY <1>1, <1>3, <1>10 DEF FlushPassed, TypeOK
  <2> QED
    BY <1>9, <1>10, <2>1 DEF FlushPassed
<1>11. CASE FlushTail
  BY <1>3, <1>9, <1>11 DEF FlushTail
<1>12. CASE PlaceEntry
  <2>1. /\ pc = "line" /\ pc' = "read" /\ cur = next /\ cur' = cur /\ job' = job
        /\ perWindow' = perWindow /\ Running /\ pc' # "line"
    BY <1>12 DEF PlaceEntry, BufferEntry, SpillEntry, PassEntry, Placing, Running
  <2>2. pos \notin reads /\ pos \notin writes
    BY <1>1, <2>1 DEF PlaceInv, Consumed, TypeOK
  <2>3. InCurrent(trace[pos].cycle) => cur \in 1 .. NWindows /\ OpenTemp = Open
    BY <1>3 DEF InCurrent, OpenTemp, Open
  <2>4. \A t : WindowsAddUpTo(t)' <=> WindowsAddUpTo(t)
    BY <2>1 DEF WindowsAddUpTo
  <2>5. ~ active => Open = << >>
    BY DEF Open
  <2>6. Open \in Seq(OutLine) /\ Len(Open) \in Nat
    BY <1>1, <1>3, <1>4 DEF Open, TypeOK
  <2>7. ASSUME NEW kept \in BOOLEAN, counts' = Tally(trace[pos], kept),
               kept => IsGcell(trace[pos])
        PROVE  /\ counts'.total = counts.total
               /\ counts'.gcell = counts'.rewritten + counts'.outside
               /\ counts'.rewritten = counts.rewritten + (IF kept THEN 1 ELSE 0)
    BY <1>3, <2>1, <2>7 DEF Tally, CountInv
  <2>8. CASE BufferEntry(trace[pos])
    <3>1. /\ InCurrent(trace[pos].cycle) /\ Buffered(trace[pos]) /\ active' = TRUE
          /\ temp' = [temp EXCEPT ![windows[cur].id] = OpenTemp]
          /\ reads' = (IF trace[pos].op = "READ" THEN reads \cup {pos} ELSE reads)
          /\ writes' = (IF trace[pos].op = "WRITE" THEN writes \cup {pos} ELSE writes)
          /\ counts' = Tally(trace[pos], TRUE) /\ out' = out
      BY <2>8 DEF BufferEntry
    <3>2. Open' = Open
      BY <1>1, <1>4, <1>5, <2>1, <2>3, <3>1 DEF Open, TypeOK
    <3>3. Buffers' = Buffers + 1
      <4>1. CASE trace[pos].op = "READ"
        <5>1. reads' = reads \cup {pos} /\ writes' = writes
          BY <3>1, <4>1
        <5>2. Cardinality(reads \cup {pos}) = Cardinality(reads) + 1
          BY <1>2, <2>2, FS_AddElement
        <5> QED
          BY <1>2, <5>1, <5>2 DEF Buffers
      <4>2. CASE trace[pos].op = "WRITE"
        <5>1. reads' = reads /\ writes' = writes \cup {pos}
          BY <3>1, <4>2
        <5>2. Cardinality(writes \cup {pos}) = Cardinality(writes) + 1
          BY <1>2, <2>2, FS_AddElement
        <5> QED
          BY <1>2, <5>1, <5>2 DEF Buffers
      <4> QED
        BY <3>1, <4>1, <4>2 DEF Buffered
    <3>4. /\ counts'.total = counts.total
          /\ counts'.gcell = counts'.rewritten + counts'.outside
          /\ counts'.rewritten = counts.rewritten + 1
      BY <2>7, <3>1 DEF Buffered
    <3>5. counts'.rewritten - Buffers' = counts.rewritten - Buffers
      BY <1>2, <1>3, <3>3, <3>4
    <3>6. WindowsAddUpTo(counts.rewritten - Buffers)'
      <4>1. PICK t : t = counts.rewritten - Buffers
        OBVIOUS
      <4>2. WindowsAddUpTo(t)'
        BY <2>1, <2>4, <4>1 DEF CountInv
      <4> QED
        BY <3>5, <4>1, <4>2 DEF WindowsAddUpTo
    <3>7. counts.total = Len(out) + Buffers + Len(Open) + 1 /\ Buffers <= counts.rewritten
      BY <2>1 DEF CountInv
    <3>8. Buffers' <= counts'.rewritten
      BY <1>2, <1>3, <3>3, <3>4, <3>7
    <3>9. counts'.total = Len(out') + Buffers' + Len(Open') + (IF pc' = "line" THEN 1 ELSE 0)
      <4>1. Len(Open') = Len(Open) /\ Len(out') = Len(out) /\ pc' # "line"
        BY <2>1, <3>1, <3>2
      <4> QED
        BY <1>2, <1>3, <2>6, <3>3, <3>4, <3>7, <4>1
    <3> QED
      BY <1>18, <2>1, <3>4, <3>6, <3>8, <3>9
  <2>9. ASSUME counts' = Tally(trace[pos], FALSE), reads' = reads, writes' = writes
        PROVE  /\ counts'.total = counts.total
               /\ counts'.gcell = counts'.rewritten + counts'.outside
               /\ Buffers' = Buffers /\ Buffers' <= counts'.rewritten
               /\ WindowsAddUpTo(counts.rewritten - Buffers)'
    <3>1. /\ counts'.total = counts.total
          /\ counts'.gcell = counts'.rewritten + counts'.outside
          /\ counts'.rewritten = counts.rewritten
      <4>1. /\ counts'.total = counts.total
            /\ counts'.gcell = counts'.rewritten + counts'.outside
            /\ counts'.rewritten = counts.rewritten + (IF FALSE THEN 1 ELSE 0)
        BY <2>7, <2>9
      <4> QED
        BY <1>3, <4>1
    <3>2. Buffers' = Buffers
      BY <2>9 DEF Buffers
    <3>3. PICK t : t = counts.rewritten - Buffers
      OBVIOUS
    <3>4. WindowsAddUpTo(t)'
      BY <2>1, <2>4, <3>3 DEF CountInv
    <3>5. WindowsAddUpTo(counts.rewritten - Buffers)'
      BY <3>1, <3>2, <3>3, <3>4 DEF WindowsAddUpTo
    <3> QED
      BY <2>1, <3>1, <3>2, <3>5 DEF CountInv
  <2>10. CASE SpillEntry(trace[pos])
    <3>1. /\ InCurrent(trace[pos].cycle) /\ active' = TRUE
          /\ temp' = [temp EXCEPT ![windows[cur].id] =
                        Append(OpenTemp, Written(pos, trace[pos].cycle))]
          /\ counts' = Tally(trace[pos], FALSE) /\ out' = out
          /\ reads' = reads /\ writes' = writes
      BY <2>10 DEF SpillEntry
    <3>2. Open' = Append(Open, Written(pos, trace[pos].cycle))
      BY <1>1, <1>4, <1>5, <2>1, <2>3, <3>1 DEF Open, TypeOK
    <3>3. Len(Append(Open, Written(pos, trace[pos].cycle))) = Len(Open) + 1
      BY <2>6
    <3>4. counts.total = Len(out) + Buffers + Len(Open) + 1
      BY <2>1 DEF CountInv
    <3>5. counts'.total = Len(out') + Buffers' + Len(Open') + (IF pc' = "line" THEN 1 ELSE 0)
      <4>1. Len(Open') = Len(Open) + 1 /\ Len(out') = Len(out) /\ pc' # "line"
        BY <2>1, <3>1, <3>2, <3>3
      <4>2. counts'.total = counts.total /\ Buffers' = Buffers
        BY <2>9, <3>1
      <4> QED
        BY <1>2, <1>3, <2>6, <3>4, <4>1, <4>2
    <3> QED
      BY <1>18, <2>1, <2>9, <3>1, <3>5
  <2>11. CASE PassEntry(trace[pos])
    <3>1. /\ out' = Append(out, Written(pos, trace[pos].cycle))
          /\ counts' = Tally(trace[pos], FALSE)
          /\ temp' = temp /\ active' = active /\ reads' = reads /\ writes' = writes
      BY <2>11 DEF PassEntry
    <3>2. Open' = Open
      BY <1>5, <2>1, <3>1 DEF Open
    <3>3. Len(Append(out, Written(pos, trace[pos].cycle))) = Len(out) + 1
      BY <1>3
    <3>4. counts.total = Len(out) + Buffers + Len(Open) + 1
      BY <2>1 DEF CountInv
    <3>5. counts'.total = Len(out') + Buffers' + Len(Open') + (IF pc' = "line" THEN 1 ELSE 0)
      <4>1. Len(Open') = Len(Open) /\ Len(out') = Len(out) + 1 /\ pc' # "line"
        BY <2>1, <3>1, <3>2, <3>3
      <4>2. counts'.total = counts.total /\ Buffers' = Buffers
        BY <2>9, <3>1
      <4> QED
        BY <1>2, <1>3, <2>6, <3>4, <4>1, <4>2
    <3> QED
      BY <1>18, <2>1, <2>9, <3>1, <3>5
  <2> QED
    BY <1>12, <2>8, <2>10, <2>11 DEF PlaceEntry
<1>13. CASE EndOfTrace
  BY <1>6, <1>13 DEF EndOfTrace, Running
<1>14. CASE Finish
  <2>1. /\ job' = job /\ cur' = cur /\ active' = active /\ reads' = reads /\ writes' = writes
        /\ out' = out /\ perWindow' = perWindow /\ counts' = counts
        /\ pc = "tail" /\ pc' = "done" /\ Running /\ cur = NWindows + 1
    BY <1>14 DEF Finish, Running
  <2>2. ~ active
    BY <1>1, <1>3, <2>1 DEF TypeOK
  <2>3. Open' = Open /\ Buffers' = Buffers
        /\ \A t : WindowsAddUpTo(t)' <=> WindowsAddUpTo(t)
    BY <2>1, <2>2 DEF Open, Buffers, WindowsAddUpTo
  <2> QED
    BY <2>1, <2>3 DEF CountInv
<1>15. CASE Kill
  BY <1>15 DEF Kill, CountInv, Running
<1>16. CASE Start(job)
  <2>1. /\ pc' = "read" /\ active' = FALSE /\ reads' = {} /\ writes' = {}
        /\ out' = << >> /\ counts' = NoCounts /\ perWindow' = << >>
    BY <1>16 DEF Start
  <2>2. Buffers' = 0 /\ Open' = << >>
    BY <2>1, FS_EmptySet DEF Buffers, Open
  <2>3. WindowsAddUpTo(0)'
    BY <2>1, EmptySum DEF WindowsAddUpTo
  <2>4. WindowsAddUpTo(counts.rewritten - Buffers)'
    BY <2>1, <2>2, <2>3 DEF WindowsAddUpTo, NoCounts
  <2> QED
    BY <2>1, <2>2, <2>4 DEF CountInv, NoCounts
<1>17. CASE UNCHANGED vars
  <2>1. /\ job' = job /\ cur' = cur /\ active' = active /\ reads' = reads /\ writes' = writes
        /\ temp' = temp /\ out' = out /\ perWindow' = perWindow /\ counts' = counts /\ pc' = pc
    BY <1>17 DEF vars
  <2>2. Open' = Open /\ Buffers' = Buffers /\ Running' = Running
        /\ \A t : WindowsAddUpTo(t)' <=> WindowsAddUpTo(t)
    BY <1>5, <2>1 DEF Open, Buffers, Running, WindowsAddUpTo
  <2> QED
    BY <2>1, <2>2 DEF CountInv
<1> QED
  BY <1>7, <1>8, <1>10, <1>11, <1>12, <1>13, <1>14, <1>15, <1>16, <1>17
     DEF Next, Step, Stopped

\* The summary of a finished run is true of its output file, whatever the input
\* and however often it was started: every line is counted, every g_cells line
\* once, and the windows' own counts add up.
THEOREM SummaryIsTrue == Spec => []SummaryMatchesOutput
<1>1. Init => CountInv
  <2> SUFFICES ASSUME Init PROVE CountInv
    OBVIOUS
  <2>1. Buffers = 0 /\ Open = << >>
    BY FS_EmptySet DEF Init, FirstStart, Buffers, Open
  <2>2. counts = NoCounts /\ perWindow = << >> /\ out = << >> /\ pc = "read"
    BY DEF Init, FirstStart
  <2>3. WindowsAddUpTo(0)
    BY <2>2, EmptySum DEF WindowsAddUpTo
  <2> QED
    BY <2>1, <2>2, <2>3 DEF CountInv, NoCounts
<1>2. Inv /\ CountInv => SummaryMatchesOutput
  <2> SUFFICES ASSUME Inv, CountInv, pc = "done" PROVE SummaryMatchesOutput
    BY DEF SummaryMatchesOutput
  <2>1. ~ active /\ Running
    BY DEF Inv, LeftInv, Running
  <2>2. reads = {} /\ writes = {} /\ Open = << >>
    BY <2>1 DEF Inv, PlaceInv, Open
  <2>3. Buffers = 0
    BY <2>2, FS_EmptySet DEF Buffers
  <2>4. Len(out) \in Nat /\ counts.rewritten \in Nat
    BY DEF Inv, TypeOK
  <2> QED
    BY <2>1, <2>2, <2>3, <2>4 DEF CountInv, SummaryMatchesOutput
<1> QED
  BY <1>1, <1>2, CountNext, Invariance, PTL DEF Spec

(***************************************************************************)
(* The rewriter implements WindowBuffer: a line placed is an entry sent or *)
(* held, a flush sends what is held and nothing else, a kill starts the    *)
(* abstract buffer over, and every other step leaves it alone.             *)
(***************************************************************************)

\* The numbers of a list of lines.
Numbers(lines) == [k \in DOMAIN lines |-> lines[k].idx]

\* The refinement mapping of Buffer, part by part.
Todo == IF Running THEN {i \in Entries(trace) : i >= pos} ELSE Entries(trace)
NotSent == IF Running THEN Held ELSE {}
Sent == IF Running THEN Numbers(out) ELSE << >>

\* Buffer's steps, in these terms.
Same == Entries(trace)' = Entries(trace)
        /\ Todo' = Todo /\ NotSent' = NotSent /\ Sent' = Sent
Taken(i) == /\ i \in Todo /\ \A j \in Todo : i <= j
            /\ Todo' = Todo \ {i} /\ Entries(trace)' = Entries(trace)
Drained == /\ Len(Sent') >= Len(Sent) /\ SubSeq(Sent', 1, Len(Sent)) = Sent
           /\ Buffer!Arranges(SubSeq(Sent', Len(Sent) + 1, Len(Sent')), NotSent)
           /\ NotSent' = {} /\ Todo' = Todo /\ Entries(trace)' = Entries(trace)
Afresh == /\ Todo' = Entries(trace) /\ NotSent' = {} /\ Sent' = << >>
          /\ Entries(trace)' = Entries(trace)

\* Each of these is a step of Buffer, or leaves it as it is.
LEMMA BufferSteps ==
  ASSUME \/ Same
         \/ \E i : Taken(i) /\ Sent' = Append(Sent, i) /\ NotSent' = NotSent
         \/ \E i : Taken(i) /\ NotSent' = NotSent \cup {i} /\ Sent' = Sent
         \/ Drained
         \/ Afresh
  PROVE  [Buffer!Next]_Buffer!vars
<1> USE DEF Todo, NotSent, Sent, Numbers
<1>1. CASE Same
  BY <1>1 DEF Same, Buffer!vars
<1>2. ASSUME NEW i, Taken(i), Sent' = Append(Sent, i), NotSent' = NotSent
      PROVE  Buffer!Next
  <2>1. Buffer!Send(i) /\ i \in Todo
    BY <1>2 DEF Taken, Buffer!Send, Buffer!Take
  <2> QED
    BY <2>1 DEF Buffer!Next
<1>3. ASSUME NEW i, Taken(i), NotSent' = NotSent \cup {i}, Sent' = Sent
      PROVE  Buffer!Next
  <2>1. Buffer!Hold(i) /\ i \in Todo
    BY <1>3 DEF Taken, Buffer!Hold, Buffer!Take
  <2> QED
    BY <2>1 DEF Buffer!Next
<1>4. CASE Drained
  BY <1>4 DEF Drained, Buffer!Next, Buffer!Drain
<1>5. CASE Afresh
  BY <1>5 DEF Afresh, Buffer!Next, Buffer!StartOver
<1> QED
  BY <1>1, <1>2, <1>3, <1>4, <1>5
-----------------------------------------------------------------------------
\* The numbers of a list without repetition are an arrangement of its set.
LEMMA NumbersArrange ==
  ASSUME NEW s \in Seq(OutLine), NoRepeat(s)
  PROVE  Buffer!Arranges(Numbers(s), Idxs(s))
BY DEF Numbers, Idxs, NoRepeat, Buffer!Arranges

\* The numbers of two lists put together.
LEMMA NumbersConcat ==
  ASSUME NEW s \in Seq(OutLine), NEW t \in Seq(OutLine)
  PROVE  /\ Len(Numbers(s \o t)) >= Len(Numbers(s))
         /\ SubSeq(Numbers(s \o t), 1, Len(Numbers(s))) = Numbers(s)
         /\ SubSeq(Numbers(s \o t), Len(Numbers(s)) + 1, Len(Numbers(s \o t))) = Numbers(t)
<1> DEFINE n == Numbers(s)  m == Numbers(t)
<1>1. /\ DOMAIN s = 1 .. Len(s) /\ DOMAIN t = 1 .. Len(t) /\ Len(s) \in Nat /\ Len(t) \in Nat
      /\ \A k \in 1 .. Len(s) : s[k] \in OutLine
      /\ \A k \in 1 .. Len(t) : t[k] \in OutLine
  BY LenProperties
<1>2. /\ n \in Seq(Nat \ {0}) /\ Len(n) = Len(s) /\ \A k \in 1 .. Len(s) : n[k] = s[k].idx
      /\ m \in Seq(Nat \ {0}) /\ Len(m) = Len(t) /\ \A k \in 1 .. Len(t) : m[k] = t[k].idx
  BY <1>1 DEF Numbers, OutLine
<1>3. Numbers(s \o t) = n \o m
  <2>1. /\ DOMAIN (s \o t) = 1 .. Len(s) + Len(t)
        /\ \A i \in 1 .. Len(s) + Len(t) :
             (s \o t)[i] = IF i <= Len(s) THEN s[i] ELSE t[i - Len(s)]
    BY LenProperties, ConcatProperties
  <2>2. /\ DOMAIN (n \o m) = 1 .. Len(s) + Len(t)
        /\ \A i \in 1 .. Len(s) + Len(t) :
             (n \o m)[i] = IF i <= Len(s) THEN n[i] ELSE m[i - Len(s)]
    <3> HIDE DEF n, m
    <3>1. n \in Seq(Nat \ {0}) /\ m \in Seq(Nat \ {0})
      BY <1>2
    <3>2. /\ n \o m \in Seq(Nat \ {0}) /\ Len(n \o m) = Len(n) + Len(m)
          /\ \A i \in 1 .. Len(n) + Len(m) :
               (n \o m)[i] = IF i <= Len(n) THEN n[i] ELSE m[i - Len(n)]
      BY <3>1, ConcatProperties
    <3>3. DOMAIN (n \o m) = 1 .. Len(n \o m)
      BY <3>2, LenProperties
    <3> QED
      BY <1>2, <3>2, <3>3
  <2>3. n \o m = [i \in 1 .. Len(s) + Len(t) |-> (n \o m)[i]]
    <3> HIDE DEF n, m
    <3>1. n \in Seq(Nat \ {0}) /\ m \in Seq(Nat \ {0})
      BY <1>2
    <3>2. n \o m \in Seq(Nat \ {0})
      BY <3>1, ConcatProperties
    <3>3. n \o m \in [1 .. Len(n \o m) -> Nat \ {0}]
      BY <3>2, LenProperties
    <3> QED
      BY <2>2, <3>3
  <2>4. ASSUME NEW i \in 1 .. Len(s) + Len(t) PROVE (n \o m)[i] = (s \o t)[i].idx
    <3> HIDE DEF n, m
    <3>1. CASE i <= Len(s)
      <4>1. i \in 1 .. Len(s)
        BY <1>1, <3>1
      <4>2. (n \o m)[i] = n[i] /\ (s \o t)[i] = s[i]
        BY <2>1, <2>2, <3>1
      <4> QED
        BY <1>2, <4>1, <4>2
    <3>2. CASE ~ (i <= Len(s))
      <4>1. i - Len(s) \in 1 .. Len(t)
        BY <1>1, <3>2
      <4>2. (n \o m)[i] = m[i - Len(s)] /\ (s \o t)[i] = t[i - Len(s)]
        BY <2>1, <2>2, <3>2
      <4> QED
        BY <1>2, <4>1, <4>2
    <3> QED
      BY <3>1, <3>2
  <2> QED
    BY <2>1, <2>3, <2>4 DEF Numbers
<1> HIDE DEF n, m
<1>4. /\ n \o m \in Seq(Nat \ {0}) /\ Len(n \o m) = Len(n) + Len(m)
      /\ \A i \in 1 .. Len(n) + Len(m) : (n \o m)[i] = IF i <= Len(n) THEN n[i] ELSE m[i - Len(n)]
      /\ Len(n) \in Nat /\ Len(m) \in Nat
  BY <1>2, ConcatProperties, LenProperties
<1>5. SubSeq(n \o m, 1, Len(n)) = n
  BY <1>2, <1>4
<1>6. SubSeq(n \o m, Len(n) + 1, Len(n \o m)) = m
  BY <1>2, <1>4
<1> QED
  BY <1>3, <1>4, <1>5, <1>6 DEF n, m
-----------------------------------------------------------------------------
\* A flush appends the held lines, each once, and forgets them.
LEMMA FlushDrains ==
  ASSUME Inv, Running, cur \in 1 .. NWindows, FlushWindow,
         temp[windows[cur].id] = Open
  PROVE  Drained
<1>1. TypeOK /\ PlaceInv
  BY DEF Inv
<1>2. PICK r \in Sorted(trace, reads), w \in Sorted(trace, writes) :
        out' = out \o Burst(r, w) \o Open
  BY DEF FlushWindow
<1>3. /\ Phase(r) \in Seq(OutLine) /\ Idxs(Phase(r)) = reads /\ NoRepeat(Phase(r))
      /\ Phase(w) \in Seq(OutLine) /\ Idxs(Phase(w)) = writes /\ NoRepeat(Phase(w))
  BY <1>1, PhaseLines DEF TypeOK
<1>4. out \in Seq(OutLine) /\ Open \in Seq(OutLine)
  BY <1>1, JobFacts DEF TypeOK, Open
<1>5. /\ Burst(r, w) \in Seq(OutLine) /\ Idxs(Burst(r, w)) = reads \cup writes
      /\ NoRepeat(Burst(r, w))
  BY <1>1, <1>3, ConcatLines DEF Burst, PlaceInv
<1> DEFINE sends == Burst(r, w) \o Open
<1>6. /\ sends \in Seq(OutLine) /\ NoRepeat(sends)
      /\ Idxs(sends) = reads \cup writes \cup Idxs(Open)
  BY <1>1, <1>4, <1>5, ConcatLines DEF PlaceInv
<1>7. out' = out \o sends
  BY <1>2, <1>4, <1>5, ConcatAssociative
<1> HIDE DEF sends
<1>8. Idxs(sends) = NotSent
  BY <1>6, NoLine DEF NotSent, Held, Spilled, Open
<1>9. /\ job' = job /\ pos' = pos /\ pc' = pc /\ Running'
      /\ ~ active' /\ reads' = {} /\ writes' = {}
  BY DEF FlushWindow, Running
<1>10. NotSent' = {}
  BY <1>9 DEF NotSent, Held, Spilled
<1>11. Entries(trace)' = Entries(trace) /\ Todo' = Todo
  BY <1>9, SameJob DEF Todo
<1>12. Sent = Numbers(out) /\ Sent' = Numbers(out \o sends)
  BY <1>7, <1>9 DEF Sent, Numbers
<1>13. /\ Len(Sent') >= Len(Sent) /\ SubSeq(Sent', 1, Len(Sent)) = Sent
       /\ SubSeq(Sent', Len(Sent) + 1, Len(Sent')) = Numbers(sends)
  BY <1>4, <1>6, <1>12, NumbersConcat
<1>14. Buffer!Arranges(Numbers(sends), NotSent)
  BY <1>6, <1>8, NumbersArrange
<1> QED
  BY <1>10, <1>11, <1>13, <1>14 DEF Drained

\* A step within a run that moves no line.
LEMMA NothingMoves ==
  ASSUME job' = job, Running, Running', Todo' = Todo,
         UNCHANGED <<active, reads, writes, out>>, Open' = Open
  PROVE  Same
<1>1. Entries(trace)' = Entries(trace)
  BY SameJob
<1>2. Spilled = Idxs(Open) /\ Spilled' = Idxs(Open')
  BY NoLine DEF Spilled, Open, Idxs
<1>3. NotSent' = NotSent
  BY <1>2 DEF NotSent, Held
<1>4. Sent' = Sent
  BY DEF Sent, Numbers
<1> QED
  BY <1>1, <1>3, <1>4 DEF Same

\* A placed line is the next entry, sent if it is passed through and held otherwise.
LEMMA PlaceTakes ==
  ASSUME Inv, PlaceEntry
  PROVE  \/ Taken(pos) /\ Sent' = Append(Sent, pos) /\ NotSent' = NotSent
         \/ Taken(pos) /\ NotSent' = NotSent \cup {pos} /\ Sent' = Sent
<1>1. /\ TypeOK /\ PlaceInv /\ Len(trace) \in Nat
      /\ \A i \in Entries(trace) : i \in 1 .. Len(trace) /\ trace[i].cycle \in Nat
      /\ \A k \in 1 .. NWindows : windows[k].id \in WindowIds
      /\ temp \in [WindowIds -> Seq(OutLine)] /\ out \in Seq(OutLine)
      /\ run \in 1 .. MaxRuns /\ (active => cur \in 1 .. NWindows)
  <2>1. TypeOK
    BY DEF Inv
  <2> QED
    BY <2>1, JobFacts DEF Inv, TypeOK
<1>2. /\ pc = "line" /\ pc' = "read" /\ pos' = pos + 1 /\ cur' = cur
      /\ job' = job /\ run' = run /\ pos \in Entries(trace) /\ Running /\ Running'
  BY <1>1 DEF PlaceEntry, BufferEntry, SpillEntry, PassEntry, Placing, TypeOK, Running
<1>3. /\ trace' = trace /\ windows' = windows /\ Entries(trace)' = Entries(trace)
  BY <1>2, SameJob
<1>4. Taken(pos)
  <2>1. Todo = {i \in Entries(trace) : i >= pos}
        /\ Todo' = {i \in Entries(trace) : i >= pos + 1}
    BY <1>2, <1>3 DEF Todo
  <2>2. pos \in Int /\ \A i \in Entries(trace) : i \in Int
    BY <1>1, <1>2
  <2>3. Todo' = Todo \ {pos}
    BY <2>1, <2>2
  <2>4. pos \in Todo /\ \A j \in Todo : pos <= j
    BY <1>2, <2>1, <2>2
  <2> QED
    BY <1>3, <2>3, <2>4 DEF Taken
<1>5. NotSent = reads \cup writes \cup Idxs(Open)
  BY <1>2, NoLine DEF NotSent, Held, Spilled, Open
<1>6. NotSent' = reads' \cup writes' \cup Idxs(Open')
  BY <1>2, NoLine DEF NotSent, Held, Spilled, Open, Idxs
<1>7. Sent = Numbers(out) /\ Sent' = Numbers(out')
  BY <1>2 DEF Sent, Numbers
<1>8. Written(pos, trace[pos].cycle) \in OutLine
  BY <1>1, <1>2 DEF Written, OutLine
<1>9. OpenTemp = Open /\ Open \in Seq(OutLine)
  BY <1>1 DEF OpenTemp, Open
<1>10. InCurrent(trace[pos].cycle) => windows[cur].id \in WindowIds
  BY <1>1 DEF InCurrent, TypeOK
<1>11. CASE BufferEntry(trace[pos])
  <2>1. /\ active' /\ out' = out /\ InCurrent(trace[pos].cycle)
        /\ temp' = [temp EXCEPT ![windows[cur].id] = OpenTemp]
    BY <1>11 DEF BufferEntry
  <2>2. Open' = Open
    BY <1>1, <1>2, <1>3, <1>9, <1>10, <2>1 DEF Open
  <2>3. reads' \cup writes' = reads \cup writes \cup {pos}
    BY <1>11 DEF BufferEntry, Buffered
  <2> QED
    BY <1>4, <1>5, <1>6, <1>7, <2>1, <2>2, <2>3
<1>12. CASE SpillEntry(trace[pos])
  <2> DEFINE line == Written(pos, trace[pos].cycle)
  <2>1. /\ active' /\ out' = out /\ reads' = reads /\ writes' = writes
        /\ InCurrent(trace[pos].cycle)
        /\ temp' = [temp EXCEPT ![windows[cur].id] = Append(OpenTemp, line)]
    BY <1>12 DEF SpillEntry
  <2>2. Open' = temp'[windows[cur].id]
    BY <1>2, <1>3, <2>1 DEF Open
  <2>3. temp'[windows[cur].id] = Append(Open, line)
    BY <1>1, <1>9, <1>10, <2>1
  <2>4. Open' = Open \o <<line>>
    BY <1>8, <1>9, <2>2, <2>3
  <2>5. <<line>> \in Seq(OutLine) /\ Idxs(<<line>>) = {pos}
    BY <1>8, OneLine
  <2>6. Idxs(Open') = Idxs(Open) \cup {pos}
    BY <1>9, <2>4, <2>5, ConcatLines
  <2> QED
    BY <1>4, <1>5, <1>6, <1>7, <2>1, <2>6
<1>13. CASE PassEntry(trace[pos])
  <2> DEFINE line == Written(pos, trace[pos].cycle)
  <2>1. /\ active' = active /\ reads' = reads /\ writes' = writes /\ temp' = temp
        /\ out' = Append(out, line)
    BY <1>13 DEF PassEntry, buffer
  <2>2. Open' = Open
    BY <1>2, <1>3, <2>1 DEF Open
  <2>3. line.idx = pos
    BY DEF Written
  <2>4. Numbers(Append(out, line)) = Append(Numbers(out), pos)
    <3> HIDE DEF line
    <3>1. line \in OutLine
      BY <1>8 DEF line
    <3> QED
      BY <1>1, <2>3, <3>1 DEF Numbers, OutLine
  <2> QED
    BY <1>4, <1>5, <1>6, <1>7, <2>1, <2>2, <2>4
<1> QED
  BY <1>11, <1>12, <1>13 DEF PlaceEntry
-----------------------------------------------------------------------------
\* Every step of the rewriter is a step of Buffer, or leaves it as it is.
LEMMA StepRefines == Inv /\ [Next]_vars => [Buffer!Next]_Buffer!vars
<1> SUFFICES ASSUME Inv, [Next]_vars PROVE [Buffer!Next]_Buffer!vars
  OBVIOUS
<1> USE DEF files, buffer
<1>1. /\ TypeOK /\ CursorInv /\ LeftInv
      /\ NWindows \in Nat /\ cur \in 1 .. NWindows + 1 /\ next \in 1 .. NWindows + 1
      /\ Len(trace) \in Nat /\ pos \in 1 .. Len(trace) + 1
      /\ \A i \in Entries(trace) : i \in 1 .. Len(trace)
  <2>1. TypeOK
    BY DEF Inv
  <2> QED
    BY <2>1, JobFacts DEF Inv, TypeOK
<1>2. CASE SkipBlank
  <2>1. /\ job' = job /\ Running /\ Running' /\ UNCHANGED <<active, reads, writes, out, temp, cur>>
        /\ pos' = pos + 1 /\ pos \notin Entries(trace)
    BY <1>2 DEF SkipBlank, Running, Entries
  <2>2. Entries(trace)' = Entries(trace) /\ windows' = windows
    BY <2>1, SameJob
  <2>3. Todo' = Todo /\ Open' = Open
    BY <1>1, <2>1, <2>2 DEF Todo, Open
  <2> QED
    BY <2>1, <2>3, NothingMoves, BufferSteps
<1>3. CASE ReadEntry \/ EndOfTrace
  <2>1. /\ job' = job /\ Running /\ Running' /\ pos' = pos
        /\ UNCHANGED <<active, reads, writes, out, temp, cur>>
    BY <1>3 DEF ReadEntry, EndOfTrace, Running
  <2>2. Todo' = Todo /\ Open' = Open
    BY <2>1, SameJob DEF Todo, Open
  <2> QED
    BY <2>1, <2>2, NothingMoves, BufferSteps
<1>4. CASE FlushPassed \/ FlushTail
  <2>1. /\ Running /\ cur \in 1 .. NWindows /\ FlushWindow
        /\ (pc = "line" /\ cur < next) \/ pc = "tail"
    BY <1>1, <1>4 DEF FlushPassed, FlushTail, Running
  <2>2. temp[windows[cur].id] = Open
    BY <1>1, <2>1, LeftNotFlushed DEF Open
  <2> QED
    BY <2>1, <2>2, FlushDrains, BufferSteps
<1>5. CASE PlaceEntry
  BY <1>5, PlaceTakes, BufferSteps
<1>6. CASE Finish
  <2>1. ~ active
    BY <1>1, <1>6 DEF Finish, TypeOK
  <2>2. /\ job' = job /\ Running /\ Running' /\ pos' = pos
        /\ UNCHANGED <<active, reads, writes, out>> /\ Open' = Open
    BY <1>6, <2>1 DEF Finish, Running, Open
  <2>3. Todo' = Todo
    BY <2>2, SameJob DEF Todo
  <2> QED
    BY <2>2, <2>3, NothingMoves, BufferSteps
<1>7. CASE Kill
  <2>1. job' = job /\ ~ Running'
    BY <1>7 DEF Kill, Running
  <2>2. Afresh
    BY <2>1, SameJob DEF Afresh, Todo, NotSent, Sent
  <2> QED
    BY <2>2, BufferSteps
<1>8. CASE Start(job)
  <2>1. /\ job' = job /\ Running' /\ pos' = 1 /\ ~ active' /\ reads' = {} /\ writes' = {}
        /\ out' = << >>
    BY <1>8 DEF Start, Running
  <2>2. Entries(trace)' = Entries(trace) /\ Todo' = Entries(trace)
    BY <1>1, <2>1, SameJob DEF Todo
  <2>3. NotSent' = {} /\ Sent' = << >>
    BY <2>1 DEF NotSent, Held, Spilled, Sent, Numbers
  <2>4. Afresh
    BY <2>2, <2>3 DEF Afresh
  <2> QED
    BY <2>4, BufferSteps
<1>9. CASE UNCHANGED vars
  <2>1. Same
    BY <1>9 DEF vars, Same, Todo, NotSent, Sent, Numbers, Held, Spilled, Idxs, Running,
                Entries, trace, windows
  <2> QED
    BY <2>1, BufferSteps
<1> QED
  BY <1>2, <1>3, <1>4, <1>5, <1>6, <1>7, <1>8, <1>9 DEF Next, Step, Stopped

\* The rewriter starts as Buffer does, with every entry still to be taken.
LEMMA InitRefines == Init => Buffer!Init
<1> SUFFICES ASSUME Init PROVE Buffer!Init
  OBVIOUS
<1>1. Len(trace) \in Nat
  BY JobFacts DEF Init
<1>2. Entries(trace) \in SUBSET Nat /\ \A i \in Entries(trace) : i >= 1
  BY <1>1 DEF Entries
<1>3. Running /\ pos = 1 /\ Held = {} /\ out = << >>
  BY DEF Init, FirstStart, Running, Held, Spilled
<1> QED
  BY <1>2, <1>3 DEF Buffer!Init, Buffer!Fresh

\* The streaming rewriter keeps the promise of a buffering rewriter, whatever its
\* input and however often it is killed: every entry is taken once and in order, and
\* a flush sends exactly what is held (rewrite_streaming, flush_window).
THEOREM Implementation == Spec => ImplementsWindowBuffer
BY InitRefines, StepRefines, Invariance, PTL
   DEF Spec, ImplementsWindowBuffer, Buffer!Spec

(***************************************************************************)
(* The order in which the lines of a trace in cycle order are written: the *)
(* output is in cycle order too, and the dependences between g_cells       *)
(* requests that the model promises to keep are kept.                      *)
(*                                                                         *)
(* Neither is inductive.  A flush writes lines that were held while others *)
(* were passed through, so it must be known how the held lines lie         *)
(* relative to what is already in the output (Ordered).                    *)
(***************************************************************************)

\* Line j depends on line i, and the rewriter promises to keep the two in order.
Depends(i, j) ==
  /\ i < j /\ trace[i].addr = trace[j].addr
  /\ Buffered(trace[i]) /\ Buffered(trace[j])
  /\ "WRITE" \in {trace[i].op, trace[j].op}
  /\ trace[j].op = "READ" => ~ SameWindow(i, j)

DependencesInOrder(lines) ==
  \A k, m \in DOMAIN lines : Depends(lines[k].idx, lines[m].idx) => k < m

\* A cycle in the output is not after the current window's begin, nor after all
\* the lines that were read.
Past(cycle) ==
  /\ cur <= NWindows => cycle <= windows[cur].begin
  /\ \E j \in Entries(trace) : j < pos /\ cycle <= trace[j].cycle

\* A line of the open file is as it was read, lies in the current window, and is
\* no request that is buffered.
Aside(line) ==
  /\ line.idx \in Entries(trace) /\ line.idx < pos
  /\ line.cycle = trace[line.idx].cycle
  /\ InWindow(windows[cur], line.cycle)
  /\ ~ Buffered(trace[line.idx])

\* How what is held lies to what is written.
Ordered ==
  /\ InCycleOrder(out) /\ \A k \in DOMAIN out : Past(out[k].cycle)
  /\ InCycleOrder(Open) /\ \A k \in DOMAIN Open : Aside(Open[k])
  /\ \A i \in reads \cup writes : FallsIn(i, cur) /\ \A j \in Idxs(out) : j < i
  /\ \A i \in reads : trace[i].op = "READ"
  /\ DependencesInOrder(out)

OrderInv == Running /\ InCycleOrder(trace) => Ordered
-----------------------------------------------------------------------------
(***************************************************************************)
(* Lists put together.                                                     *)
(***************************************************************************)

\* Where the lines of two lists are when the lists are put together.
LEMMA ConcatParts ==
  ASSUME NEW s \in Seq(OutLine), NEW t \in Seq(OutLine)
  PROVE  /\ DOMAIN s = 1 .. Len(s) /\ Len(s) \in Nat
         /\ DOMAIN t = 1 .. Len(t) /\ Len(t) \in Nat
         /\ DOMAIN (s \o t) = 1 .. Len(s) + Len(t) /\ Len(s \o t) = Len(s) + Len(t)
         /\ \A i \in DOMAIN s : (s \o t)[i] = s[i]
         /\ \A i \in DOMAIN (s \o t) :
              \/ i \in DOMAIN s
              \/ i > Len(s) /\ i - Len(s) \in DOMAIN t /\ (s \o t)[i] = t[i - Len(s)]
BY LenProperties, ConcatProperties

\* Two lists in cycle order, the first before the second, are in cycle order.
LEMMA ConcatCycles ==
  ASSUME NEW s \in Seq(OutLine), NEW t \in Seq(OutLine),
         InCycleOrder(s), InCycleOrder(t),
         \A k \in DOMAIN s, m \in DOMAIN t : s[k].cycle <= t[m].cycle
  PROVE  InCycleOrder(s \o t)
<1>1. SUFFICES ASSUME NEW i \in 1 .. Len(s \o t), NEW j \in 1 .. Len(s \o t), i < j
               PROVE  (s \o t)[i].cycle <= (s \o t)[j].cycle
  BY DEF InCycleOrder
<1>2. i \in DOMAIN (s \o t) /\ j \in DOMAIN (s \o t) /\ Len(s) \in Nat
  BY ConcatParts
<1>3. CASE i \in DOMAIN s /\ j \in DOMAIN s
  <2>1. (s \o t)[i] = s[i] /\ (s \o t)[j] = s[j] /\ DOMAIN s = 1 .. Len(s)
    BY <1>3, ConcatParts
  <2> QED
    BY <1>1, <1>3, <2>1 DEF InCycleOrder
<1>4. CASE i \in DOMAIN s /\ j \notin DOMAIN s
  BY <1>2, <1>4, ConcatParts
<1>5. CASE i \notin DOMAIN s
  <2>1. j \notin DOMAIN s
    BY <1>1, <1>2, <1>5, ConcatParts
  <2>2. /\ i - Len(s) \in 1 .. Len(t) /\ (s \o t)[i] = t[i - Len(s)]
        /\ j - Len(s) \in 1 .. Len(t) /\ (s \o t)[j] = t[j - Len(s)]
    BY <1>2, <1>5, <2>1, ConcatParts
  <2>3. i - Len(s) < j - Len(s)
    BY <1>1, <1>2
  <2> QED
    BY <2>2, <2>3 DEF InCycleOrder
<1> QED
  BY <1>3, <1>4, <1>5

\* Two lists that keep the dependences do so together if none of the first list's
\* lines depends on one of the second's.
LEMMA ConcatDependences ==
  ASSUME NEW s \in Seq(OutLine), NEW t \in Seq(OutLine),
         DependencesInOrder(s), DependencesInOrder(t),
         \A i \in Idxs(s), j \in Idxs(t) : ~ Depends(j, i)
  PROVE  DependencesInOrder(s \o t)
<1>1. SUFFICES ASSUME NEW k \in DOMAIN (s \o t), NEW m \in DOMAIN (s \o t),
                      Depends((s \o t)[k].idx, (s \o t)[m].idx)
               PROVE  k < m
  BY DEF DependencesInOrder
<1>2. CASE k \in DOMAIN s /\ m \in DOMAIN s
  <2>1. (s \o t)[k] = s[k] /\ (s \o t)[m] = s[m]
    BY <1>2, ConcatParts
  <2> QED
    BY <1>1, <1>2, <2>1 DEF DependencesInOrder
<1>3. CASE k \in DOMAIN s /\ m \notin DOMAIN s
  BY <1>3, ConcatParts
<1>4. CASE k \notin DOMAIN s /\ m \in DOMAIN s
  <2>1. /\ k - Len(s) \in DOMAIN t /\ (s \o t)[k] = t[k - Len(s)]
        /\ (s \o t)[m] = s[m]
    BY <1>4, ConcatParts
  <2>2. t[k - Len(s)].idx \in Idxs(t) /\ s[m].idx \in Idxs(s)
    BY <1>4, <2>1 DEF Idxs
  <2> QED
    BY <1>1, <2>1, <2>2
<1>5. CASE k \notin DOMAIN s /\ m \notin DOMAIN s
  <2>1. /\ k - Len(s) \in DOMAIN t /\ (s \o t)[k] = t[k - Len(s)]
        /\ m - Len(s) \in DOMAIN t /\ (s \o t)[m] = t[m - Len(s)]
        /\ k \in Int /\ m \in Int /\ Len(s) \in Int
    BY <1>5, ConcatParts
  <2>2. k - Len(s) < m - Len(s)
    BY <1>1, <2>1 DEF DependencesInOrder
  <2> QED
    BY <2>1, <2>2
<1> QED
  BY <1>2, <1>3, <1>4, <1>5
-----------------------------------------------------------------------------
(***************************************************************************)
(* A trace in cycle order.                                                 *)
(***************************************************************************)

\* The windows of a job follow each other.
LEMMA WindowsFollow ==
  ASSUME job \in Jobs
  PROVE  \A k, m \in 1 .. NWindows : k < m => windows[k].end <= windows[m].begin
BY JobsAssumption DEF windows, NWindows, Successive

\* A later entry has no earlier cycle.
LEMMA LaterEntry ==
  ASSUME job \in Jobs, InCycleOrder(trace),
         NEW i \in Entries(trace), NEW j \in Entries(trace), i <= j
  PROVE  trace[i].cycle <= trace[j].cycle
<1>1. i \in 1 .. Len(trace) /\ j \in 1 .. Len(trace) /\ trace[i].cycle \in Nat
      /\ Len(trace) \in Nat
  BY JobFacts
<1>2. CASE i = j
  BY <1>1, <1>2
<1>3. CASE i < j
  BY <1>1, <1>3 DEF InCycleOrder
<1> QED
  BY <1>1, <1>2, <1>3

\* A line that falls in window k is in that window, and in none before it.
LEMMA FallsInWindow ==
  ASSUME job \in Jobs, InCycleOrder(trace), NEW k \in 1 .. NWindows, NEW i, FallsIn(i, k)
  PROVE  InWindow(windows[k], trace[i].cycle) /\ IsWindowForCycle(windows, trace[i].cycle, k)
<1>1. /\ i \in Entries(trace) /\ trace[i].cycle \in Nat /\ i \in Nat
      /\ NWindows \in Nat /\ \A m \in 1 .. NWindows : windows[m].end \in Nat
      /\ \A j \in Entries(trace) : trace[j].cycle \in Nat
  BY JobFacts DEF FallsIn
<1>2. InWindow(windows[k], trace[i].cycle)
  BY <1>1 DEF FallsIn, InWindow
<1>3. ASSUME NEW m \in 1 .. k - 1 PROVE ~ InWindow(windows[m], trace[i].cycle)
  <2>1. PICK j \in Entries(trace) : j <= i /\ trace[j].cycle > windows[m].end
    BY DEF FallsIn
  <2>2. trace[j].cycle <= trace[i].cycle
    BY <1>1, <2>1, LaterEntry
  <2>3. m \in 1 .. NWindows
    BY <1>1
  <2>4. trace[j].cycle \in Nat /\ trace[i].cycle \in Nat /\ windows[m].end \in Nat
    BY <1>1, <2>1, <2>3
  <2>5. ~ (trace[i].cycle <= windows[m].end)
    BY <2>1, <2>2, <2>4
  <2> QED
    BY <2>5 DEF InWindow
<1> QED
  BY <1>2, <1>3 DEF IsWindowForCycle

\* While the input stays the same, so do its dependences.
LEMMA SameDepends ==
  ASSUME job' = job
  PROVE  \A i, j : Depends(i, j)' <=> Depends(i, j)
BY SameJob DEF Depends, Buffered, IsGcell, SameWindow, IsWindowForCycle, InWindow

\* A step that moves no line and does not move to another window.
LEMMA NothingReordered ==
  ASSUME TypeOK, OrderInv, job' = job, Running, pos' \in Nat, pos <= pos', cur' = cur,
         UNCHANGED <<reads, writes, out>>, Open' = Open
  PROVE  OrderInv'
<1>1. /\ trace' = trace /\ windows' = windows /\ NWindows' = NWindows
      /\ Entries(trace)' = Entries(trace)
      /\ \A i, k : FallsIn(i, k)' <=> FallsIn(i, k)
  BY SameJob
<1>2. /\ pos \in Nat /\ \A j \in Entries(trace) : j \in Nat
  BY JobFacts DEF TypeOK
<1> SUFFICES ASSUME InCycleOrder(trace) PROVE Ordered'
  BY <1>1 DEF OrderInv, InCycleOrder
<1>3. Ordered
  BY DEF OrderInv
<1>4. \A c : Past(c) => Past(c)'
  BY <1>1, <1>2 DEF Past
<1>5. \A l : Aside(l) => Aside(l)'
  BY <1>1, <1>2 DEF Aside, Buffered, IsGcell, InWindow
<1>6. \A i, j : Depends(i, j)' <=> Depends(i, j)
  BY SameDepends
<1>7. InCycleOrder(out)' /\ \A k \in DOMAIN out' : Past(out[k].cycle)'
  BY <1>3, <1>4 DEF Ordered, InCycleOrder
<1>8. InCycleOrder(Open)' /\ \A k \in DOMAIN Open' : Aside(Open[k])'
  BY <1>3, <1>5 DEF Ordered, InCycleOrder
<1>9. /\ \A i \in reads' \cup writes' : FallsIn(i, cur)' /\ \A j \in Idxs(out)' : j < i
      /\ \A i \in reads' : trace'[i].op = "READ"
  BY <1>1, <1>3 DEF Ordered, Idxs
<1>10. DependencesInOrder(out)'
  BY <1>3, <1>6 DEF Ordered, DependencesInOrder
<1> QED
  BY <1>7, <1>8, <1>9, <1>10 DEF Ordered
-----------------------------------------------------------------------------
(***************************************************************************)
(* A flush.                                                                *)
(***************************************************************************)

\* A phase of a burst is all at one cycle, and sorting by address and then by
\* number keeps the requests to one address in their order.
LEMMA PhaseOrder ==
  ASSUME TypeOK, cur \in 1 .. NWindows, NEW S \in SUBSET (1 .. Len(trace)),
         NEW p \in Sorted(trace, S)
  PROVE  /\ \A k \in DOMAIN Phase(p) : Phase(p)[k].cycle = windows[cur].begin
         /\ InCycleOrder(Phase(p)) /\ DependencesInOrder(Phase(p))
<1>1. /\ p \in [1 .. Cardinality(S) -> S]
      /\ \A k, m \in DOMAIN p : k < m => Before(trace, p[k], p[m])
  BY DEF Sorted, Arrangements
<1>2. /\ p \in Seq(S) /\ DOMAIN p = 1 .. Len(p) /\ Len(p) \in Nat
  BY SortedFacts DEF TypeOK
<1>3. /\ DOMAIN Phase(p) = 1 .. Len(p) /\ Len(Phase(p)) = Len(p)
      /\ \A k \in 1 .. Len(p) : Phase(p)[k] = Written(p[k], windows[cur].begin)
  BY <1>2, PhaseFacts
<1>4. ASSUME NEW k \in 1 .. Len(p)
      PROVE  Phase(p)[k].idx = p[k] /\ Phase(p)[k].cycle = windows[cur].begin
  <2>1. Phase(p)[k] = [run |-> run, idx |-> p[k], cycle |-> windows[cur].begin]
    BY <1>3 DEF Written
  <2> QED
    BY <2>1
<1>5. InCycleOrder(Phase(p))
  <2>1. windows[cur].begin \in Nat
    BY JobFacts DEF TypeOK
  <2> QED
    BY <1>3, <1>4, <2>1 DEF InCycleOrder
<1>6. ASSUME NEW k \in 1 .. Len(p), NEW m \in 1 .. Len(p), Depends(p[k], p[m])
      PROVE  k < m
  <2>1. /\ p[k] < p[m] /\ trace[p[k]].addr = trace[p[m]].addr
    BY <1>6 DEF Depends
  <2>2. /\ p[k] \in 1 .. Len(trace) /\ p[m] \in 1 .. Len(trace) /\ Len(trace) \in Nat
        /\ trace[p[k]].addr \in Nat /\ trace[p[m]].addr \in Nat
    <3>1. p[k] \in 1 .. Len(trace) /\ p[m] \in 1 .. Len(trace)
      BY <1>1, <1>2
    <3>2. Len(trace) \in Nat /\ \A i \in 1 .. Len(trace) : trace[i].addr \in Nat
      BY JobTypes DEF TypeOK, Line
    <3> QED
      BY <3>1, <3>2
  <2>3. ~ Before(trace, p[m], p[k])
    BY <2>1, <2>2 DEF Before
  <2>4. ~ (m < k)
    BY <1>1, <1>2, <2>3
  <2>5. k # m
    BY <2>1, <2>2
  <2> QED
    BY <1>2, <2>4, <2>5
<1>7. DependencesInOrder(Phase(p))
  BY <1>3, <1>4, <1>6 DEF DependencesInOrder
<1> QED
  BY <1>3, <1>4, <1>5, <1>7

\* No read of a window depends on a write of it, as the model sees it: both are
\* in the same window.
LEMMA ReadsFirst ==
  ASSUME TypeOK, cur \in 1 .. NWindows, InCycleOrder(trace), Ordered,
         NEW i \in reads, NEW j \in writes
  PROVE  ~ Depends(j, i)
<1>1. /\ IsWindowForCycle(windows, trace[i].cycle, cur)
      /\ IsWindowForCycle(windows, trace[j].cycle, cur)
  BY FallsInWindow DEF Ordered, TypeOK
<1>2. SameWindow(j, i) /\ trace[i].op = "READ"
  BY <1>1 DEF SameWindow, Ordered
<1> QED
  BY <1>2 DEF Depends

\* A flush keeps the output and what is held in order.
LEMMA FlushOrder ==
  ASSUME Inv, OrderInv, Running, cur \in 1 .. NWindows, FlushWindow,
         temp[windows[cur].id] = Open
  PROVE  OrderInv'
<1>1. /\ TypeOK /\ PlaceInv /\ NWindows \in Nat
      /\ \A k \in 1 .. NWindows : /\ windows[k].begin \in Nat /\ windows[k].end \in Nat
                                  /\ windows[k].begin <= windows[k].end
      /\ \A k, m \in 1 .. NWindows : k < m => windows[k].end <= windows[m].begin
      /\ \A i \in Entries(trace) : i \in Nat /\ trace[i].cycle \in Nat
  <2>1. TypeOK
    BY DEF Inv
  <2> QED
    BY <2>1, JobFacts, WindowsFollow DEF Inv, TypeOK
<1>2. PICK r \in Sorted(trace, reads), w \in Sorted(trace, writes) :
        out' = out \o Burst(r, w) \o Open
  BY DEF FlushWindow
<1>3. /\ job' = job /\ pos' = pos /\ cur' = cur + 1 /\ ~ active' /\ reads' = {} /\ writes' = {}
  BY DEF FlushWindow
<1>4. /\ trace' = trace /\ windows' = windows /\ NWindows' = NWindows
      /\ Entries(trace)' = Entries(trace)
  BY <1>3, SameJob
<1> SUFFICES ASSUME InCycleOrder(trace) PROVE Ordered'
  BY <1>4 DEF OrderInv, InCycleOrder
<1>5. Ordered
  BY DEF OrderInv
<1>6. /\ Phase(r) \in Seq(OutLine) /\ Idxs(Phase(r)) = reads
      /\ Phase(w) \in Seq(OutLine) /\ Idxs(Phase(w)) = writes
  BY <1>1, PhaseLines DEF TypeOK
<1>7. /\ \A k \in DOMAIN Phase(r) : Phase(r)[k].cycle = windows[cur].begin
      /\ \A k \in DOMAIN Phase(w) : Phase(w)[k].cycle = windows[cur].begin
      /\ InCycleOrder(Phase(r)) /\ DependencesInOrder(Phase(r))
      /\ InCycleOrder(Phase(w)) /\ DependencesInOrder(Phase(w))
  BY <1>1, PhaseOrder DEF TypeOK
<1>8. /\ out \in Seq(OutLine) /\ Open \in Seq(OutLine)
      /\ \A k \in DOMAIN out : out[k].cycle \in Nat
      /\ \A k \in DOMAIN Open : Open[k].cycle \in Nat
  <2>1. out \in Seq(OutLine) /\ Open \in Seq(OutLine)
    BY <1>1, JobFacts DEF TypeOK, Open
  <2>2. ASSUME NEW s \in Seq(OutLine), NEW k \in DOMAIN s PROVE s[k].cycle \in Nat
    <3>1. s[k] \in OutLine
      BY <2>2
    <3> QED
      BY <3>1 DEF OutLine
  <2> QED
    BY <2>1, <2>2
<1> DEFINE burst == Burst(r, w)
<1>9. /\ burst \in Seq(OutLine) /\ Idxs(burst) = reads \cup writes
      /\ \A k \in DOMAIN burst : burst[k].cycle = windows[cur].begin
      /\ InCycleOrder(burst) /\ DependencesInOrder(burst)
  <2>1. burst \in Seq(OutLine) /\ Idxs(burst) = reads \cup writes
    BY <1>6, ConcatLines DEF Burst
  <2>2. \A k \in DOMAIN burst : burst[k].cycle = windows[cur].begin
    BY <1>6, <1>7, ConcatParts DEF Burst
  <2>3. InCycleOrder(burst)
    BY <1>1, <1>6, <1>7, ConcatCycles DEF Burst
  <2>4. DependencesInOrder(burst)
    BY <1>1, <1>5, <1>6, <1>7, ReadsFirst, ConcatDependences DEF Burst
  <2> QED
    BY <2>1, <2>2, <2>3, <2>4
<1> HIDE DEF burst
<1> DEFINE sent == out \o burst
<1>10. /\ sent \in Seq(OutLine) /\ Idxs(sent) = Idxs(out) \cup reads \cup writes
       /\ \A k \in DOMAIN sent : sent[k].cycle \in Nat /\ sent[k].cycle <= windows[cur].begin
       /\ InCycleOrder(sent) /\ DependencesInOrder(sent)
  <2>1. sent \in Seq(OutLine) /\ Idxs(sent) = Idxs(out) \cup reads \cup writes
    BY <1>8, <1>9, ConcatLines
  <2>2. \A k \in DOMAIN out : out[k].cycle <= windows[cur].begin
    BY <1>1, <1>5 DEF Ordered, Past
  <2>3. \A k \in DOMAIN sent : sent[k].cycle \in Nat /\ sent[k].cycle <= windows[cur].begin
    BY <1>1, <1>8, <1>9, <2>2, ConcatParts
  <2>4. InCycleOrder(sent)
    BY <1>5, <1>8, <1>9, <2>2, ConcatCycles DEF Ordered
  <2>5. ASSUME NEW i \in Idxs(out), NEW j \in Idxs(burst) PROVE ~ Depends(j, i)
    <3>1. i < j /\ j \in Entries(trace) /\ i \in Entries(trace)
      BY <1>1, <1>5, <1>9 DEF Ordered, PlaceInv, Consumed
    <3> QED
      BY <1>1, <3>1 DEF Depends
  <2>6. DependencesInOrder(sent)
    BY <1>5, <1>8, <1>9, <2>5, ConcatDependences DEF Ordered
  <2> QED
    BY <2>1, <2>3, <2>4, <2>6
<1>11. \* Each line sent has a line behind it that was read.
       \A k \in DOMAIN sent : \E j \in Entries(trace) : j < pos /\ sent[k].cycle <= trace[j].cycle
  <2>1. \A k \in DOMAIN out : \E j \in Entries(trace) : j < pos /\ out[k].cycle <= trace[j].cycle
    BY <1>5 DEF Ordered, Past
  <2>2. ASSUME NEW k \in DOMAIN burst
        PROVE  \E j \in Entries(trace) : j < pos /\ burst[k].cycle <= trace[j].cycle
    <3>1. burst[k].idx \in reads \cup writes
      BY <1>9 DEF Idxs
    <3>2. FallsIn(burst[k].idx, cur) /\ burst[k].idx \in Consumed
      BY <1>1, <1>5, <3>1 DEF Ordered, PlaceInv
    <3> QED
      BY <1>9, <3>2 DEF FallsIn, Consumed
  <2>3. ASSUME NEW k \in DOMAIN sent
        PROVE  \/ k \in DOMAIN out /\ sent[k] = out[k]
               \/ \E m \in DOMAIN burst : sent[k] = burst[m]
    BY <1>8, <1>9, ConcatParts
  <2> HIDE DEF sent
  <2> QED
    BY <2>1, <2>2, <2>3
<1>12. out' = sent \o Open
  BY <1>2 DEF burst
<1> HIDE DEF sent
<1>13. InCycleOrder(out')
  <2>1. \A m \in DOMAIN Open : windows[cur].begin <= Open[m].cycle
    BY <1>5 DEF Ordered, Aside, InWindow
  <2>2. \A k \in DOMAIN sent, m \in DOMAIN Open : sent[k].cycle <= Open[m].cycle
    BY <1>1, <1>8, <1>10, <2>1
  <2>3. InCycleOrder(Open)
    BY <1>5 DEF Ordered
  <2> QED
    BY <1>8, <1>10, <1>12, <2>2, <2>3, ConcatCycles
<1>14. ASSUME NEW k \in DOMAIN out' PROVE Past(out[k].cycle)'
  <2>1. CASE k \in DOMAIN sent /\ out'[k] = sent[k]
    <3>1. sent[k].cycle \in Nat /\ sent[k].cycle <= windows[cur].begin
      BY <1>10, <2>1
    <3>2. \E j \in Entries(trace) : j < pos /\ sent[k].cycle <= trace[j].cycle
      BY <1>11, <2>1
    <3>3. cur + 1 <= NWindows => sent[k].cycle <= windows[cur + 1].begin
      BY <1>1, <3>1
    <3> QED
      BY <1>3, <1>4, <2>1, <3>2, <3>3 DEF Past
  <2>2. ASSUME NEW m \in DOMAIN Open, out'[k] = Open[m]
        PROVE  Past(out[k].cycle)'
    <3>1. Aside(Open[m])
      BY <1>5 DEF Ordered
    <3>2. Open[m].cycle <= windows[cur].end
      BY <3>1 DEF Aside, InWindow
    <3>3. \E j \in Entries(trace) : j < pos /\ Open[m].cycle <= trace[j].cycle
      BY <1>1, <3>1 DEF Aside
    <3> QED
      BY <1>1, <1>3, <1>4, <1>8, <2>2, <3>2, <3>3 DEF Past
  <2> QED
    BY <1>8, <1>10, <1>12, <2>1, <2>2, ConcatParts
<1>15. DependencesInOrder(out')
  <2>1. \A j \in Idxs(Open) : ~ Buffered(trace[j])
    BY <1>5 DEF Ordered, Aside, Idxs
  <2>2. \A j \in Idxs(Open) : \A i : ~ Depends(j, i) /\ ~ Depends(i, j)
    BY <2>1 DEF Depends
  <2>3. DependencesInOrder(Open)
    BY <2>2 DEF DependencesInOrder, Idxs
  <2> QED
    BY <1>8, <1>10, <1>12, <2>2, <2>3, ConcatDependences
<1>16. DependencesInOrder(out)'
  <2>1. \A i, j : Depends(i, j)' <=> Depends(i, j)
    BY <1>3, SameDepends
  <2> QED
    BY <1>15, <2>1 DEF DependencesInOrder
<1>17. Open' = << >>
  BY <1>3 DEF Open
<1> QED
  BY <1>3, <1>13, <1>14, <1>16, <1>17 DEF Ordered, InCycleOrder
-----------------------------------------------------------------------------
(***************************************************************************)
(* A line placed.                                                          *)
(***************************************************************************)

\* A list of one line.
LEMMA OneLineOrder ==
  ASSUME NEW i, NEW c \in Nat
  PROVE  /\ DOMAIN <<Written(i, c)>> = {1}
         /\ \A k \in DOMAIN <<Written(i, c)>> :
              <<Written(i, c)>>[k].idx = i /\ <<Written(i, c)>>[k].cycle = c
         /\ InCycleOrder(<<Written(i, c)>>)
BY DEF Written, InCycleOrder

\* Where the line at pos lies: never after the current window, and if lines are
\* held, in it.
LEMMA PlacedWhere ==
  ASSUME Inv, InCycleOrder(trace), Ordered, pc = "line", cur = next
  PROVE  /\ cur <= NWindows => trace[pos].cycle <= windows[cur].end
         /\ \A j \in Consumed : j < pos /\ trace[j].cycle <= trace[pos].cycle
         /\ reads \cup writes # {} => InCurrent(trace[pos].cycle)
<1>1. /\ TypeOK /\ CursorInv /\ PlaceInv /\ NWindows \in Nat /\ job \in Jobs
      /\ \A i \in Entries(trace) : i \in Nat /\ trace[i].cycle \in Nat
      /\ \A k \in 1 .. NWindows : windows[k].begin \in Nat /\ windows[k].end \in Nat
      /\ pos \in Entries(trace) /\ (active => cur \in 1 .. NWindows)
  <2>1. TypeOK /\ job \in Jobs
    BY DEF Inv, TypeOK
  <2> QED
    BY <2>1, JobFacts DEF Inv, TypeOK
<1>2. cur <= NWindows => trace[pos].cycle <= windows[cur].end
  <2>1. Goal = cur /\ pos \in Seen
    BY <1>1 DEF Goal, Seen
  <2> QED
    BY <1>1, <2>1 DEF CursorInv
<1>3. ASSUME NEW j \in Consumed PROVE j < pos /\ trace[j].cycle <= trace[pos].cycle
  <2>1. j \in Entries(trace) /\ j < pos /\ j <= pos
    BY <1>1 DEF Consumed
  <2> QED
    BY <1>1, <2>1, LaterEntry
<1>4. ASSUME NEW i \in reads \cup writes PROVE InCurrent(trace[pos].cycle)
  <2>1. Running
    BY DEF Running
  <2>2. /\ i \in Consumed /\ i \in Entries(trace) /\ FallsIn(i, cur) /\ cur \in 1 .. NWindows
    BY <1>1, <2>1 DEF PlaceInv, Ordered, FallsIn
  <2>3. windows[cur].begin <= trace[i].cycle /\ trace[i].cycle <= trace[pos].cycle
    BY <1>3, <2>2 DEF FallsIn
  <2>4. windows[cur].begin <= trace[pos].cycle /\ trace[pos].cycle <= windows[cur].end
    BY <1>1, <1>2, <2>2, <2>3
  <2> QED
    BY <1>1, <2>2, <2>4 DEF InCurrent, InWindow
<1> QED
  BY <1>2, <1>3, <1>4

\* Placing a line keeps the output and what is held in order.
LEMMA PlaceOrder ==
  ASSUME Inv, OrderInv, PlaceEntry
  PROVE  OrderInv'
<1> USE DEF buffer
<1>1. /\ TypeOK /\ CursorInv /\ PlaceInv /\ NWindows \in Nat /\ job \in Jobs
      /\ \A i \in Entries(trace) : i \in Nat \ {0} /\ trace[i].cycle \in Nat
      /\ \A k \in 1 .. NWindows : /\ windows[k].begin \in Nat /\ windows[k].end \in Nat
                                  /\ windows[k].id \in WindowIds
      /\ temp \in [WindowIds -> Seq(OutLine)] /\ out \in Seq(OutLine)
      /\ run \in 1 .. MaxRuns /\ cur \in 1 .. NWindows + 1 /\ (active => cur \in 1 .. NWindows)
  <2>1. TypeOK /\ job \in Jobs
    BY DEF Inv, TypeOK
  <2> QED
    BY <2>1, JobFacts DEF Inv, TypeOK
<1>2. /\ pc = "line" /\ pc' = "read" /\ pos' = pos + 1 /\ cur' = cur /\ cur = next
      /\ job' = job /\ run' = run /\ pos \in Entries(trace) /\ Running
  BY <1>1 DEF PlaceEntry, BufferEntry, SpillEntry, PassEntry, Placing, TypeOK, Running
<1>3. /\ trace' = trace /\ windows' = windows /\ NWindows' = NWindows
      /\ Entries(trace)' = Entries(trace)
      /\ \A i, k : FallsIn(i, k)' <=> FallsIn(i, k)
      /\ \A i, j : Depends(i, j)' <=> Depends(i, j)
  BY <1>2, SameJob, SameDepends
<1> SUFFICES ASSUME InCycleOrder(trace) PROVE Ordered'
  BY <1>2, <1>3 DEF OrderInv, InCycleOrder
<1>4. Ordered
  BY <1>2 DEF OrderInv
<1> DEFINE c == trace[pos].cycle  line == Written(pos, c)
<1>5. /\ c \in Nat /\ line \in OutLine /\ <<line>> \in Seq(OutLine) /\ Idxs(<<line>>) = {pos}
      /\ \A k \in DOMAIN <<line>> : <<line>>[k].idx = pos /\ <<line>>[k].cycle = c
      /\ InCycleOrder(<<line>>)
  <2>1. c \in Nat
    BY <1>1, <1>2
  <2>2. line \in OutLine
    BY <1>1, <1>2, <2>1 DEF Written, OutLine
  <2> QED
    BY <2>1, <2>2, OneLine, OneLineOrder
<1>6. /\ cur <= NWindows => c <= windows[cur].end
      /\ \A j \in Consumed : j < pos /\ trace[j].cycle <= c
      /\ reads \cup writes # {} => InCurrent(c)
  BY <1>2, <1>4, PlacedWhere
<1>7. /\ OpenTemp = Open /\ Open \in Seq(OutLine)
      /\ Idxs(out) \subseteq Consumed /\ reads \cup writes \subseteq Consumed
  BY <1>1, <1>2 DEF OpenTemp, Open, PlaceInv
<1>8. /\ \A d : Past(d) => Past(d)'
      /\ \A l : Aside(l) => Aside(l)'
  <2>1. \A j \in Entries(trace) : j < pos => j < pos'
    BY <1>1, <1>2
  <2> QED
    BY <1>2, <1>3, <2>1 DEF Past, Aside, Buffered, IsGcell, InWindow
<1> HIDE DEF c, line
<1>9. ASSUME out' = out PROVE
        /\ InCycleOrder(out)' /\ \A k \in DOMAIN out' : Past(out[k].cycle)'
        /\ DependencesInOrder(out)' /\ Idxs(out)' = Idxs(out)
  BY <1>3, <1>4, <1>8, <1>9 DEF Ordered, InCycleOrder, DependencesInOrder, Idxs
<1>10. ASSUME Open' = Open PROVE
         InCycleOrder(Open)' /\ \A k \in DOMAIN Open' : Aside(Open[k])'
  BY <1>4, <1>8, <1>10 DEF Ordered, InCycleOrder
<1>11. ASSUME InCurrent(c) PROVE cur \in 1 .. NWindows /\ FallsIn(pos, cur)
  BY <1>1, <1>2, <1>11, PlacedFallsIn DEF c
<1>12. CASE BufferEntry(trace[pos])
  <2>1. /\ active' /\ out' = out /\ InCurrent(c)
        /\ temp' = [temp EXCEPT ![windows[cur].id] = OpenTemp]
        /\ reads' = IF trace[pos].op = "READ" THEN reads \cup {pos} ELSE reads
        /\ writes' = IF trace[pos].op = "WRITE" THEN writes \cup {pos} ELSE writes
    BY <1>12 DEF BufferEntry, c
  <2>2. Open' = Open
    BY <1>1, <1>2, <1>3, <1>7, <1>11, <2>1 DEF Open
  <2>3. /\ \A i \in reads' \cup writes' : FallsIn(i, cur) /\ \A j \in Idxs(out) : j < i
        /\ \A i \in reads' : trace[i].op = "READ"
    BY <1>4, <1>6, <1>7, <1>11, <2>1 DEF Ordered
  <2>4. /\ \A i \in reads' \cup writes' : FallsIn(i, cur)' /\ \A j \in Idxs(out)' : j < i
        /\ \A i \in reads' : trace'[i].op = "READ"
    BY <1>2, <1>3, <1>9, <2>1, <2>3
  <2> QED
    BY <1>9, <1>10, <2>1, <2>2, <2>4 DEF Ordered
<1>13. ASSUME reads' = reads, writes' = writes, Idxs(out)' = Idxs(out)
       PROVE  /\ \A i \in reads' \cup writes' : FallsIn(i, cur)' /\ \A j \in Idxs(out)' : j < i
              /\ \A i \in reads' : trace'[i].op = "READ"
  BY <1>2, <1>3, <1>4, <1>13 DEF Ordered
<1>14. CASE SpillEntry(trace[pos])
  <2>1. /\ active' /\ out' = out /\ InCurrent(c) /\ reads' = reads /\ writes' = writes
        /\ temp' = [temp EXCEPT ![windows[cur].id] = Append(OpenTemp, line)]
        /\ ~ Buffered(trace[pos])
    BY <1>14 DEF SpillEntry, c, line
  <2>2. Open' = Open \o <<line>>
    <3>1. Open' = temp'[windows[cur].id]
      BY <1>2, <1>3, <2>1 DEF Open
    <3>2. temp'[windows[cur].id] = Append(Open, line)
      BY <1>1, <1>7, <1>11, <2>1
    <3> QED
      BY <1>5, <1>7, <3>1, <3>2
  <2>3. \A k \in DOMAIN Open : Open[k].cycle <= c
    <3>1. ASSUME NEW k \in DOMAIN Open PROVE Open[k].cycle <= c
      <4>1. Open[k].idx \in Consumed /\ Open[k].cycle = trace[Open[k].idx].cycle
        BY <1>4 DEF Ordered, Aside, Consumed
      <4> QED
        BY <1>6, <4>1
    <3> QED
      BY <3>1
  <2>4. InCycleOrder(Open \o <<line>>)
    BY <1>4, <1>5, <1>7, <2>3, ConcatCycles DEF Ordered
  <2>5. \A l : l.idx = pos /\ l.cycle = c => Aside(l)'
    <3>1. pos < pos'
      BY <1>1, <1>2
    <3> QED
      BY <1>2, <1>3, <2>1, <3>1 DEF Aside, InCurrent, Buffered, IsGcell, InWindow, c
  <2>6. ASSUME NEW k \in DOMAIN Open' PROVE Aside(Open[k])'
    <3>1. \/ k \in DOMAIN Open /\ Open'[k] = Open[k]
          \/ Open'[k].idx = pos /\ Open'[k].cycle = c
      BY <1>5, <1>7, <2>2, ConcatParts
    <3> QED
      BY <1>4, <1>8, <2>5, <3>1 DEF Ordered
  <2>7. InCycleOrder(Open)'
    BY <2>2, <2>4 DEF InCycleOrder
  <2> QED
    BY <1>9, <1>13, <2>1, <2>6, <2>7 DEF Ordered
<1>15. CASE PassEntry(trace[pos])
  <2>1. /\ active' = active /\ reads' = reads /\ writes' = writes /\ temp' = temp
        /\ out' = out \o <<line>> /\ ~ InCurrent(c)
    BY <1>1, <1>5, <1>15 DEF PassEntry, c, line
  <2>2. Open' = Open
    BY <1>2, <1>3, <2>1 DEF Open
  <2>3. reads = {} /\ writes = {}
    BY <1>6, <2>1
  <2>4. ASSUME NEW d, d = c PROVE Past(d)'
    <3>1. cur <= NWindows => c <= windows[cur].begin
      BY <1>1, <1>5, <1>6, <2>1 DEF InCurrent, InWindow
    <3>2. pos < pos' /\ c <= trace[pos].cycle
      BY <1>1, <1>2, <1>5 DEF c
    <3> QED
      BY <1>2, <1>3, <2>4, <3>1, <3>2 DEF Past
  <2>5. ASSUME NEW k \in DOMAIN out' PROVE Past(out[k].cycle)'
    <3>1. \/ k \in DOMAIN out /\ out'[k] = out[k]
          \/ out'[k].cycle = c
      BY <1>1, <1>5, <2>1, ConcatParts
    <3> QED
      BY <1>4, <1>8, <2>4, <3>1 DEF Ordered
  <2>6. ASSUME NEW k \in DOMAIN out PROVE out[k].cycle <= c
    <3>1. PICK j \in Entries(trace) : j < pos /\ out[k].cycle <= trace[j].cycle
      BY <1>4 DEF Ordered, Past
    <3>2. trace[j].cycle <= c
      BY <1>6, <3>1 DEF Consumed
    <3>3. out[k].cycle \in Nat
      <4>1. out[k] \in OutLine
        BY <1>1
      <4> QED
        BY <4>1 DEF OutLine
    <3>4. c \in Nat /\ trace[j].cycle \in Nat
      BY <1>1, <1>5
    <3> QED
      BY <3>1, <3>2, <3>3, <3>4
  <2>7. InCycleOrder(out \o <<line>>)
    BY <1>1, <1>4, <1>5, <2>6, ConcatCycles DEF Ordered
  <2>8. InCycleOrder(out)'
    BY <2>1, <2>7 DEF InCycleOrder
  <2>9. DependencesInOrder(out \o <<line>>)
    <3>1. ASSUME NEW i \in Idxs(out), NEW j \in Idxs(<<line>>) PROVE ~ Depends(j, i)
      <4>1. i < pos /\ i \in Nat /\ j = pos /\ pos \in Nat
        BY <1>1, <1>2, <1>5, <1>6, <1>7 DEF Consumed
      <4> QED
        BY <4>1 DEF Depends
    <3>2. DependencesInOrder(<<line>>)
      <4>1. ~ Depends(pos, pos)
        BY <1>1, <1>2 DEF Depends
      <4> QED
        BY <1>5, <4>1 DEF DependencesInOrder
    <3> QED
      BY <1>1, <1>4, <1>5, <3>1, <3>2, ConcatDependences DEF Ordered
  <2>10. DependencesInOrder(out)'
    BY <1>3, <2>1, <2>9 DEF DependencesInOrder
  <2> QED
    BY <1>10, <2>1, <2>2, <2>3, <2>5, <2>8, <2>10 DEF Ordered
<1> QED
  BY <1>12, <1>14, <1>15 DEF PlaceEntry
-----------------------------------------------------------------------------
(***************************************************************************)
(* Every step.                                                             *)
(***************************************************************************)

\* A run starts with nothing written and nothing held.
LEMMA OrderInit == Init => OrderInv
<1> SUFFICES ASSUME Init PROVE Ordered
  BY DEF OrderInv
<1>1. out = << >> /\ Open = << >> /\ reads = {} /\ writes = {}
  BY DEF Init, FirstStart, Open
<1> QED
  BY <1>1 DEF Ordered, InCycleOrder, DependencesInOrder

\* Every step keeps the order.
LEMMA OrderNext == Inv /\ OrderInv /\ [Next]_vars => OrderInv'
<1> SUFFICES ASSUME Inv, OrderInv, [Next]_vars PROVE OrderInv'
  OBVIOUS
<1> USE DEF files, buffer
<1>1. /\ TypeOK /\ CursorInv /\ LeftInv
      /\ NWindows \in Nat /\ cur \in 1 .. NWindows + 1 /\ next \in 1 .. NWindows + 1
      /\ Len(trace) \in Nat /\ pos \in 1 .. Len(trace) + 1
  <2>1. TypeOK
    BY DEF Inv
  <2> QED
    BY <2>1, JobFacts DEF Inv, TypeOK
<1>2. CASE SkipBlank \/ ReadEntry \/ EndOfTrace
  <2>1. /\ job' = job /\ Running /\ pos' \in Nat /\ pos <= pos' /\ cur' = cur
        /\ UNCHANGED <<reads, writes, out, active, temp>>
    BY <1>1, <1>2 DEF SkipBlank, ReadEntry, EndOfTrace, Running
  <2>2. Open' = Open
    BY <2>1, SameJob DEF Open
  <2> QED
    BY <1>1, <2>1, <2>2, NothingReordered
<1>3. CASE FlushPassed \/ FlushTail
  <2>1. /\ Running /\ cur \in 1 .. NWindows /\ FlushWindow
        /\ (pc = "line" /\ cur < next) \/ pc = "tail"
    BY <1>1, <1>3 DEF FlushPassed, FlushTail, Running
  <2>2. temp[windows[cur].id] = Open
    BY <1>1, <2>1, LeftNotFlushed DEF Open
  <2> QED
    BY <2>1, <2>2, FlushOrder
<1>4. CASE PlaceEntry
  BY <1>4, PlaceOrder
<1>5. CASE Finish
  <2>1. ~ active
    BY <1>1, <1>5 DEF Finish, TypeOK
  <2>2. /\ job' = job /\ Running /\ pos' = pos /\ cur' = cur
        /\ UNCHANGED <<reads, writes, out>> /\ Open' = Open
    BY <1>5, <2>1 DEF Finish, Running, Open
  <2> QED
    BY <1>1, <2>2, NothingReordered
<1>6. CASE Kill
  BY <1>6 DEF Kill, OrderInv, Running
<1>7. CASE Start(job)
  <2>1. out' = << >> /\ Open' = << >> /\ reads' = {} /\ writes' = {}
    BY <1>7 DEF Start, Open
  <2> QED
    BY <2>1 DEF OrderInv, Ordered, InCycleOrder, DependencesInOrder
<1>8. CASE UNCHANGED vars
  <2>1. /\ job' = job /\ pos' = pos /\ cur' = cur /\ pc' = pc
        /\ UNCHANGED <<reads, writes, out, active, temp>>
    BY <1>8 DEF vars
  <2>2. Open' = Open
    BY <2>1, SameJob DEF Open
  <2>3. CASE Running
    BY <1>1, <2>1, <2>2, <2>3, NothingReordered
  <2>4. CASE ~ Running
    BY <2>1, <2>4 DEF OrderInv, Running
  <2> QED
    BY <2>3, <2>4
<1> QED
  BY <1>2, <1>3, <1>4, <1>5, <1>6, <1>7, <1>8 DEF Next, Step, Stopped

\* The order holds in every state of every run.
LEMMA OrderInvariance == Spec => []OrderInv
BY OrderInit, OrderNext, Invariance, PTL DEF Spec

\* The output of a trace in cycle order is in cycle order, although every window
\* is written in three parts: all reads, all writes, then what was spilled
\* (flush_window).
THEOREM CyclesInOrder == Spec => []OutputInCycleOrder
<1>1. OrderInv => OutputInCycleOrder
  BY DEF OrderInv, Ordered, OutputInCycleOrder
<1> QED
  BY <1>1, OrderInvariance, PTL

\* Between requests to one g_cells address, a write stays behind the reads and
\* writes before it, and a read behind the writes of earlier windows, whatever the
\* trace in cycle order and however often the run is killed (flush_window's sort
\* by address and number, and its reads before its writes).
THEOREM DependencesHold == Spec => []DependencesKept
<1>1. OrderInv => DependencesKept
  BY DEF OrderInv, Ordered, DependencesKept, DependencesInOrder, Depends
<1> QED
  BY <1>1, OrderInvariance, PTL
-----------------------------------------------------------------------------
(***************************************************************************)
(* What a finished output is, line by line: the cycle each line is given,  *)
(* the order of the lines of one burst, and which g_cells requests are     *)
(* counted as outside.  A line's burst is told from the trace alone, by    *)
(* the window it belongs to, and not by where the cursor was.              *)
(***************************************************************************)

\* Line i belongs into the burst of window k; or into none.
InBurst(i, k) == Buffered(trace[i]) /\ IsWindowForCycle(windows, trace[i].cycle, k)
NoBurst(i) == \A k \in 1 .. NWindows : ~ InBurst(i, k)

\* The line has the cycle it should be given.
Given(line) ==
  /\ \A k \in 1 .. NWindows : InBurst(line.idx, k) => line.cycle = windows[k].begin
  /\ NoBurst(line.idx) => line.cycle = trace[line.idx].cycle

\* Lines i and j are of one burst, which has i first.
Precedes(i, j) ==
  /\ \E k \in 1 .. NWindows : InBurst(i, k) /\ InBurst(j, k)
  /\ \/ trace[i].op = "READ" /\ trace[j].op = "WRITE"
     \/ trace[i].op = trace[j].op /\ Before(trace, i, j)

BurstsInOrder(lines) ==
  \A k, m \in DOMAIN lines : Precedes(lines[k].idx, lines[m].idx) => k < m

Outside == {i \in Consumed : IsGcell(trace[i]) /\ NoBurst(i)}

Bursts ==
  /\ \A k \in DOMAIN out : Given(out[k])
  /\ BurstsInOrder(out)
  /\ \A i \in Idxs(out), k \in 1 .. NWindows : InBurst(i, k) => k < cur
  /\ \A i \in reads \cup writes : Buffered(trace[i])
  /\ \A i \in writes : trace[i].op = "WRITE"
  /\ counts.outside = Cardinality(Outside)

BurstInv == Running /\ InCycleOrder(trace) => Bursts

\* While the input stays the same, so do the bursts.
LEMMA SameBursts ==
  ASSUME job' = job
  PROVE  /\ \A i, k : InBurst(i, k)' <=> InBurst(i, k)
         /\ \A i : NoBurst(i)' <=> NoBurst(i)
         /\ \A i : IsGcell(trace[i])' <=> IsGcell(trace[i])
         /\ \A l : Given(l)' <=> Given(l)
         /\ \A i, j : Precedes(i, j)' <=> Precedes(i, j)
<1>1. trace' = trace /\ windows' = windows /\ NWindows' = NWindows
  BY SameJob
<1>2. \A i : IsGcell(trace[i])' <=> IsGcell(trace[i])
  BY <1>1 DEF IsGcell
<1>3. \A i, k : InBurst(i, k)' <=> InBurst(i, k)
  BY <1>1, <1>2 DEF InBurst, Buffered, IsWindowForCycle, InWindow
<1>4. \A i : NoBurst(i)' <=> NoBurst(i)
  BY <1>1, <1>3 DEF NoBurst
<1>5. \A l : Given(l)' <=> Given(l)
  BY <1>1, <1>3, <1>4 DEF Given
<1>6. \A i, j : Precedes(i, j)' <=> Precedes(i, j)
  BY <1>1, <1>3 DEF Precedes, Before
<1> QED
  BY <1>2, <1>3, <1>4, <1>5, <1>6

\* A line is in one burst at most.
LEMMA OneBurst ==
  ASSUME job \in Jobs, NEW i, NEW k \in 1 .. NWindows, NEW m \in 1 .. NWindows,
         InBurst(i, k), InBurst(i, m)
  PROVE  k = m
<1>1. NWindows \in Nat
  BY JobFacts
<1>2. k \in 1 .. m - 1 \/ m \in 1 .. k - 1 \/ k = m
  BY <1>1
<1> QED
  BY <1>2 DEF InBurst, IsWindowForCycle

\* In a trace in cycle order the cursor is at window k for a line just if k is the
\* first window that holds its cycle: FallsInWindow is one half of it, this the other.
LEMMA WindowFallsIn ==
  ASSUME job \in Jobs, InCycleOrder(trace), NEW k \in 1 .. NWindows,
         NEW i \in Entries(trace), IsWindowForCycle(windows, trace[i].cycle, k)
  PROVE  FallsIn(i, k)
<1>1. /\ trace[i].cycle \in Nat /\ i \in Nat /\ NWindows \in Nat
      /\ \A m \in 1 .. NWindows : /\ windows[m].begin \in Nat /\ windows[m].end \in Nat
                                  /\ windows[m].begin <= windows[m].end
      /\ \A j \in Entries(trace) : trace[j].cycle \in Nat
      /\ \A m, n \in 1 .. NWindows : m < n => windows[m].end <= windows[n].begin
  BY JobFacts, WindowsFollow
<1>2. windows[k].begin <= trace[i].cycle /\ trace[i].cycle <= windows[k].end
  BY DEF IsWindowForCycle, InWindow
<1>3. ASSUME NEW j \in Entries(trace), j <= i PROVE trace[j].cycle <= windows[k].end
  <2>1. trace[j].cycle <= trace[i].cycle
    BY <1>3, LaterEntry
  <2>2. trace[j].cycle \in Nat /\ trace[i].cycle \in Nat /\ windows[k].end \in Nat
    BY <1>1
  <2> QED
    BY <1>2, <2>1, <2>2
<1>4. ASSUME NEW m \in 1 .. k - 1
      PROVE  \E j \in Entries(trace) : j <= i /\ trace[j].cycle > windows[m].end
  <2>1. m \in 1 .. NWindows /\ m < k
    BY <1>1
  <2>2. ~ InWindow(windows[m], trace[i].cycle)
    BY DEF IsWindowForCycle
  <2>3. windows[m].begin <= trace[i].cycle
    <3>1. windows[m].end <= windows[k].begin
      BY <1>1, <2>1
    <3> QED
      BY <1>1, <1>2, <2>1, <3>1
  <2>4. trace[i].cycle > windows[m].end
    BY <1>1, <2>1, <2>2, <2>3 DEF InWindow
  <2>5. i <= i
    BY <1>1
  <2> QED
    BY <2>4, <2>5
<1> QED
  BY <1>2, <1>3, <1>4 DEF FallsIn

\* The line that is placed belongs into the current window's burst, if into any.
LEMMA PlacedInBurst ==
  ASSUME Inv, InCycleOrder(trace), pc = "line", cur = next
  PROVE  /\ InCurrent(trace[pos].cycle) /\ Buffered(trace[pos]) =>
              cur \in 1 .. NWindows /\ InBurst(pos, cur)
         /\ ~ (InCurrent(trace[pos].cycle) /\ Buffered(trace[pos])) => NoBurst(pos)
<1>1. TypeOK /\ CursorInv /\ job \in Jobs /\ pos \in Entries(trace)
  BY DEF Inv, TypeOK
<1>2. ASSUME InCurrent(trace[pos].cycle), Buffered(trace[pos])
      PROVE  cur \in 1 .. NWindows /\ InBurst(pos, cur)
  <2>1. cur \in 1 .. NWindows /\ FallsIn(pos, cur)
    BY <1>1, <1>2, PlacedFallsIn
  <2>2. IsWindowForCycle(windows, trace[pos].cycle, cur)
    BY <1>1, <2>1, FallsInWindow
  <2> QED
    BY <1>2, <2>1, <2>2 DEF InBurst
<1>3. ASSUME NEW k \in 1 .. NWindows, InBurst(pos, k)
      PROVE  InCurrent(trace[pos].cycle) /\ Buffered(trace[pos])
  <2>1. FallsIn(pos, k) /\ Buffered(trace[pos])
    BY <1>1, <1>3, WindowFallsIn DEF InBurst
  <2> QED
    BY <1>1, <2>1, PlacedFallsIn
<1> QED
  BY <1>2, <1>3 DEF NoBurst

\* Two lists that have their bursts in order do so together if no line of the second
\* should be before one of the first.
LEMMA ConcatBursts ==
  ASSUME NEW s \in Seq(OutLine), NEW t \in Seq(OutLine),
         BurstsInOrder(s), BurstsInOrder(t),
         \A i \in Idxs(s), j \in Idxs(t) : ~ Precedes(j, i)
  PROVE  BurstsInOrder(s \o t)
<1>1. SUFFICES ASSUME NEW k \in DOMAIN (s \o t), NEW m \in DOMAIN (s \o t),
                      Precedes((s \o t)[k].idx, (s \o t)[m].idx)
               PROVE  k < m
  BY DEF BurstsInOrder
<1>2. CASE k \in DOMAIN s /\ m \in DOMAIN s
  <2>1. (s \o t)[k] = s[k] /\ (s \o t)[m] = s[m]
    BY <1>2, ConcatParts
  <2> QED
    BY <1>1, <1>2, <2>1 DEF BurstsInOrder
<1>3. CASE k \in DOMAIN s /\ m \notin DOMAIN s
  BY <1>3, ConcatParts
<1>4. CASE k \notin DOMAIN s /\ m \in DOMAIN s
  <2>1. /\ k - Len(s) \in DOMAIN t /\ (s \o t)[k] = t[k - Len(s)]
        /\ (s \o t)[m] = s[m]
    BY <1>4, ConcatParts
  <2>2. t[k - Len(s)].idx \in Idxs(t) /\ s[m].idx \in Idxs(s)
    BY <1>4, <2>1 DEF Idxs
  <2> QED
    BY <1>1, <2>1, <2>2
<1>5. CASE k \notin DOMAIN s /\ m \notin DOMAIN s
  <2>1. /\ k - Len(s) \in DOMAIN t /\ (s \o t)[k] = t[k - Len(s)]
        /\ m - Len(s) \in DOMAIN t /\ (s \o t)[m] = t[m - Len(s)]
        /\ k \in Int /\ m \in Int /\ Len(s) \in Int
    BY <1>5, ConcatParts
  <2>2. k - Len(s) < m - Len(s)
    BY <1>1, <2>1 DEF BurstsInOrder
  <2> QED
    BY <2>1, <2>2
<1> QED
  BY <1>2, <1>3, <1>4, <1>5

\* A step that moves no line and consumes none.
LEMMA NoBurstMoved ==
  ASSUME BurstInv, job' = job, Running, cur' = cur, UNCHANGED <<reads, writes, out>>,
         counts'.outside = counts.outside, Consumed' = Consumed
  PROVE  BurstInv'
<1>1. /\ trace' = trace /\ NWindows' = NWindows /\ windows' = windows
      /\ \A i, k : InBurst(i, k)' <=> InBurst(i, k)
      /\ \A i : NoBurst(i)' <=> NoBurst(i)
      /\ \A i : IsGcell(trace[i])' <=> IsGcell(trace[i])
      /\ \A l : Given(l)' <=> Given(l)
      /\ \A i, j : Precedes(i, j)' <=> Precedes(i, j)
  BY SameJob, SameBursts
<1> SUFFICES ASSUME InCycleOrder(trace) PROVE Bursts'
  BY <1>1 DEF BurstInv, InCycleOrder
<1>2. Bursts
  BY DEF BurstInv
<1>3. (\A k \in DOMAIN out : Given(out[k]))' /\ BurstsInOrder(out)'
  BY <1>1, <1>2 DEF Bursts, BurstsInOrder
<1>4. /\ (\A i \in Idxs(out), k \in 1 .. NWindows : InBurst(i, k) => k < cur)'
      /\ (\A i \in reads \cup writes : Buffered(trace[i]))'
      /\ (\A i \in writes : trace[i].op = "WRITE")'
  <2>1. \A i : Buffered(trace[i])' <=> Buffered(trace[i])
    BY <1>1 DEF Buffered
  <2> QED
    BY <1>1, <1>2, <2>1 DEF Bursts, Idxs
<1>5. Outside' = Outside
  BY <1>1 DEF Outside
<1>6. (counts.outside = Cardinality(Outside))'
  BY <1>2, <1>5 DEF Bursts
<1> QED
  BY <1>3, <1>4, <1>6 DEF Bursts

\* A phase of a burst: every line is of the set it was made from, at the window's
\* first cycle, and a read or a write like the others sorted by its key.
LEMMA PhaseBursts ==
  ASSUME TypeOK, cur \in 1 .. NWindows, NEW S \in SUBSET (1 .. Len(trace)),
         NEW p \in Sorted(trace, S), NEW op, \A i \in S : trace[i].op = op,
         op \in {"READ", "WRITE"}
  PROVE  BurstsInOrder(Phase(p))
<1>1. /\ p \in [1 .. Cardinality(S) -> S]
      /\ \A k, m \in DOMAIN p : k < m => Before(trace, p[k], p[m])
  BY DEF Sorted, Arrangements
<1>2. /\ p \in Seq(S) /\ DOMAIN p = 1 .. Len(p) /\ Len(p) \in Nat
  BY SortedFacts DEF TypeOK
<1>3. /\ DOMAIN Phase(p) = 1 .. Len(p)
      /\ \A k \in 1 .. Len(p) : Phase(p)[k].idx = p[k]
  <2>1. /\ DOMAIN Phase(p) = 1 .. Len(p)
        /\ \A k \in 1 .. Len(p) : Phase(p)[k] = Written(p[k], windows[cur].begin)
    BY <1>2, PhaseFacts
  <2> QED
    BY <2>1 DEF Written
<1>4. ASSUME NEW k \in 1 .. Len(p), NEW m \in 1 .. Len(p), Precedes(p[k], p[m])
      PROVE  k < m
  <2>1. p[k] \in S /\ p[m] \in S
    BY <1>1, <1>2
  <2>2. Before(trace, p[k], p[m])
    BY <1>4, <2>1 DEF Precedes
  <2>3. /\ p[k] \in Nat /\ p[m] \in Nat
        /\ trace[p[k]].addr \in Nat /\ trace[p[m]].addr \in Nat
    <3>1. Len(trace) \in Nat /\ \A i \in 1 .. Len(trace) : trace[i].addr \in Nat
      BY JobTypes DEF TypeOK, Line
    <3>2. p[k] \in 1 .. Len(trace) /\ p[m] \in 1 .. Len(trace)
      BY <2>1
    <3> QED
      BY <3>1, <3>2
  <2>4. ~ Before(trace, p[m], p[k]) /\ p[k] # p[m]
    BY <2>2, <2>3 DEF Before
  <2>5. ~ (m < k) /\ k # m
    BY <1>1, <1>2, <2>4
  <2> QED
    BY <1>2, <2>5
<1> QED
  BY <1>3, <1>4 DEF BurstsInOrder

\* A flush writes the burst of the window it passes.
LEMMA FlushBursts ==
  ASSUME Inv, OrderInv, BurstInv, Running, cur \in 1 .. NWindows, FlushWindow,
         temp[windows[cur].id] = Open
  PROVE  BurstInv'
<1>1. TypeOK /\ PlaceInv /\ job \in Jobs /\ NWindows \in Nat
  <2>1. TypeOK
    BY DEF Inv
  <2> QED
    BY <2>1, JobFacts DEF Inv, TypeOK
<1>2. PICK r \in Sorted(trace, reads), w \in Sorted(trace, writes) :
        out' = out \o Burst(r, w) \o Open
  BY DEF FlushWindow
<1>3. /\ job' = job /\ pos' = pos /\ cur' = cur + 1 /\ reads' = {} /\ writes' = {}
      /\ counts' = counts
  BY DEF FlushWindow
<1>4. /\ trace' = trace /\ NWindows' = NWindows /\ Entries(trace)' = Entries(trace)
      /\ \A i, k : InBurst(i, k)' <=> InBurst(i, k)
      /\ \A i : NoBurst(i)' <=> NoBurst(i)
      /\ \A i : IsGcell(trace[i])' <=> IsGcell(trace[i])
      /\ \A l : Given(l)' <=> Given(l)
      /\ \A i, j : Precedes(i, j)' <=> Precedes(i, j)
  BY <1>3, SameJob, SameBursts
<1> SUFFICES ASSUME InCycleOrder(trace) PROVE Bursts'
  BY <1>4 DEF BurstInv, InCycleOrder
<1>5. Ordered /\ Bursts
  BY DEF OrderInv, BurstInv
<1>6. /\ Phase(r) \in Seq(OutLine) /\ Idxs(Phase(r)) = reads
      /\ Phase(w) \in Seq(OutLine) /\ Idxs(Phase(w)) = writes
      /\ \A k \in DOMAIN Phase(r) : Phase(r)[k].cycle = windows[cur].begin
      /\ \A k \in DOMAIN Phase(w) : Phase(w)[k].cycle = windows[cur].begin
  BY <1>1, PhaseLines, PhaseOrder DEF TypeOK
<1>7. out \in Seq(OutLine) /\ Open \in Seq(OutLine)
  BY <1>1, JobFacts DEF TypeOK, Open
<1>8. ASSUME NEW i \in reads \cup writes
      PROVE  InBurst(i, cur) /\ \A k \in 1 .. NWindows : InBurst(i, k) => k = cur
  <2>1. InBurst(i, cur)
    BY <1>1, <1>5, <1>8, FallsInWindow DEF Ordered, Bursts, InBurst
  <2> QED
    BY <1>1, <2>1, OneBurst
<1> DEFINE burst == Burst(r, w)
<1>9. /\ burst \in Seq(OutLine) /\ Idxs(burst) = reads \cup writes
      /\ \A k \in DOMAIN burst : burst[k].cycle = windows[cur].begin
      /\ BurstsInOrder(burst)
  <2>1. burst \in Seq(OutLine) /\ Idxs(burst) = reads \cup writes
    BY <1>6, ConcatLines DEF Burst
  <2>2. \A k \in DOMAIN burst : burst[k].cycle = windows[cur].begin
    BY <1>6, ConcatParts DEF Burst
  <2>3. /\ \A i \in reads : trace[i].op = "READ"
        /\ \A i \in writes : trace[i].op = "WRITE"
    BY <1>5 DEF Ordered, Bursts
  <2>4. BurstsInOrder(Phase(r)) /\ BurstsInOrder(Phase(w))
    BY <1>1, <2>3, PhaseBursts DEF TypeOK
  <2>5. \A i \in reads, j \in writes : ~ Precedes(j, i)
    BY <2>3 DEF Precedes
  <2>6. BurstsInOrder(burst)
    BY <1>6, <2>4, <2>5, ConcatBursts DEF Burst
  <2> QED
    BY <2>1, <2>2, <2>6
<1> HIDE DEF burst
<1> DEFINE sent == out \o burst
<1>10. /\ sent \in Seq(OutLine) /\ Idxs(sent) = Idxs(out) \cup reads \cup writes
       /\ BurstsInOrder(sent)
  <2>1. sent \in Seq(OutLine) /\ Idxs(sent) = Idxs(out) \cup reads \cup writes
    BY <1>7, <1>9, ConcatLines
  <2>2. ASSUME NEW i \in Idxs(out), NEW j \in reads \cup writes PROVE ~ Precedes(j, i)
    <3>1. \A k \in 1 .. NWindows : ~ (InBurst(i, k) /\ InBurst(j, k))
      BY <1>1, <1>5, <1>8 DEF Bursts
    <3> QED
      BY <3>1 DEF Precedes
  <2>3. BurstsInOrder(sent)
    BY <1>5, <1>7, <1>9, <2>2, ConcatBursts DEF Bursts
  <2> QED
    BY <2>1, <2>3
<1>11. \A k \in DOMAIN sent : Given(sent[k])
  <2>1. ASSUME NEW k \in DOMAIN burst PROVE Given(burst[k])
    <3>1. burst[k].idx \in reads \cup writes
      BY <1>9 DEF Idxs
    <3> QED
      BY <1>8, <1>9, <3>1 DEF Given, NoBurst
  <2>2. ASSUME NEW k \in DOMAIN sent
        PROVE  \/ k \in DOMAIN out /\ sent[k] = out[k]
               \/ \E m \in DOMAIN burst : sent[k] = burst[m]
    BY <1>7, <1>9, ConcatParts
  <2> HIDE DEF sent
  <2> QED
    BY <1>5, <2>1, <2>2 DEF Bursts
<1>12. out' = sent \o Open
  BY <1>2 DEF burst
<1> HIDE DEF sent
<1>13. ASSUME NEW i \in Idxs(Open) PROVE \A k : ~ InBurst(i, k)
  BY <1>5, <1>13 DEF Ordered, Aside, Idxs, InBurst
<1>14. (\A k \in DOMAIN out : Given(out[k]))'
  <2>1. ASSUME NEW k \in DOMAIN Open PROVE Given(Open[k])
    <3>1. Open[k].idx \in Idxs(Open) /\ Open[k].cycle = trace[Open[k].idx].cycle
      BY <1>5 DEF Ordered, Aside, Idxs
    <3> QED
      BY <1>13, <3>1 DEF Given
  <2>2. ASSUME NEW k \in DOMAIN out'
        PROVE  \/ k \in DOMAIN sent /\ out'[k] = sent[k]
               \/ \E m \in DOMAIN Open : out'[k] = Open[m]
    BY <1>7, <1>10, <1>12, ConcatParts
  <2> QED
    BY <1>4, <1>11, <2>1, <2>2
<1>15. BurstsInOrder(out)'
  <2>1. \A i \in Idxs(Open) : \A j : ~ Precedes(i, j) /\ ~ Precedes(j, i)
    BY <1>13 DEF Precedes
  <2>2. BurstsInOrder(Open)
    BY <2>1 DEF BurstsInOrder, Idxs
  <2>3. BurstsInOrder(sent \o Open)
    BY <1>7, <1>10, <2>1, <2>2, ConcatBursts
  <2> QED
    BY <1>4, <1>12, <2>3 DEF BurstsInOrder
<1>16. (\A i \in Idxs(out), k \in 1 .. NWindows : InBurst(i, k) => k < cur)'
  <2>1. Idxs(out') = Idxs(out) \cup reads \cup writes \cup Idxs(Open)
    BY <1>7, <1>10, <1>12, ConcatLines
  <2>2. ASSUME NEW i \in Idxs(out'), NEW k \in 1 .. NWindows, InBurst(i, k) PROVE k < cur + 1
    BY <1>1, <1>5, <1>8, <1>13, <2>1, <2>2 DEF Bursts
  <2>3. Idxs(out)' = Idxs(out')
    BY DEF Idxs
  <2> QED
    BY <1>3, <1>4, <2>2, <2>3
<1>17. (counts.outside = Cardinality(Outside))'
  <2>1. Outside' = Outside
    BY <1>3, <1>4 DEF Outside, Consumed
  <2> QED
    BY <1>3, <1>5, <2>1 DEF Bursts
<1> QED
  BY <1>3, <1>14, <1>15, <1>16, <1>17 DEF Bursts

\* One more line is consumed: it is outside if it is of the array and in no burst.
LEMMA OneMoreOutside ==
  ASSUME TypeOK, job' = job, pos' = pos + 1, pos \in Entries(trace)
  PROVE  /\ Cardinality(Outside) \in Nat
         /\ Cardinality(Outside') = Cardinality(Outside)
              + (IF IsGcell(trace[pos]) /\ NoBurst(pos) THEN 1 ELSE 0)
<1> DEFINE more == IsGcell(trace[pos]) /\ NoBurst(pos)
<1>1. /\ Len(trace) \in Nat /\ pos \in Nat /\ \A i \in Entries(trace) : i \in 1 .. Len(trace)
      /\ Entries(trace)' = Entries(trace)
      /\ \A i : NoBurst(i)' <=> NoBurst(i)
      /\ \A i : IsGcell(trace[i])' <=> IsGcell(trace[i])
  BY JobFacts, SameJob, SameBursts DEF TypeOK
<1>2. Outside \in SUBSET (1 .. Len(trace)) /\ pos \notin Outside
  <2>1. \A i \in Outside : i \in Entries(trace) /\ i < pos
    BY DEF Outside, Consumed
  <2>2. pos \in Nat /\ ~ (pos < pos)
    BY <1>1
  <2>3. Outside \subseteq 1 .. Len(trace)
    BY <1>1, <2>1
  <2> QED
    BY <2>1, <2>2, <2>3
<1>3. IsFiniteSet(Outside) /\ Cardinality(Outside) \in Nat
  BY <1>1, <1>2, LineNumbersFinite
<1>4. \A i \in Entries(trace) : i < pos + 1 <=> i < pos \/ i = pos
  BY <1>1
<1>5. \A i : i \in Outside' <=> i \in Outside \/ (i = pos /\ more)
  BY <1>1, <1>4 DEF Outside, Consumed
<1> HIDE DEF more
<1>6. CASE more
  <2>1. Outside' = Outside \cup {pos}
    BY <1>5, <1>6
  <2>2. Cardinality(Outside \cup {pos}) = Cardinality(Outside) + 1
    BY <1>2, <1>3, FS_AddElement
  <2> QED
    BY <1>3, <1>6, <2>1, <2>2 DEF more
<1>7. CASE ~ more
  <2>1. Outside' = Outside
    BY <1>5, <1>7
  <2> QED
    BY <1>3, <1>7, <2>1 DEF more
<1> QED
  BY <1>6, <1>7

\* A line placed goes into the burst it belongs to, or past all bursts.
LEMMA PlaceBursts ==
  ASSUME Inv, OrderInv, BurstInv, PlaceEntry
  PROVE  BurstInv'
<1> USE DEF buffer
<1>1. /\ TypeOK /\ PlaceInv /\ job \in Jobs /\ NWindows \in Nat
      /\ out \in Seq(OutLine) /\ run \in 1 .. MaxRuns
      /\ \A i \in Entries(trace) : i \in Nat \ {0} /\ trace[i].cycle \in Nat
      /\ counts \in [total : Nat, gcell : Nat, rewritten : Nat, outside : Nat]
  <2>1. TypeOK
    BY DEF Inv
  <2> QED
    BY <2>1, JobFacts DEF Inv, TypeOK
<1>2. /\ pc = "line" /\ pos' = pos + 1 /\ cur' = cur /\ cur = next
      /\ job' = job /\ pos \in Entries(trace) /\ Running
  BY <1>1 DEF PlaceEntry, BufferEntry, SpillEntry, PassEntry, Placing, TypeOK, Running
<1>3. /\ trace' = trace /\ NWindows' = NWindows
      /\ \A i, k : InBurst(i, k)' <=> InBurst(i, k)
      /\ \A i : IsGcell(trace[i])' <=> IsGcell(trace[i])
      /\ \A l : Given(l)' <=> Given(l)
      /\ \A i, j : Precedes(i, j)' <=> Precedes(i, j)
  BY <1>2, SameJob, SameBursts
<1> SUFFICES ASSUME InCycleOrder(trace) PROVE Bursts'
  BY <1>2, <1>3 DEF BurstInv, InCycleOrder
<1>4. Bursts /\ Ordered
  BY <1>2 DEF BurstInv, OrderInv
<1>5. /\ InCurrent(trace[pos].cycle) /\ Buffered(trace[pos]) =>
           cur \in 1 .. NWindows /\ InBurst(pos, cur)
      /\ ~ (InCurrent(trace[pos].cycle) /\ Buffered(trace[pos])) => NoBurst(pos)
  BY <1>2, PlacedInBurst
<1>6. /\ Cardinality(Outside) \in Nat /\ counts.outside = Cardinality(Outside)
      /\ Cardinality(Outside') = Cardinality(Outside)
           + (IF IsGcell(trace[pos]) /\ NoBurst(pos) THEN 1 ELSE 0)
  BY <1>1, <1>2, <1>4, OneMoreOutside DEF Bursts
<1>7. \A i : Buffered(trace[i])' <=> Buffered(trace[i])
  BY <1>3 DEF Buffered
<1>8. ASSUME out' = out
      PROVE  /\ (\A k \in DOMAIN out : Given(out[k]))' /\ BurstsInOrder(out)'
             /\ (\A i \in Idxs(out), k \in 1 .. NWindows : InBurst(i, k) => k < cur)'
  BY <1>2, <1>3, <1>4, <1>8 DEF Bursts, BurstsInOrder, Idxs
<1>9. CASE BufferEntry(trace[pos])
  <2>1. /\ InCurrent(trace[pos].cycle) /\ Buffered(trace[pos]) /\ out' = out
        /\ counts' = Tally(trace[pos], TRUE)
        /\ reads' = IF trace[pos].op = "READ" THEN reads \cup {pos} ELSE reads
        /\ writes' = IF trace[pos].op = "WRITE" THEN writes \cup {pos} ELSE writes
    BY <1>9 DEF BufferEntry
  <2>2. (counts.outside = Cardinality(Outside))'
    <3>1. counts'.outside = counts.outside
      BY <1>1, <2>1 DEF Tally
    <3>2. ~ NoBurst(pos)
      BY <1>5, <2>1 DEF NoBurst
    <3> QED
      BY <1>6, <3>1, <3>2
  <2>3. /\ (\A i \in reads \cup writes : Buffered(trace[i]))'
        /\ (\A i \in writes : trace[i].op = "WRITE")'
    BY <1>3, <1>4, <1>7, <2>1 DEF Bursts
  <2> QED
    BY <1>8, <2>1, <2>2, <2>3 DEF Bursts
<1>10. ASSUME reads' = reads, writes' = writes, counts' = Tally(trace[pos], FALSE),
              NoBurst(pos)
       PROVE  /\ (\A i \in reads \cup writes : Buffered(trace[i]))'
              /\ (\A i \in writes : trace[i].op = "WRITE")'
              /\ (counts.outside = Cardinality(Outside))'
  <2>1. counts'.outside = counts.outside + (IF IsGcell(trace[pos]) THEN 1 ELSE 0)
    BY <1>10 DEF Tally
  <2>2. (counts.outside = Cardinality(Outside))'
    BY <1>6, <1>10, <2>1
  <2> QED
    BY <1>3, <1>4, <1>7, <1>10, <2>2 DEF Bursts
<1>11. CASE SpillEntry(trace[pos])
  <2>1. /\ ~ Buffered(trace[pos]) /\ counts' = Tally(trace[pos], FALSE)
        /\ out' = out /\ reads' = reads /\ writes' = writes
    BY <1>11 DEF SpillEntry
  <2> QED
    BY <1>5, <1>8, <1>10, <2>1 DEF Bursts
<1>12. CASE PassEntry(trace[pos])
  <2> DEFINE line == Written(pos, trace[pos].cycle)
  <2>1. /\ ~ InCurrent(trace[pos].cycle) /\ counts' = Tally(trace[pos], FALSE)
        /\ out' = Append(out, line) /\ reads' = reads /\ writes' = writes
    BY <1>12 DEF PassEntry
  <2>2. NoBurst(pos)
    BY <1>5, <2>1
  <2>3. /\ line \in OutLine /\ line.idx = pos /\ line.cycle = trace[pos].cycle
        /\ <<line>> \in Seq(OutLine) /\ Idxs(<<line>>) = {pos}
    BY <1>1, <1>2, OneLine DEF Written, OutLine
  <2>4. Given(line)
    BY <2>2, <2>3 DEF Given, NoBurst
  <2> HIDE DEF line
  <2>5. out' = out \o <<line>>
    BY <1>1, <2>1, <2>3
  <2>6. (\A k \in DOMAIN out : Given(out[k]))'
    <3>1. ASSUME NEW k \in DOMAIN out' PROVE Given(out'[k])
      <4>1. \/ k \in DOMAIN out /\ out'[k] = out[k]
            \/ out'[k] = line
        BY <1>1, <2>3, <2>5, ConcatParts
      <4> QED
        BY <1>4, <2>4, <4>1 DEF Bursts
    <3> QED
      BY <1>3, <3>1
  <2>7. BurstsInOrder(out)'
    <3>1. \A i : ~ Precedes(i, pos) /\ ~ Precedes(pos, i)
      BY <2>2 DEF Precedes, NoBurst
    <3>2. BurstsInOrder(<<line>>)
      <4>1. \A k \in DOMAIN <<line>> : <<line>>[k].idx = pos
        BY <2>3
      <4> QED
        BY <3>1, <4>1 DEF BurstsInOrder
    <3>3. BurstsInOrder(out \o <<line>>)
      BY <1>1, <1>4, <2>3, <3>1, <3>2, ConcatBursts DEF Bursts
    <3> QED
      BY <1>3, <2>5, <3>3 DEF BurstsInOrder
  <2>8. (\A i \in Idxs(out), k \in 1 .. NWindows : InBurst(i, k) => k < cur)'
    <3>1. Idxs(out') = Idxs(out) \cup {pos}
      BY <1>1, <2>3, <2>5, ConcatLines
    <3>2. Idxs(out)' = Idxs(out')
      BY DEF Idxs
    <3> QED
      BY <1>2, <1>3, <1>4, <2>2, <3>1, <3>2 DEF Bursts, NoBurst
  <2> QED
    BY <1>10, <2>1, <2>2, <2>6, <2>7, <2>8 DEF Bursts
<1> QED
  BY <1>9, <1>11, <1>12 DEF PlaceEntry

\* A run starts with nothing written and nothing counted.
LEMMA BurstInit == Init => BurstInv
<1> SUFFICES ASSUME Init PROVE Bursts
  BY DEF BurstInv
<1>1. /\ out = << >> /\ reads = {} /\ writes = {} /\ counts.outside = 0
      /\ pos = 1 /\ job \in Jobs
  BY DEF Init, FirstStart, NoCounts
<1>2. Outside = {}
  BY <1>1, JobFacts DEF Outside, Consumed
<1> QED
  BY <1>1, <1>2, FS_EmptySet DEF Bursts, BurstsInOrder, Idxs

\* Every step keeps the bursts as they should be.
LEMMA BurstNext == Inv /\ OrderInv /\ BurstInv /\ [Next]_vars => BurstInv'
<1> SUFFICES ASSUME Inv, OrderInv, BurstInv, [Next]_vars PROVE BurstInv'
  OBVIOUS
<1> USE DEF files, buffer
<1>1. /\ TypeOK /\ CursorInv /\ LeftInv
      /\ NWindows \in Nat /\ cur \in 1 .. NWindows + 1 /\ next \in 1 .. NWindows + 1
      /\ Len(trace) \in Nat /\ pos \in 1 .. Len(trace) + 1
      /\ \A i \in Entries(trace) : i \in 1 .. Len(trace)
  <2>1. TypeOK
    BY DEF Inv
  <2> QED
    BY <2>1, JobFacts DEF Inv, TypeOK
<1>2. CASE SkipBlank
  <2>1. /\ job' = job /\ Running /\ cur' = cur /\ pos' = pos + 1 /\ pos \notin Entries(trace)
        /\ UNCHANGED <<reads, writes, out, counts>>
    BY <1>2 DEF SkipBlank, Entries, Running
  <2>2. Consumed' = Consumed
    BY <1>1, <2>1, SameJob DEF Consumed
  <2> QED
    BY <2>1, <2>2, NoBurstMoved
<1>3. CASE ReadEntry \/ EndOfTrace \/ Finish
  <2>1. /\ job' = job /\ Running /\ cur' = cur /\ pos' = pos
        /\ UNCHANGED <<reads, writes, out>>
    BY <1>3 DEF ReadEntry, EndOfTrace, Finish, Running
  <2>2. counts'.outside = counts.outside
    BY <1>1, <1>3 DEF ReadEntry, EndOfTrace, Finish, TypeOK
  <2>3. Consumed' = Consumed
    BY <2>1, SameJob DEF Consumed
  <2> QED
    BY <2>1, <2>2, <2>3, NoBurstMoved
<1>4. CASE FlushPassed \/ FlushTail
  <2>1. /\ Running /\ cur \in 1 .. NWindows /\ FlushWindow
        /\ (pc = "line" /\ cur < next) \/ pc = "tail"
    BY <1>1, <1>4 DEF FlushPassed, FlushTail, Running
  <2>2. temp[windows[cur].id] = Open
    BY <1>1, <2>1, LeftNotFlushed DEF Open
  <2> QED
    BY <2>1, <2>2, FlushBursts
<1>5. CASE PlaceEntry
  BY <1>5, PlaceBursts
<1>6. CASE Kill
  BY <1>6 DEF Kill, BurstInv, Running
<1>7. CASE Start(job)
  <2>1. /\ job' = job /\ out' = << >> /\ reads' = {} /\ writes' = {} /\ counts'.outside = 0
        /\ pos' = 1
    BY <1>7 DEF Start, NoCounts
  <2>2. Outside' = {}
    BY <1>1, <2>1, SameJob DEF Outside, Consumed
  <2> QED
    BY <2>1, <2>2, FS_EmptySet DEF BurstInv, Bursts, BurstsInOrder, Idxs
<1>8. CASE UNCHANGED vars
  <2>1. /\ job' = job /\ pos' = pos /\ cur' = cur /\ pc' = pc
        /\ UNCHANGED <<reads, writes, out, counts>>
    BY <1>8 DEF vars
  <2>2. Consumed' = Consumed
    BY <2>1, SameJob DEF Consumed
  <2>3. CASE Running
    BY <2>1, <2>2, <2>3, NoBurstMoved
  <2>4. CASE ~ Running
    BY <2>1, <2>4 DEF BurstInv, Running
  <2> QED
    BY <2>3, <2>4
<1> QED
  BY <1>2, <1>3, <1>4, <1>5, <1>6, <1>7, <1>8 DEF Next, Step, Stopped

\* The output of a trace in cycle order is made of bursts, each at its window's first
\* cycle, the reads before the writes and both sorted, and of the other lines at their
\* own cycles; and what is counted as outside is in no burst.  Which burst a line is in
\* does not depend on how the cursor got there (lines 190-238).
THEOREM BurstInvariance == Spec => []BurstInv
BY BurstInit, BurstNext, OrderInvariance, Invariance, PTL DEF Spec
=============================================================================

------------------------- MODULE BatchRewriterProofs -------------------------
(***************************************************************************)
(* Proofs about BatchRewriter, as BothRewriters runs it: for every input,  *)
(* every number of lines and windows, every log and every pair of gaps;    *)
(* that the streaming rewriter takes the same range for the array and, by  *)
(* what StreamRewriterProofs shows of it, rewrites in the same way; and    *)
(* what the traces of the array alone have in common with the two.         *)
(***************************************************************************)
EXTENDS BothRewriters, SequenceTheorems, FunctionTheorems, FiniteSetTheorems,
        WellFoundedInduction, TLAPS

\* The line belongs to no window's bucket.
Free(i) == \A w \in 1 .. NWindows : ~ GoesTo(trace[i], w)

\* The entries that the first loop has read.
ReadEntries == {i \in Entries(trace) : i < entry}

\* The lines of a list, their numbers, and that no number is there twice.
EntriesOf(lines) == {lines[k] : k \in DOMAIN lines}
Idxs(lines) == {lines[k].idx : k \in DOMAIN lines}
NoRepeat(lines) == \A k, m \in DOMAIN lines : lines[k].idx = lines[m].idx => k = m

BatchType ==
  /\ trace \in Seq(Line)
  /\ windows \in Seq(Windows(WindowIds)) /\ Successive(windows)
  /\ gap \in Gaps
  /\ step \in {"bucket", "emit", "sort", "done"}
  /\ entry \in 1 .. Len(trace) + 1
  /\ win \in 1 .. NWindows + 1
  /\ bucket \in [1 .. NWindows -> SUBSET (1 .. Len(trace))]
  /\ output \in Seq(OutEntry)
  /\ outside \in Nat

\* What each loop has done when it is at its line or its window.
BucketInv ==
  /\ \A w \in 1 .. NWindows : bucket[w] = {i \in ReadEntries : GoesTo(trace[i], w)}
  /\ outside = Cardinality({i \in ReadEntries : IsGcell(trace[i]) /\ Free(i)})
  /\ step = "bucket" => win = 1
  /\ step # "bucket" => entry = Len(trace) + 1
  /\ step \in {"sort", "done"} => win = NWindows + 1

\* Where each entry is: in the output, once, or in a bucket still to be emitted.
PlaceInv ==
  /\ NoRepeat(output)
  /\ Idxs(output) = {i \in ReadEntries : Free(i)}
                    \cup UNION {bucket[w] : w \in {w \in 1 .. NWindows : w < win}}

\* The cycles that the output's entries have been given: their own, or one from the
\* window's first on; in a window every read's is before every write's, and each
\* phase is in the order of its key.
CycleInv ==
  /\ \A a \in EntriesOf(output) :
       /\ Free(a.idx) => a.cycle = trace[a.idx].cycle
       /\ \A w \in 1 .. NWindows : a.idx \in bucket[w] => windows[w].begin <= a.cycle
  /\ \A a, b \in EntriesOf(output), w \in 1 .. NWindows :
       /\ a.idx \in Reads(w) /\ b.idx \in Writes(w) => a.cycle < b.cycle
       /\ \/ a.idx \in Reads(w) /\ b.idx \in Reads(w)
          \/ a.idx \in Writes(w) /\ b.idx \in Writes(w)
          => (Before(trace, a.idx, b.idx) => a.cycle <= b.cycle)

SortedInv ==
  step = "done" =>
    \A k, m \in DOMAIN output : k < m => ~ SortsBefore(output[m], output[k])

BatchInv == BatchType /\ BucketInv /\ PlaceInv /\ CycleInv /\ SortedInv
-----------------------------------------------------------------------------
(***************************************************************************)
(* Lists of entries.                                                       *)
(***************************************************************************)

\* A set of line numbers is finite.
LEMMA LineNumbersFinite ==
  ASSUME NEW n \in Nat, NEW S \in SUBSET (1 .. n)
  PROVE  IsFiniteSet(S) /\ Cardinality(S) \in Nat
<1>1. IsFiniteSet(1 .. n)
  BY FS_Interval
<1>2. IsFiniteSet(S)
  BY <1>1, FS_Subset
<1> QED
  BY <1>2, FS_CardinalityType

\* What the types say of lines and windows.
LEMMA JobFacts ==
  ASSUME BatchType
  PROVE  /\ Len(trace) \in Nat /\ NWindows \in Nat
         /\ \A i \in 1 .. Len(trace) : /\ i \in Nat \ {0}
                                       /\ trace[i].addr \in Nat /\ trace[i].cycle \in Nat
                                       /\ trace[i].op \in Ops
         /\ \A w \in 1 .. NWindows : /\ w \in Nat
                                     /\ windows[w].begin \in Nat /\ windows[w].end \in Nat
         /\ \A v, w \in 1 .. NWindows : v < w => windows[v].end <= windows[w].begin
         /\ gap.issue \in Nat /\ gap.phase \in Nat
         /\ Entries(trace) \subseteq 1 .. Len(trace)
         /\ ReadEntries \subseteq 1 .. Len(trace)
<1>1. Len(trace) \in Nat /\ Len(windows) \in Nat
  BY DEF BatchType
<1>2. \A i \in 1 .. Len(trace) : trace[i] \in Line
  BY DEF BatchType
<1>3. \A w \in 1 .. Len(windows) : windows[w] \in Windows(WindowIds)
  BY DEF BatchType
<1>4. gap \in [issue : Nat, phase : Nat]
  BY GapsAssumption DEF BatchType
<1>5. \A v, w \in 1 .. NWindows : v < w => windows[v].end <= windows[w].begin
  BY DEF BatchType, Successive, NWindows
<1> QED
  BY <1>1, <1>2, <1>3, <1>4, <1>5 DEF NWindows, Line, Windows, Entries, ReadEntries

\* What a sorting of a set of line numbers is: a list of them, each once, in the
\* order of the key.
LEMMA SortedFacts ==
  ASSUME BatchType, NEW S \in SUBSET (1 .. Len(trace)), NEW p \in Sorted(trace, S)
  PROVE  /\ Cardinality(S) \in Nat
         /\ p \in [1 .. Cardinality(S) -> S] /\ DOMAIN p = 1 .. Cardinality(S)
         /\ \A i \in S : \E k \in DOMAIN p : p[k] = i
         /\ \A k, m \in DOMAIN p : k < m => Before(trace, p[k], p[m])
         /\ \A k, m \in DOMAIN p : Before(trace, p[k], p[m]) => k < m
         /\ \A k, m \in DOMAIN p : p[k] = p[m] => k = m
<1>1. Cardinality(S) \in Nat
  BY JobFacts, LineNumbersFinite
<1>2. /\ p \in [1 .. Cardinality(S) -> S] /\ DOMAIN p = 1 .. Cardinality(S)
      /\ \A i \in S : \E k \in DOMAIN p : p[k] = i
      /\ \A k, m \in DOMAIN p : k < m => Before(trace, p[k], p[m])
  BY DEF Sorted, Arrangements
<1>3. \A i \in S : i \in Nat /\ trace[i].addr \in Nat
  BY JobFacts
<1>4. \A i, j \in S : ~ (Before(trace, i, j) /\ Before(trace, j, i)) /\ ~ Before(trace, i, i)
  BY <1>3 DEF Before
<1>5. \A k \in DOMAIN p : k \in Nat /\ p[k] \in S
  BY <1>1, <1>2
<1>6. \A k, m \in DOMAIN p : k < m \/ k = m \/ m < k
  BY <1>5
<1> QED
  BY <1>1, <1>2, <1>4, <1>5, <1>6

\* A list that is made of two.
LEMMA ConcatLines ==
  ASSUME NEW s \in Seq(OutEntry), NEW t \in Seq(OutEntry)
  PROVE  /\ s \o t \in Seq(OutEntry)
         /\ EntriesOf(s \o t) = EntriesOf(s) \cup EntriesOf(t)
         /\ Idxs(s \o t) = Idxs(s) \cup Idxs(t)
         /\ NoRepeat(s) /\ NoRepeat(t) /\ Idxs(s) \cap Idxs(t) = {} => NoRepeat(s \o t)
<1>1. /\ DOMAIN s = 1 .. Len(s) /\ DOMAIN t = 1 .. Len(t) /\ Len(s) \in Nat /\ Len(t) \in Nat
      /\ DOMAIN (s \o t) = 1 .. Len(s) + Len(t)
      /\ \A i \in 1 .. Len(s) + Len(t) :
           (s \o t)[i] = IF i <= Len(s) THEN s[i] ELSE t[i - Len(s)]
      /\ s \o t \in Seq(OutEntry)
  BY LenProperties, ConcatProperties
<1>2. \A i \in DOMAIN s : i \in DOMAIN (s \o t) /\ (s \o t)[i] = s[i]
  BY <1>1
<1>3. ASSUME NEW i \in DOMAIN t
      PROVE  i + Len(s) \in DOMAIN (s \o t) /\ (s \o t)[i + Len(s)] = t[i]
  <2>1. i \in 1 .. Len(t) /\ i + Len(s) \in 1 .. Len(s) + Len(t) /\ ~ (i + Len(s) <= Len(s))
    BY <1>1
  <2>2. i + Len(s) - Len(s) = i
    BY <1>1, <2>1
  <2> QED
    BY <1>1, <2>1, <2>2
<1>4. \A i \in DOMAIN (s \o t) :
        \/ i \in DOMAIN s
        \/ i - Len(s) \in DOMAIN t /\ (s \o t)[i] = t[i - Len(s)]
  BY <1>1
<1>5. ASSUME NEW i \in DOMAIN t
      PROVE  \E k \in DOMAIN (s \o t) : (s \o t)[k] = t[i]
  BY <1>3
<1>6. EntriesOf(s \o t) = EntriesOf(s) \cup EntriesOf(t)
  <2>1. ASSUME NEW e \in EntriesOf(s \o t) PROVE e \in EntriesOf(s) \cup EntriesOf(t)
    BY <1>2, <1>4 DEF EntriesOf
  <2>2. ASSUME NEW e \in EntriesOf(s) PROVE e \in EntriesOf(s \o t)
    BY <1>2 DEF EntriesOf
  <2>3. ASSUME NEW e \in EntriesOf(t) PROVE e \in EntriesOf(s \o t)
    BY <1>5 DEF EntriesOf
  <2> QED
    BY <2>1, <2>2, <2>3
<1>7. \A q : Idxs(q) = {e.idx : e \in EntriesOf(q)}
  BY DEF Idxs, EntriesOf
<1>8. Idxs(s \o t) = Idxs(s) \cup Idxs(t)
  BY <1>6, <1>7
<1>9. ASSUME NoRepeat(s), NoRepeat(t), Idxs(s) \cap Idxs(t) = {}
      PROVE  NoRepeat(s \o t)
  <2> SUFFICES ASSUME NEW i \in DOMAIN (s \o t), NEW j \in DOMAIN (s \o t),
                      (s \o t)[i].idx = (s \o t)[j].idx
               PROVE  i = j
    BY DEF NoRepeat
  <2>1. CASE i \in DOMAIN s /\ j \in DOMAIN s
    BY <1>2, <1>9, <2>1 DEF NoRepeat
  <2>2. CASE i \notin DOMAIN s /\ j \notin DOMAIN s
    <3>1. /\ i - Len(s) \in DOMAIN t /\ j - Len(s) \in DOMAIN t
          /\ t[i - Len(s)].idx = t[j - Len(s)].idx
      BY <1>4, <2>2
    <3>2. i - Len(s) = j - Len(s)
      BY <1>9, <3>1 DEF NoRepeat
    <3> QED
      BY <1>1, <3>2
  <2>3. ASSUME NEW a \in DOMAIN s, NEW b \in DOMAIN t, s[a].idx = t[b].idx
        PROVE  FALSE
    BY <1>9, <2>3 DEF Idxs
  <2> QED
    BY <1>2, <1>4, <2>1, <2>2, <2>3
<1> QED
  BY <1>1, <1>6, <1>8, <1>9
-----------------------------------------------------------------------------
(***************************************************************************)
(* A burst.                                                                *)
(***************************************************************************)

\* More steps of a gap take longer.
LEMMA TimesMonotone ==
  ASSUME NEW a \in Nat, NEW b \in Nat, NEW g \in Nat, a <= b
  PROVE  a * g \in Nat /\ b * g \in Nat /\ a * g <= b * g
<1>1. PICK d \in Nat : b = a + d
  OBVIOUS
<1>2. b * g = a * g + d * g
  BY <1>1
<1>3. a * g \in Nat /\ d * g \in Nat
  OBVIOUS
<1> QED
  BY <1>2, <1>3

\* A phase of a burst: its entries are those of the bucket, from the phase's start to
\* as many gaps later as there are entries before the last, in the order of the key.
PhaseIs(d, S, start) ==
  /\ d \in Seq(OutEntry) /\ Idxs(d) = S /\ NoRepeat(d)
  /\ \A a \in EntriesOf(d) :
       start <= a.cycle /\ a.cycle <= start + (Cardinality(S) - 1) * gap.issue
  /\ \A a, b \in EntriesOf(d) : Before(trace, a.idx, b.idx) => a.cycle <= b.cycle

\* assign_dense_cycles makes a phase of a sorted list.
LEMMA DensePhase ==
  ASSUME BatchType, NEW S \in SUBSET (1 .. Len(trace)), NEW p \in Sorted(trace, S),
         NEW start \in Nat
  PROVE  PhaseIs(Dense(p, start), S, start)
<1> DEFINE d == Dense(p, start)
<1>1. PICK n \in Nat : n = Cardinality(S)
  BY SortedFacts
<1>2. PICK g \in Nat : g = gap.issue
  BY JobFacts
<1>3. /\ p \in [1 .. n -> S] /\ DOMAIN p = 1 .. n
      /\ \A i \in S : \E k \in 1 .. n : p[k] = i
      /\ \A k, m \in 1 .. n : Before(trace, p[k], p[m]) => k < m
      /\ \A k, m \in 1 .. n : p[k] = p[m] => k = m
  BY <1>1, SortedFacts
<1>4. d = [k \in 1 .. n |-> [idx |-> p[k], cycle |-> start + (k - 1) * g]]
  BY <1>2, <1>3 DEF Dense, At
<1>5. ASSUME NEW k \in 1 .. n, NEW m \in 1 .. n, k <= m
      PROVE  /\ start + (k - 1) * g \in Nat /\ start + (m - 1) * g \in Nat
             /\ start <= start + (k - 1) * g
             /\ start + (k - 1) * g <= start + (m - 1) * g
  <2>1. k - 1 \in Nat /\ m - 1 \in Nat /\ k - 1 <= m - 1
    BY <1>5
  <2>2. (k - 1) * g \in Nat /\ (m - 1) * g \in Nat /\ (k - 1) * g <= (m - 1) * g
    BY <2>1, TimesMonotone
  <2> QED
    BY <2>2
<1>6. /\ DOMAIN d = 1 .. n
      /\ \A k \in 1 .. n : d[k].idx = p[k] /\ d[k].cycle = start + (k - 1) * g
  BY <1>4
<1> HIDE DEF d
<1>7. \A k \in 1 .. n : d[k] \in OutEntry
  <2>1. ASSUME NEW k \in 1 .. n
        PROVE  d[k] \in OutEntry
    <3>1. p[k] \in Nat \ {0}
      BY <1>3, JobFacts
    <3>2. start + (k - 1) * g \in Int
      BY <1>5
    <3>3. d[k] = [idx |-> p[k], cycle |-> start + (k - 1) * g]
      BY <1>4
    <3> QED
      BY <3>1, <3>2, <3>3 DEF OutEntry
  <2> QED
    BY <2>1
<1>8. d \in Seq(OutEntry)
  <2>1. d \in [1 .. n -> OutEntry]
    BY <1>4, <1>7
  <2> QED
    BY <2>1
<1>9. Idxs(d) = S /\ NoRepeat(d)
  <2>1. Idxs(d) = {p[k] : k \in 1 .. n}
    BY <1>6 DEF Idxs
  <2>2. {p[k] : k \in 1 .. n} = S
    <3>1. \A k \in 1 .. n : p[k] \in S
      BY <1>3
    <3>2. \A i \in S : \E k \in 1 .. n : i = p[k]
      BY <1>3
    <3> QED
      BY ONLY <3>1, <3>2
  <2>3. NoRepeat(d)
    BY <1>3, <1>6 DEF NoRepeat
  <2> QED
    BY <2>1, <2>2, <2>3
<1>10. ASSUME NEW a \in EntriesOf(d)
       PROVE  \E k \in 1 .. n : a.idx = p[k] /\ a.cycle = start + (k - 1) * g
  BY <1>6 DEF EntriesOf
<1>11. ASSUME NEW a \in EntriesOf(d)
       PROVE  start <= a.cycle /\ a.cycle <= start + (Cardinality(S) - 1) * gap.issue
  <2>1. PICK k \in 1 .. n : a.cycle = start + (k - 1) * g
    BY <1>10
  <2>2. n \in 1 .. n /\ k <= n
    OBVIOUS
  <2>3. start <= start + (k - 1) * g /\ start + (k - 1) * g <= start + (n - 1) * g
    BY <1>5, <2>2
  <2> QED
    BY <1>1, <1>2, <2>1, <2>3
<1>12. ASSUME NEW a \in EntriesOf(d), NEW b \in EntriesOf(d), Before(trace, a.idx, b.idx)
       PROVE  a.cycle <= b.cycle
  <2>1. PICK k \in 1 .. n : a.idx = p[k] /\ a.cycle = start + (k - 1) * g
    BY <1>10
  <2>2. PICK m \in 1 .. n : b.idx = p[m] /\ b.cycle = start + (m - 1) * g
    BY <1>10
  <2>3. k < m
    BY <1>3, <1>12, <2>1, <2>2
  <2>4. k <= m
    BY <2>3
  <2>5. start + (k - 1) * g <= start + (m - 1) * g
    BY <1>5, <2>4
  <2> QED
    BY <2>1, <2>2, <2>5
<1> QED
  BY <1>8, <1>9, <1>11, <1>12 DEF PhaseIs, d
-----------------------------------------------------------------------------
(***************************************************************************)
(* The steps.                                                              *)
(***************************************************************************)

\* The input and the options stay, and what is defined from them.
LEMMA SameJob ==
  ASSUME job' = job, gap' = gap
  PROVE  /\ trace' = trace /\ windows' = windows /\ NWindows' = NWindows
         /\ Entries(trace)' = Entries(trace)
         /\ \A i, w : (GoesTo(trace[i], w))' <=> GoesTo(trace[i], w)
         /\ \A i : (Free(i))' <=> Free(i)
         /\ \A i : (IsGcell(trace[i]))' <=> IsGcell(trace[i])
<1>1. trace' = trace /\ windows' = windows /\ NWindows' = NWindows
  BY DEF trace, windows, NWindows
<1>2. \A i : (IsGcell(trace[i]))' <=> IsGcell(trace[i])
  BY <1>1 DEF IsGcell
<1>3. \A i, w : (GoesTo(trace[i], w))' <=> GoesTo(trace[i], w)
  BY <1>1, <1>2 DEF GoesTo
<1>4. \A i : (Free(i))' <=> Free(i)
  BY <1>1, <1>3 DEF Free
<1> QED
  BY <1>1, <1>2, <1>3, <1>4

\* A step is one of the batch rewriter's or leaves it alone.
LEMMA BatchSteps ==
  ASSUME [BothNext]_bothVars
  PROVE  Step \/ UNCHANGED batchVars
BY DEF BothNext, StreamStep, BatchStep, BothStopped, bothVars

\* A request that goes to a bucket is of the array.
LEMMA GoesToFacts ==
  ASSUME BatchType, NEW i \in 1 .. Len(trace), NEW w \in 1 .. NWindows, GoesTo(trace[i], w)
  PROVE  /\ IsGcell(trace[i]) /\ trace[i].op \in {"READ", "WRITE"}
         /\ windows[w].begin <= trace[i].cycle /\ trace[i].cycle <= windows[w].end
         /\ \A v \in 1 .. NWindows : GoesTo(trace[i], v) => v = w
<1>1. /\ IsGcell(trace[i]) /\ trace[i].op \in {"READ", "WRITE"}
      /\ IsWindowForCycle(windows, trace[i].cycle, w)
  BY DEF GoesTo
<1>2. ASSUME NEW v \in 1 .. NWindows, GoesTo(trace[i], v)
      PROVE  v = w
  <2>1. IsWindowForCycle(windows, trace[i].cycle, v)
    BY <1>2 DEF GoesTo
  <2>2. v \in Nat /\ w \in Nat
    BY JobFacts
  <2>3. ~ (v \in 1 .. w - 1) /\ ~ (w \in 1 .. v - 1)
    BY <1>1, <2>1 DEF IsWindowForCycle
  <2>4. 1 <= v /\ 1 <= w
    BY JobFacts
  <2> QED
    BY <2>2, <2>3, <2>4
<1> QED
  BY <1>1, <1>2 DEF IsWindowForCycle, InWindow

\* In the first loop: one more entry is read.
LEMMA OneMoreRead ==
  ASSUME BatchType, job' = job, gap' = gap, entry \in 1 .. Len(trace), entry' = entry + 1
  PROVE  /\ IsEntry(trace[entry]) => ReadEntries' = ReadEntries \cup {entry}
         /\ ~ IsEntry(trace[entry]) => ReadEntries' = ReadEntries
         /\ entry \notin ReadEntries
<1>1. \A i \in Entries(trace) : i \in Nat
  BY JobFacts
<1>2. entry \in Nat
  BY JobFacts
<1>3. Entries(trace)' = Entries(trace)
  BY SameJob
<1>4. \A i \in Entries(trace) : i < entry + 1 <=> i < entry \/ i = entry
  BY <1>1, <1>2
<1>5. entry \in Entries(trace) <=> IsEntry(trace[entry])
  BY DEF Entries
<1> QED
  BY <1>2, <1>3, <1>4, <1>5 DEF ReadEntries

\* The start of a window's writes: not before the window, and after all its reads.
LEMMA WriteStartFacts ==
  ASSUME BatchType, NEW w \in 1 .. NWindows
  PROVE  /\ WriteStart(w) \in Nat /\ windows[w].begin <= WriteStart(w)
         /\ Reads(w) # {} =>
              windows[w].begin + (Cardinality(Reads(w)) - 1) * gap.issue < WriteStart(w)
<1>1. bucket[w] \subseteq 1 .. Len(trace)
  BY DEF BatchType
<1>2. Reads(w) \in SUBSET (1 .. Len(trace))
  BY <1>1 DEF Reads
<1>3. PICK n \in Nat : n = Cardinality(Reads(w))
  BY <1>2, JobFacts, LineNumbersFinite
<1>4. PICK b \in Nat : b = windows[w].begin
  BY JobFacts
<1>5. PICK g \in Nat : g = gap.issue
  BY JobFacts
<1>6. PICK h \in Nat : h = gap.phase
  BY JobFacts
<1>7. CASE Reads(w) = {}
  BY <1>4, <1>7 DEF WriteStart
<1>8. CASE Reads(w) # {}
  <2>1. n # 0
    BY <1>2, <1>3, <1>8, JobFacts, LineNumbersFinite, FS_EmptySet
  <2>2. (n - 1) * g \in Nat
    BY <2>1, TimesMonotone
  <2>3. WriteStart(w) = b + (n - 1) * g + h + (IF g > 1 THEN g ELSE 1)
    BY <1>3, <1>4, <1>5, <1>6, <1>8 DEF WriteStart
  <2>4. PICK q \in Nat : q = (n - 1) * g
    BY <2>2
  <2>5. WriteStart(w) = b + q + h + (IF g > 1 THEN g ELSE 1)
    BY <2>3, <2>4
  <2>6. WriteStart(w) \in Nat /\ b <= WriteStart(w) /\ b + q < WriteStart(w)
    BY <2>5
  <2> QED
    BY <1>3, <1>4, <1>5, <2>4, <2>6
<1> QED
  BY <1>7, <1>8

\* Emitting a window appends its reads and then its writes.
LEMMA EmitFacts ==
  ASSUME BatchType, EmitWindow
  PROVE  /\ win \in 1 .. NWindows
         /\ \E d, e : /\ output' = (output \o d) \o e
                      /\ PhaseIs(d, Reads(win), windows[win].begin)
                      /\ PhaseIs(e, Writes(win), WriteStart(win))
<1>1. win \in 1 .. NWindows
  BY JobFacts DEF BatchType, EmitWindow
<1>2. PICK r \in Sorted(trace, Reads(win)), w \in Sorted(trace, Writes(win)) :
        output' = (output \o Dense(r, windows[win].begin)) \o Dense(w, WriteStart(win))
  BY DEF EmitWindow
<1>3. bucket[win] \subseteq 1 .. Len(trace)
  BY <1>1 DEF BatchType
<1>4. Reads(win) \in SUBSET (1 .. Len(trace)) /\ Writes(win) \in SUBSET (1 .. Len(trace))
  BY <1>3 DEF Reads, Writes
<1>5. windows[win].begin \in Nat /\ WriteStart(win) \in Nat
  BY <1>1, JobFacts, WriteStartFacts
<1>6. /\ PhaseIs(Dense(r, windows[win].begin), Reads(win), windows[win].begin)
      /\ PhaseIs(Dense(w, WriteStart(win)), Writes(win), WriteStart(win))
  BY <1>4, <1>5, DensePhase
<1> QED
  BY <1>1, <1>2, <1>6

\* A list in another arrangement has the same entries.
LEMMA Rearranged ==
  ASSUME NEW s \in Seq(OutEntry), NEW p \in Arrangements(DOMAIN s),
         NEW q, q = [k \in DOMAIN s |-> s[p[k]]]
  PROVE  /\ q \in Seq(OutEntry) /\ DOMAIN q = DOMAIN s /\ DOMAIN p = DOMAIN s
         /\ \A k \in DOMAIN s : q[k] = s[p[k]]
         /\ EntriesOf(q) = EntriesOf(s)
         /\ NoRepeat(s) => NoRepeat(q)
<1>1. PICK n \in Nat : n = Len(s)
  OBVIOUS
<1>2. DOMAIN s = 1 .. n /\ \A k \in 1 .. n : s[k] \in OutEntry
  BY <1>1
<1>3. Cardinality(1 .. n) = n /\ IsFiniteSet(1 .. n)
  BY FS_Interval
<1>4. p \in [1 .. n -> 1 .. n] /\ \A i \in 1 .. n : \E k \in 1 .. n : p[k] = i
  BY <1>2, <1>3 DEF Arrangements
<1>5. \A k, m \in 1 .. n : p[k] = p[m] => k = m
  <2>1. p \in Surjection(1 .. n, 1 .. n)
    BY <1>4, Fun_IsSurj
  <2>2. p \in Injection(1 .. n, 1 .. n)
    BY <1>3, <2>1, FS_SurjSameCardinalityImpliesInj
  <2> QED
    BY <2>2, Fun_InjectionProperties
<1>6. q \in [1 .. n -> OutEntry] /\ \A k \in 1 .. n : q[k] = s[p[k]]
  BY <1>2, <1>4
<1>7. q \in Seq(OutEntry) /\ DOMAIN q = 1 .. n /\ DOMAIN p = 1 .. n
  BY <1>4, <1>6
<1>8. EntriesOf(q) = EntriesOf(s)
  <2>1. ASSUME NEW k \in 1 .. n PROVE q[k] \in EntriesOf(s)
    <3>1. p[k] \in 1 .. n /\ q[k] = s[p[k]]
      BY <1>4, <1>6
    <3> QED
      BY <1>2, <3>1 DEF EntriesOf
  <2>2. ASSUME NEW i \in 1 .. n PROVE s[i] \in EntriesOf(q)
    <3>1. PICK k \in 1 .. n : p[k] = i
      BY <1>4
    <3>2. q[k] = s[i]
      BY <1>6, <3>1
    <3> QED
      BY <1>7, <3>2 DEF EntriesOf
  <2> QED
    BY <1>2, <1>7, <2>1, <2>2 DEF EntriesOf
<1>9. NoRepeat(s) => NoRepeat(q)
  <2>1. \A k, m \in 1 .. n : q[k].idx = q[m].idx => s[p[k]].idx = s[p[m]].idx
    BY <1>6
  <2>2. \A k \in 1 .. n : p[k] \in 1 .. n
    BY <1>4
  <2> QED
    BY <1>2, <1>5, <1>7, <2>1, <2>2 DEF NoRepeat
<1> QED
  BY <1>2, <1>6, <1>7, <1>8, <1>9

\* The last sort moves the entries and does nothing else to them.
LEMMA SortFacts ==
  ASSUME BatchType, SortOutput
  PROVE  /\ output' \in Seq(OutEntry) /\ DOMAIN output' = DOMAIN output
         /\ EntriesOf(output') = EntriesOf(output)
         /\ NoRepeat(output) => NoRepeat(output')
         /\ \A k, m \in DOMAIN output' : k < m => ~ SortsBefore(output'[m], output'[k])
<1>1. PICK p \in Arrangements(DOMAIN output) :
        /\ \A k, m \in DOMAIN p : k < m => ~ SortsBefore(output[p[m]], output[p[k]])
        /\ output' = [k \in DOMAIN output |-> output[p[k]]]
  BY DEF SortOutput, SortedOutputs
<1>2. /\ output' \in Seq(OutEntry) /\ DOMAIN output' = DOMAIN output /\ DOMAIN p = DOMAIN output
      /\ \A k \in DOMAIN output : output'[k] = output[p[k]]
      /\ EntriesOf(output') = EntriesOf(output)
      /\ NoRepeat(output) => NoRepeat(output')
  BY <1>1, Rearranged DEF BatchType
<1> QED
  BY <1>1, <1>2
-----------------------------------------------------------------------------
(***************************************************************************)
(* The invariant.                                                          *)
(***************************************************************************)

\* Every step keeps the types.
LEMMA TypeNext == BatchType /\ [BothNext]_bothVars => BatchType'
<1> SUFFICES ASSUME BatchType, [BothNext]_bothVars PROVE BatchType'
  OBVIOUS
<1>1. /\ Len(trace) \in Nat /\ NWindows \in Nat /\ entry \in Nat /\ win \in Nat /\ outside \in Nat
      /\ \A i \in 1 .. Len(trace) : i \in Nat \ {0} /\ trace[i].cycle \in Nat
  BY JobFacts DEF BatchType
<1>2. ASSUME job' = job, gap' = gap,
             step' \in {"bucket", "emit", "sort", "done"}, entry' \in 1 .. Len(trace) + 1,
             win' \in 1 .. NWindows + 1,
             bucket' \in [1 .. NWindows -> SUBSET (1 .. Len(trace))],
             output' \in Seq(OutEntry), outside' \in Nat
      PROVE  BatchType'
  BY <1>2, SameJob DEF BatchType
<1>3. CASE UNCHANGED batchVars
  BY <1>2, <1>3 DEF BatchType, batchVars
<1>4. CASE SkipLine
  <2>1. entry' \in 1 .. Len(trace) + 1
    BY <1>1, <1>4 DEF SkipLine, BatchType
  <2> QED
    BY <1>2, <1>4, <2>1 DEF SkipLine, BatchType
<1>5. CASE BucketEntry
  <2>1. entry \in 1 .. Len(trace) /\ entry' \in 1 .. Len(trace) + 1
    BY <1>1, <1>5 DEF BucketEntry, BatchType
  <2>2. bucket' \in [1 .. NWindows -> SUBSET (1 .. Len(trace))]
    <3>1. bucket \in [1 .. NWindows -> SUBSET (1 .. Len(trace))]
      BY DEF BatchType
    <3>2. CASE bucket' = bucket
      BY <3>1, <3>2
    <3>3. ASSUME NEW w \in 1 .. NWindows, bucket' = [bucket EXCEPT ![w] = @ \cup {entry}]
          PROVE  bucket' \in [1 .. NWindows -> SUBSET (1 .. Len(trace))]
      BY ONLY <2>1, <3>1, <3>3
    <3>4. \/ bucket' = bucket
          \/ \E w \in 1 .. NWindows : bucket' = [bucket EXCEPT ![w] = @ \cup {entry}]
      BY <1>5, Zenon DEF BucketEntry
    <3> QED
      BY <3>2, <3>3, <3>4, Zenon
  <2>3. At(entry, trace[entry].cycle) \in OutEntry
    BY <1>1, <2>1 DEF At, OutEntry
  <2>4. output' \in Seq(OutEntry)
    <3>1. output' = output \/ output' = Append(output, At(entry, trace[entry].cycle))
      BY <1>5, Zenon DEF BucketEntry
    <3>2. output \in Seq(OutEntry)
      BY DEF BatchType
    <3>3. Append(output, At(entry, trace[entry].cycle)) \in Seq(OutEntry)
      BY <2>3, <3>2, AppendProperties
    <3> QED
      BY <3>1, <3>2, <3>3
  <2>5. outside' \in Nat
    <3>1. outside' = outside \/ outside' = outside + 1
      BY <1>5 DEF BucketEntry
    <3> QED
      BY <1>1, <3>1
  <2> QED
    BY <1>2, <1>5, <2>1, <2>2, <2>4, <2>5 DEF BucketEntry, BatchType
<1>6. CASE BucketsFull
  BY <1>2, <1>6 DEF BucketsFull, BatchType
<1>7. CASE EmitWindow
  <2>1. PICK d, e : /\ output' = (output \o d) \o e
                    /\ PhaseIs(d, Reads(win), windows[win].begin)
                    /\ PhaseIs(e, Writes(win), WriteStart(win))
    BY <1>7, EmitFacts
  <2>2. output' \in Seq(OutEntry)
    <3>1. d \in Seq(OutEntry) /\ e \in Seq(OutEntry) /\ output \in Seq(OutEntry)
      BY <2>1 DEF PhaseIs, BatchType
    <3> QED
      BY <2>1, <3>1
  <2>3. win' \in 1 .. NWindows + 1
    BY <1>1, <1>7 DEF EmitWindow, BatchType
  <2> QED
    BY <1>2, <1>7, <2>2, <2>3 DEF EmitWindow, BatchType
<1>8. CASE BucketsEmitted
  BY <1>2, <1>8 DEF BucketsEmitted, BatchType
<1>9. CASE SortOutput
  <2>1. output' \in Seq(OutEntry)
    BY <1>9, SortFacts
  <2> QED
    BY <1>2, <1>9, <2>1 DEF SortOutput, BatchType
<1> QED
  BY BatchSteps, <1>3, <1>4, <1>5, <1>6, <1>7, <1>8, <1>9 DEF Step

\* Every step keeps what the loops have done so far.
LEMMA BucketNext == BatchType /\ BucketInv /\ [BothNext]_bothVars => BucketInv'
<1> SUFFICES ASSUME BatchType, BucketInv, [BothNext]_bothVars PROVE BucketInv'
  OBVIOUS
<1>1. /\ Len(trace) \in Nat /\ NWindows \in Nat /\ entry \in Nat /\ win \in Nat /\ outside \in Nat
      /\ entry \in 1 .. Len(trace) + 1 /\ win \in 1 .. NWindows + 1
      /\ bucket \in [1 .. NWindows -> SUBSET (1 .. Len(trace))]
  BY JobFacts DEF BatchType
<1>2. job' = job /\ gap' = gap =>
        /\ NWindows' = NWindows /\ Len(trace)' = Len(trace) /\ Entries(trace)' = Entries(trace)
        /\ \A i, w : (GoesTo(trace[i], w))' <=> GoesTo(trace[i], w)
        /\ \A i : (Free(i))' <=> Free(i)
        /\ \A i : (IsGcell(trace[i]))' <=> IsGcell(trace[i])
  BY SameJob
<1> DEFINE Out == {i \in ReadEntries : IsGcell(trace[i]) /\ Free(i)}
<1>3. \* A step of a later loop, or one past a line that is no entry.
      ASSUME job' = job, gap' = gap, ReadEntries' = ReadEntries, bucket' = bucket,
             outside' = outside,
             step' = "bucket" => win' = 1,
             step' # "bucket" => entry' = Len(trace) + 1,
             step' \in {"sort", "done"} => win' = NWindows + 1
      PROVE  BucketInv'
  <2>1. Out' = Out
    BY <1>2, <1>3
  <2>2. \A w \in 1 .. NWindows : bucket'[w] = {i \in ReadEntries' : (GoesTo(trace[i], w))'}
    BY <1>2, <1>3 DEF BucketInv
  <2> QED
    BY <1>2, <1>3, <2>1, <2>2 DEF BucketInv
<1>4. job' = job /\ gap' = gap /\ entry' = entry => ReadEntries' = ReadEntries
  BY <1>2 DEF ReadEntries
<1>5. CASE UNCHANGED batchVars
  BY <1>3, <1>4, <1>5 DEF BucketInv, batchVars
<1>6. CASE SkipLine
  <2>1. entry \in 1 .. Len(trace)
    BY <1>1, <1>6 DEF SkipLine
  <2>2. ReadEntries' = ReadEntries
    BY <1>6, <2>1, OneMoreRead DEF SkipLine
  <2> QED
    BY <1>3, <1>6, <2>2 DEF SkipLine, BucketInv
<1>7. CASE BucketEntry
  <2>1. entry \in 1 .. Len(trace) /\ job' = job /\ gap' = gap /\ entry' = entry + 1
        /\ IsEntry(trace[entry]) /\ step' = "bucket" /\ step = "bucket" /\ win' = win
    BY <1>1, <1>7 DEF BucketEntry
  <2>2. ReadEntries' = ReadEntries \cup {entry} /\ entry \notin ReadEntries
    BY <2>1, OneMoreRead
  <2>3. CASE \E w \in 1 .. NWindows :
               /\ GoesTo(trace[entry], w) /\ bucket' = [bucket EXCEPT ![w] = @ \cup {entry}]
               /\ UNCHANGED <<output, outside>>
    <3>1. PICK w \in 1 .. NWindows :
            /\ GoesTo(trace[entry], w) /\ bucket' = [bucket EXCEPT ![w] = @ \cup {entry}]
            /\ UNCHANGED <<output, outside>>
      BY <2>3
    <3>2. \A v \in 1 .. NWindows : GoesTo(trace[entry], v) <=> v = w
      BY <2>1, <3>1, GoesToFacts
    <3>3. ASSUME NEW v \in 1 .. NWindows
          PROVE  bucket'[v] = {i \in ReadEntries' : (GoesTo(trace[i], v))'}
      <4>1. bucket[v] = {i \in ReadEntries : GoesTo(trace[i], v)}
        BY DEF BucketInv
      <4>2. CASE v = w
        <5>1. bucket'[v] = bucket[v] \cup {entry}
          BY <1>1, <3>1, <4>2
        <5> QED
          BY <1>2, <2>1, <2>2, <3>2, <4>1, <4>2, <5>1
      <4>3. CASE v # w
        <5>1. bucket'[v] = bucket[v]
          BY <1>1, <3>1, <4>3
        <5> QED
          BY <1>2, <2>1, <2>2, <3>2, <4>1, <4>3, <5>1
      <4> QED
        BY <4>2, <4>3
    <3>4. Out' = Out
      <4>1. ~ Free(entry)
        BY <3>1 DEF Free
      <4> QED
        BY <1>2, <2>1, <2>2, <4>1
    <3> QED
      BY <1>2, <2>1, <3>1, <3>3, <3>4 DEF BucketInv
  <2>4. CASE /\ \A w \in 1 .. NWindows : ~ GoesTo(trace[entry], w)
             /\ outside' = IF IsGcell(trace[entry]) THEN outside + 1 ELSE outside
             /\ UNCHANGED bucket
    <3>1. Free(entry)
      BY <2>4 DEF Free
    <3>2. ASSUME NEW v \in 1 .. NWindows
          PROVE  bucket'[v] = {i \in ReadEntries' : (GoesTo(trace[i], v))'}
      <4>1. bucket[v] = {i \in ReadEntries : GoesTo(trace[i], v)}
        BY DEF BucketInv
      <4> QED
        BY <1>2, <2>1, <2>2, <2>4, <4>1
    <3>3. IsFiniteSet(Out) /\ Cardinality(Out) = outside /\ entry \notin Out
      <4>1. Out \in SUBSET (1 .. Len(trace))
        BY JobFacts
      <4> QED
        BY <1>1, <2>2, <4>1, LineNumbersFinite DEF BucketInv
    <3>4. Cardinality(Out') = outside'
      <4>1. CASE IsGcell(trace[entry])
        <5>1. Out' = Out \cup {entry}
          BY <1>2, <2>1, <2>2, <3>1, <4>1
        <5> HIDE DEF Out
        <5> QED
          BY <2>4, <3>3, <4>1, <5>1, FS_AddElement
      <4>2. CASE ~ IsGcell(trace[entry])
        <5>1. Out' = Out
          BY <1>2, <2>1, <2>2, <4>2
        <5> HIDE DEF Out
        <5> QED
          BY <2>4, <3>3, <4>2, <5>1
      <4> QED
        BY <4>1, <4>2
    <3> QED
      BY <1>2, <2>1, <3>2, <3>4 DEF BucketInv
  <2> QED
    BY <1>7, <2>3, <2>4 DEF BucketEntry
<1>8. CASE BucketsFull
  BY <1>3, <1>4, <1>8 DEF BucketsFull, BucketInv
<1>9. CASE EmitWindow
  BY <1>3, <1>4, <1>9 DEF EmitWindow, BucketInv
<1>10. CASE BucketsEmitted
  BY <1>3, <1>4, <1>10 DEF BucketsEmitted, BucketInv
<1>11. CASE SortOutput
  BY <1>3, <1>4, <1>11 DEF SortOutput, BucketInv
<1> QED
  BY BatchSteps, <1>5, <1>6, <1>7, <1>8, <1>9, <1>10, <1>11 DEF Step

\* The buckets are disjoint, and hold no entry that goes to the output at once.
LEMMA BucketFacts ==
  ASSUME BatchType, BucketInv, NEW w \in 1 .. NWindows
  PROVE  /\ bucket[w] \subseteq ReadEntries
         /\ \A i \in bucket[w] : /\ i \in 1 .. Len(trace) /\ ~ Free(i) /\ GoesTo(trace[i], w)
                                 /\ \A v \in 1 .. NWindows : i \in bucket[v] => v = w
         /\ bucket[w] = Reads(w) \cup Writes(w) /\ Reads(w) \cap Writes(w) = {}
<1>1. bucket[w] = {i \in ReadEntries : GoesTo(trace[i], w)}
  BY DEF BucketInv
<1>2. \A v \in 1 .. NWindows : \A i \in bucket[v] : GoesTo(trace[i], v)
  BY DEF BucketInv
<1>3. \A i \in bucket[w] : i \in 1 .. Len(trace)
  BY <1>1, JobFacts
<1>4. ASSUME NEW i \in bucket[w]
      PROVE  /\ ~ Free(i) /\ trace[i].op \in {"READ", "WRITE"}
             /\ \A v \in 1 .. NWindows : i \in bucket[v] => v = w
  <2>1. GoesTo(trace[i], w) /\ i \in 1 .. Len(trace)
    BY <1>2, <1>3
  <2> QED
    BY <1>2, <2>1, GoesToFacts DEF Free
<1>5. bucket[w] = Reads(w) \cup Writes(w) /\ Reads(w) \cap Writes(w) = {}
  BY <1>4 DEF Reads, Writes
<1> QED
  BY <1>1, <1>3, <1>4, <1>5

\* A list of one entry.
LEMMA OneLine ==
  ASSUME NEW i, NEW c
  PROVE  /\ EntriesOf(<<At(i, c)>>) = {At(i, c)} /\ Idxs(<<At(i, c)>>) = {i}
         /\ NoRepeat(<<At(i, c)>>) /\ At(i, c).idx = i /\ At(i, c).cycle = c
BY DEF EntriesOf, Idxs, NoRepeat, At

\* An entry that is passed on is appended.
LEMMA AppendLine ==
  ASSUME BatchType, NEW i \in 1 .. Len(trace)
  PROVE  LET e == At(i, trace[i].cycle)  s == Append(output, e) IN
         /\ s \in Seq(OutEntry)
         /\ EntriesOf(s) = EntriesOf(output) \cup {e}
         /\ Idxs(s) = Idxs(output) \cup {i}
         /\ NoRepeat(output) /\ i \notin Idxs(output) => NoRepeat(s)
<1> DEFINE e == At(i, trace[i].cycle)
<1>1. e \in OutEntry
  BY JobFacts DEF At, OutEntry
<1>2. EntriesOf(<<e>>) = {e} /\ Idxs(<<e>>) = {i} /\ NoRepeat(<<e>>)
  BY OneLine
<1> HIDE DEF e
<1>3. output \in Seq(OutEntry) /\ <<e>> \in Seq(OutEntry)
  BY <1>1 DEF BatchType
<1>4. Append(output, e) = output \o <<e>>
  BY <1>1, <1>3
<1>5. /\ output \o <<e>> \in Seq(OutEntry)
      /\ EntriesOf(output \o <<e>>) = EntriesOf(output) \cup EntriesOf(<<e>>)
      /\ Idxs(output \o <<e>>) = Idxs(output) \cup Idxs(<<e>>)
      /\ NoRepeat(output) /\ NoRepeat(<<e>>) /\ Idxs(output) \cap Idxs(<<e>>) = {}
         => NoRepeat(output \o <<e>>)
  BY <1>3, ConcatLines
<1>6. /\ Append(output, e) \in Seq(OutEntry)
      /\ EntriesOf(Append(output, e)) = EntriesOf(output) \cup {e}
      /\ Idxs(Append(output, e)) = Idxs(output) \cup {i}
      /\ NoRepeat(output) /\ i \notin Idxs(output) => NoRepeat(Append(output, e))
  BY <1>2, <1>4, <1>5
<1> QED
  BY <1>6 DEF e

\* Emitting appends a window's entries.
LEMMA EmitLines ==
  ASSUME BatchType, NEW d, NEW e, NEW S, NEW T, NEW from, NEW to,
         PhaseIs(d, S, from), PhaseIs(e, T, to), S \cap T = {}
  PROVE  LET s == (output \o d) \o e IN
         /\ EntriesOf(s) = EntriesOf(output) \cup EntriesOf(d) \cup EntriesOf(e)
         /\ Idxs(s) = Idxs(output) \cup S \cup T
         /\ NoRepeat(output) /\ Idxs(output) \cap (S \cup T) = {} => NoRepeat(s)
<1>1. /\ output \in Seq(OutEntry) /\ d \in Seq(OutEntry) /\ e \in Seq(OutEntry)
      /\ Idxs(d) = S /\ Idxs(e) = T /\ NoRepeat(d) /\ NoRepeat(e)
  BY DEF PhaseIs, BatchType
<1>2. /\ output \o d \in Seq(OutEntry)
      /\ EntriesOf(output \o d) = EntriesOf(output) \cup EntriesOf(d)
      /\ Idxs(output \o d) = Idxs(output) \cup S
      /\ NoRepeat(output) /\ Idxs(output) \cap S = {} => NoRepeat(output \o d)
  BY <1>1, ConcatLines
<1> DEFINE h == output \o d
<1>3. h \in Seq(OutEntry)
  BY <1>2
<1>4. /\ EntriesOf(h \o e) = EntriesOf(h) \cup EntriesOf(e)
      /\ Idxs(h \o e) = Idxs(h) \cup T
      /\ NoRepeat(h) /\ Idxs(h) \cap T = {} => NoRepeat(h \o e)
  <2> HIDE DEF h
  <2> QED
    BY <1>1, <1>3, ConcatLines
<1> QED
  BY <1>2, <1>4

\* What the buckets before the window hold.
Emitted == UNION {bucket[w] : w \in {w \in 1 .. NWindows : w < win}}

\* Every step keeps each entry in exactly one place.
LEMMA PlaceNext ==
  BatchType /\ BucketInv /\ PlaceInv /\ [BothNext]_bothVars => PlaceInv'
<1> SUFFICES ASSUME BatchType, BucketInv, PlaceInv, [BothNext]_bothVars PROVE PlaceInv'
  OBVIOUS
<1> DEFINE Passed == {i \in ReadEntries : Free(i)}
<1>1. /\ Len(trace) \in Nat /\ NWindows \in Nat /\ entry \in Nat /\ win \in Nat
      /\ entry \in 1 .. Len(trace) + 1 /\ win \in 1 .. NWindows + 1
  BY JobFacts DEF BatchType
<1>2. job' = job /\ gap' = gap =>
        /\ NWindows' = NWindows /\ Entries(trace)' = Entries(trace)
        /\ \A i : (Free(i))' <=> Free(i)
  BY SameJob
<1>3. NoRepeat(output) /\ Idxs(output) = Passed \cup Emitted
  BY DEF PlaceInv, Emitted
<1>4. ASSUME NoRepeat(output'), Idxs(output') = Passed' \cup Emitted'
      PROVE  PlaceInv'
  BY <1>4 DEF PlaceInv, Emitted
<1>5. job' = job /\ gap' = gap /\ ReadEntries' = ReadEntries => Passed' = Passed
  BY <1>2
<1>6. job' = job /\ gap' = gap /\ bucket' = bucket /\ win' = win => Emitted' = Emitted
  BY <1>2 DEF Emitted
<1>7. job' = job /\ gap' = gap /\ entry' = entry => ReadEntries' = ReadEntries
  BY <1>2 DEF ReadEntries
<1>8. \A w \in 1 .. NWindows : \A i \in bucket[w] :
        ~ Free(i) /\ \A v \in 1 .. NWindows : i \in bucket[v] => v = w
  BY BucketFacts
<1>9. CASE UNCHANGED batchVars
  BY <1>3, <1>4, <1>5, <1>6, <1>7, <1>9 DEF batchVars
<1>10. CASE SkipLine
  <2>1. ReadEntries' = ReadEntries
    BY <1>1, <1>10, OneMoreRead DEF SkipLine
  <2>2. /\ job' = job /\ gap' = gap /\ bucket' = bucket /\ win' = win /\ output' = output
    BY <1>10 DEF SkipLine
  <2>3. Passed' = Passed /\ Emitted' = Emitted
    BY <1>5, <1>6, <2>1, <2>2
  <2> QED
    BY <1>3, <1>4, <2>2, <2>3
<1>11. CASE BucketEntry
  <2>1. /\ entry \in 1 .. Len(trace) /\ job' = job /\ gap' = gap /\ entry' = entry + 1
        /\ IsEntry(trace[entry]) /\ win' = win /\ win = 1
    BY <1>1, <1>11 DEF BucketEntry, BucketInv
  <2>2. ReadEntries' = ReadEntries \cup {entry} /\ entry \notin ReadEntries
    BY <2>1, OneMoreRead
  <2>3. Emitted = {} /\ Emitted' = {}
    <3>1. {w \in 1 .. NWindows : w < win} = {} /\ {w \in 1 .. NWindows' : w < win'} = {}
      BY <1>1, <1>2, <2>1
    <3> QED
      BY <3>1 DEF Emitted
  <2>4. CASE \E w \in 1 .. NWindows : GoesTo(trace[entry], w) /\ output' = output
    <3>1. ~ Free(entry) /\ output' = output
      BY <2>4 DEF Free
    <3>2. Passed' = Passed
      BY <1>2, <2>1, <2>2, <3>1
    <3> QED
      BY <1>3, <1>4, <2>3, <3>1, <3>2
  <2>5. CASE /\ \A w \in 1 .. NWindows : ~ GoesTo(trace[entry], w)
             /\ output' = Append(output, At(entry, trace[entry].cycle))
    <3>1. Free(entry)
      BY <2>5 DEF Free
    <3>2. Passed' = Passed \cup {entry}
      BY <1>2, <2>1, <2>2, <3>1
    <3>3. entry \notin Idxs(output)
      BY <1>3, <2>2, <2>3
    <3>4. Idxs(output') = Idxs(output) \cup {entry} /\ NoRepeat(output')
      BY <1>3, <2>1, <2>5, <3>3, AppendLine
    <3> QED
      BY <1>3, <1>4, <2>3, <3>2, <3>4
  <2> QED
    BY <1>11, <2>4, <2>5 DEF BucketEntry
<1>12. CASE BucketsFull
  BY <1>3, <1>4, <1>5, <1>6, <1>7, <1>12 DEF BucketsFull
<1>13. CASE EmitWindow
  <2>1. /\ job' = job /\ gap' = gap /\ bucket' = bucket /\ win' = win + 1 /\ entry' = entry
    BY <1>13 DEF EmitWindow
  <2>2. win \in 1 .. NWindows
    BY <1>13, EmitFacts
  <2>3. PICK d, e : /\ output' = (output \o d) \o e
                    /\ PhaseIs(d, Reads(win), windows[win].begin)
                    /\ PhaseIs(e, Writes(win), WriteStart(win))
    BY <1>13, EmitFacts
  <2>4. bucket[win] = Reads(win) \cup Writes(win) /\ Reads(win) \cap Writes(win) = {}
    BY <2>2, BucketFacts
  <2>5. /\ Idxs(output') = Idxs(output) \cup Reads(win) \cup Writes(win)
        /\ NoRepeat(output) /\ Idxs(output) \cap (Reads(win) \cup Writes(win)) = {}
           => NoRepeat(output')
    BY <2>3, <2>4, EmitLines
  <2>6. Emitted' = Emitted \cup bucket[win]
    <3>1. \A w \in 1 .. NWindows : w < win + 1 <=> w < win \/ w = win
      BY <1>1
    <3> QED
      BY <1>2, <2>1, <2>2, <3>1 DEF Emitted
  <2>7. Passed \cap bucket[win] = {} /\ Emitted \cap bucket[win] = {}
    <3>1. \A w \in 1 .. NWindows : w < win => w # win
      BY <1>1
    <3> QED
      BY <1>8, <2>2, <3>1 DEF Emitted
  <2>8. Passed' = Passed
    BY <1>5, <1>7, <2>1
  <2> HIDE DEF Passed
  <2> QED
    BY <1>3, <1>4, <2>4, <2>5, <2>6, <2>7, <2>8
<1>14. CASE BucketsEmitted
  BY <1>3, <1>4, <1>5, <1>6, <1>7, <1>14 DEF BucketsEmitted
<1>15. CASE SortOutput
  <2>1. EntriesOf(output') = EntriesOf(output) /\ NoRepeat(output')
    BY <1>3, <1>15, SortFacts
  <2>2. \A q : Idxs(q) = {e.idx : e \in EntriesOf(q)}
    BY DEF Idxs, EntriesOf
  <2>3. Idxs(output') = Idxs(output)
    BY <2>1, <2>2
  <2> QED
    BY <1>3, <1>4, <1>5, <1>6, <1>7, <1>15, <2>1, <2>3 DEF SortOutput
<1> QED
  BY BatchSteps, <1>9, <1>10, <1>11, <1>12, <1>13, <1>14, <1>15 DEF Step

\* What CycleInv says of one entry, and of two.
PlacedWell(a) ==
  /\ Free(a.idx) => a.cycle = trace[a.idx].cycle
  /\ \A w \in 1 .. NWindows : a.idx \in bucket[w] => windows[w].begin <= a.cycle
InPhases(a, b) ==
  \A w \in 1 .. NWindows :
    /\ a.idx \in Reads(w) /\ b.idx \in Writes(w) => a.cycle < b.cycle
    /\ \/ a.idx \in Reads(w) /\ b.idx \in Reads(w)
       \/ a.idx \in Writes(w) /\ b.idx \in Writes(w)
       => (Before(trace, a.idx, b.idx) => a.cycle <= b.cycle)

\* Every entry is read before it is placed.
LEMMA PlacedRead ==
  ASSUME BatchType, BucketInv, PlaceInv, NEW a \in EntriesOf(output)
  PROVE  /\ a.idx \in ReadEntries /\ a.idx \in 1 .. Len(trace) /\ a.cycle \in Int
         /\ Free(a.idx) \/ \E w \in 1 .. NWindows : w < win /\ a.idx \in bucket[w]
<1>1. a.idx \in Idxs(output)
  BY DEF EntriesOf, Idxs
<1>2. a.idx \in {i \in ReadEntries : Free(i)}
                \cup UNION {bucket[w] : w \in {w \in 1 .. NWindows : w < win}}
  BY <1>1 DEF PlaceInv
<1>3. a.idx \in ReadEntries
        /\ (Free(a.idx) \/ \E w \in 1 .. NWindows : w < win /\ a.idx \in bucket[w])
  BY <1>2, BucketFacts
<1>4. a \in OutEntry
  BY DEF EntriesOf, BatchType
<1> QED
  BY <1>3, <1>4, JobFacts DEF OutEntry

\* Every step keeps the cycles right.
LEMMA CycleNext ==
  BatchType /\ BucketInv /\ PlaceInv /\ CycleInv /\ [BothNext]_bothVars => CycleInv'
<1> SUFFICES ASSUME BatchType, BucketInv, PlaceInv, CycleInv, [BothNext]_bothVars
             PROVE  CycleInv'
  OBVIOUS
<1> USE DEF PlacedWell, InPhases
<1>1. /\ NWindows \in Nat /\ entry \in Nat /\ win \in Nat
      /\ entry \in 1 .. Len(trace) + 1 /\ win \in 1 .. NWindows + 1
  BY JobFacts DEF BatchType
<1>2. \A a, b \in EntriesOf(output) : PlacedWell(a) /\ InPhases(a, b)
  BY DEF CycleInv
<1>3. job' = job /\ gap' = gap =>
        /\ trace' = trace /\ windows' = windows /\ NWindows' = NWindows
        /\ \A i : (Free(i))' <=> Free(i)
  BY SameJob
<1>4. ASSUME job' = job, gap' = gap, bucket' = bucket,
             \A a, b \in EntriesOf(output') : PlacedWell(a) /\ InPhases(a, b)
      PROVE  CycleInv'
  <2>1. \A w : Reads(w)' = Reads(w) /\ Writes(w)' = Writes(w)
    BY <1>3, <1>4 DEF Reads, Writes
  <2>2. \A i, j : (Before(trace, i, j))' <=> Before(trace, i, j)
    BY <1>3, <1>4 DEF Before
  <2> QED
    BY <1>3, <1>4, <2>1, <2>2 DEF CycleInv
<1>5. CASE UNCHANGED batchVars
  BY <1>2, <1>4, <1>5 DEF batchVars
<1>6. CASE SkipLine
  BY <1>2, <1>4, <1>6 DEF SkipLine
<1>7. CASE BucketEntry
  <2>1. /\ entry \in 1 .. Len(trace) /\ job' = job /\ gap' = gap /\ entry' = entry + 1
        /\ IsEntry(trace[entry]) /\ win = 1 /\ trace' = trace /\ NWindows' = NWindows
    BY <1>1, <1>3, <1>7 DEF BucketEntry, BucketInv
  <2>2. \A a \in EntriesOf(output) : Free(a.idx) /\ a.idx # entry
    <3>1. \A w \in 1 .. NWindows : ~ (w < win)
      BY <1>1, <2>1
    <3>2. entry \notin ReadEntries
      BY <2>1, OneMoreRead
    <3> QED
      BY <3>1, <3>2, PlacedRead
  <2>3. \A a \in EntriesOf(output') : Free(a.idx) /\ a.cycle = trace[a.idx].cycle
    <3>1. CASE output' = output
      BY <1>2, <2>2, <3>1
    <3>2. CASE /\ output' = Append(output, At(entry, trace[entry].cycle))
               /\ \A w \in 1 .. NWindows : ~ GoesTo(trace[entry], w)
      <4>1. EntriesOf(output') = EntriesOf(output) \cup {At(entry, trace[entry].cycle)}
        BY <2>1, <3>2, AppendLine
      <4>2. Free(entry)
        BY <3>2 DEF Free
      <4>3. PICK c : c = At(entry, trace[entry].cycle)
        OBVIOUS
      <4>4. c.idx = entry /\ c.cycle = trace[entry].cycle
        BY <4>3 DEF At
      <4>5. \A a \in EntriesOf(output) : a.cycle = trace[a.idx].cycle
        BY <1>2, <2>2
      <4> QED
        BY <2>2, <4>1, <4>2, <4>3, <4>4, <4>5
    <3> QED
      BY <1>7, <3>1, <3>2 DEF BucketEntry
  <2>4. \A a \in EntriesOf(output'), w \in 1 .. NWindows : a.idx \notin bucket'[w]
    <3>1. \A w \in 1 .. NWindows : \A i \in bucket'[w] : (GoesTo(trace[i], w))'
      <4>1. BucketInv'
        BY BucketNext
      <4> QED
        BY <2>1, <4>1 DEF BucketInv
    <3>2. \A w \in 1 .. NWindows : \A i \in bucket'[w] : ~ Free(i)
      BY <2>1, <3>1, SameJob DEF Free
    <3> QED
      BY <2>3, <3>2
  <2>5. \A a \in EntriesOf(output') : Free(a.idx)' /\ a.cycle = trace'[a.idx].cycle
    BY <1>3, <2>1, <2>3
  <2>6. \A w : Reads(w)' \subseteq bucket'[w] /\ Writes(w)' \subseteq bucket'[w]
    BY DEF Reads, Writes
  <2> QED
    BY <2>1, <2>4, <2>5, <2>6 DEF CycleInv
<1>8. CASE BucketsFull
  BY <1>2, <1>4, <1>8 DEF BucketsFull
<1>9. CASE EmitWindow
  <2>1. job' = job /\ gap' = gap /\ bucket' = bucket /\ win \in 1 .. NWindows
    BY <1>9, EmitFacts DEF EmitWindow
  <2>2. PICK d, e : /\ output' = (output \o d) \o e
                    /\ PhaseIs(d, Reads(win), windows[win].begin)
                    /\ PhaseIs(e, Writes(win), WriteStart(win))
    BY <1>9, EmitFacts
  <2>3. /\ bucket[win] = Reads(win) \cup Writes(win) /\ Reads(win) \cap Writes(win) = {}
        /\ \A i \in bucket[win] : ~ Free(i) /\ \A v \in 1 .. NWindows : i \in bucket[v] => v = win
    BY <2>1, BucketFacts
  <2>4. EntriesOf(output') = EntriesOf(output) \cup EntriesOf(d) \cup EntriesOf(e)
    BY <2>2, <2>3, EmitLines
  <2>5. /\ \A a \in EntriesOf(d) : a.idx \in Reads(win)
        /\ \A a \in EntriesOf(e) : a.idx \in Writes(win)
        /\ \A a \in EntriesOf(output) : a.idx \notin bucket[win]
    <3>1. \A q : \A a \in EntriesOf(q) : a.idx \in Idxs(q)
      BY DEF Idxs, EntriesOf
    <3>2. \A a \in EntriesOf(output) : a.idx \notin bucket[win]
      <4>1. \A w \in 1 .. NWindows : w < win => w # win
        BY <1>1
      <4> QED
        BY <2>3, <4>1, PlacedRead
    <3> QED
      BY <2>2, <3>1, <3>2 DEF PhaseIs
  <2>6. \A a \in EntriesOf(output') : a.cycle \in Int
    <3>1. output' \in Seq(OutEntry)
      BY TypeNext DEF BatchType
    <3>2. \A k \in DOMAIN output' : output'[k] \in OutEntry
      BY <3>1
    <3> QED
      BY <3>2 DEF EntriesOf, OutEntry
  <2>7. /\ windows[win].begin \in Nat /\ WriteStart(win) \in Nat
        /\ windows[win].begin <= WriteStart(win)
    BY <2>1, JobFacts, WriteStartFacts
  <2>8. \A w \in 1 .. NWindows : Reads(w) \subseteq bucket[w] /\ Writes(w) \subseteq bucket[w]
    BY DEF Reads, Writes
  <2>9. ASSUME NEW a \in EntriesOf(output')
        PROVE  PlacedWell(a)
    <3>1. CASE a \in EntriesOf(output)
      BY <1>2, <3>1
    <3>2. CASE a \in EntriesOf(d)
      <4>1. windows[win].begin <= a.cycle /\ a.idx \in bucket[win]
        BY <2>2, <2>3, <2>5, <3>2 DEF PhaseIs
      <4> QED
        BY <2>3, <4>1
    <3>3. CASE a \in EntriesOf(e)
      <4>1. WriteStart(win) <= a.cycle /\ a.idx \in bucket[win]
        BY <2>2, <2>3, <2>5, <3>3 DEF PhaseIs
      <4>2. windows[win].begin <= a.cycle
        BY <2>6, <2>7, <4>1
      <4> QED
        BY <2>3, <4>1, <4>2
    <3> QED
      BY <2>4, <3>1, <3>2, <3>3
  <2>10. ASSUME NEW a \in EntriesOf(output'), NEW b \in EntriesOf(output'),
                NEW w \in 1 .. NWindows
         PROVE  /\ a.idx \in Reads(w) /\ b.idx \in Writes(w) => a.cycle < b.cycle
                /\ \/ a.idx \in Reads(w) /\ b.idx \in Reads(w)
                   \/ a.idx \in Writes(w) /\ b.idx \in Writes(w)
                   => (Before(trace, a.idx, b.idx) => a.cycle <= b.cycle)
    <3>1. CASE w # win
      <4>1. ASSUME a.idx \in bucket[w], b.idx \in bucket[w]
            PROVE  a \in EntriesOf(output) /\ b \in EntriesOf(output)
        BY <2>3, <2>4, <2>5, <3>1, <4>1
      <4> QED
        BY <1>2, <2>8, <4>1
    <3>2. CASE w = win
      <4>1. a.idx \in Reads(win) => a \in EntriesOf(d)
        BY <2>3, <2>4, <2>5
      <4>2. b.idx \in Reads(win) => b \in EntriesOf(d)
        BY <2>3, <2>4, <2>5
      <4>3. a.idx \in Writes(win) => a \in EntriesOf(e)
        BY <2>3, <2>4, <2>5
      <4>4. b.idx \in Writes(win) => b \in EntriesOf(e)
        BY <2>3, <2>4, <2>5
      <4>5. ASSUME a.idx \in Reads(win), b.idx \in Writes(win)
            PROVE  a.cycle < b.cycle
        <5>1. PICK m : m = windows[win].begin + (Cardinality(Reads(win)) - 1) * gap.issue
          OBVIOUS
        <5>2. a.cycle <= m /\ WriteStart(win) <= b.cycle
          BY <2>2, <4>1, <4>4, <4>5, <5>1 DEF PhaseIs
        <5>3. m < WriteStart(win)
          BY <2>1, <4>5, <5>1, WriteStartFacts
        <5>4. m \in Int
          <6>1. Cardinality(Reads(win)) \in Nat /\ gap.issue \in Nat
            <7>1. Reads(win) \in SUBSET (1 .. Len(trace))
              BY <2>1, <2>8 DEF BatchType
            <7> QED
              BY <7>1, JobFacts, LineNumbersFinite
          <6> QED
            BY <2>7, <5>1, <6>1
        <5> QED
          BY <2>6, <2>7, <5>2, <5>3, <5>4
      <4> QED
        BY <2>2, <3>2, <4>1, <4>2, <4>3, <4>4, <4>5 DEF PhaseIs
    <3> QED
      BY <3>1, <3>2
  <2> QED
    BY <1>4, <2>1, <2>9, <2>10
<1>10. CASE BucketsEmitted
  BY <1>2, <1>4, <1>10 DEF BucketsEmitted
<1>11. CASE SortOutput
  <2>1. EntriesOf(output') = EntriesOf(output)
    BY <1>11, SortFacts
  <2> QED
    BY <1>2, <1>4, <1>11, <2>1 DEF SortOutput
<1> QED
  BY BatchSteps, <1>5, <1>6, <1>7, <1>8, <1>9, <1>10, <1>11 DEF Step

\* Once the entries are sorted nothing happens to them.
LEMMA SortedNext ==
  BatchType /\ SortedInv /\ [BothNext]_bothVars => SortedInv'
<1> SUFFICES ASSUME BatchType, SortedInv, [BothNext]_bothVars, step' = "done"
             PROVE  \A k, m \in DOMAIN output' :
                      k < m => ~ (SortsBefore(output[m], output[k]))'
  BY DEF SortedInv
<1>1. job' = job /\ gap' = gap =>
        \A a, b : (SortsBefore(a, b))' <=> SortsBefore(a, b)
  <2>1. ASSUME job' = job, gap' = gap
        PROVE  trace' = trace
    BY <2>1, SameJob
  <2> QED
    BY <2>1 DEF SortsBefore, Phase, Before
<1>2. CASE UNCHANGED batchVars
  BY <1>1, <1>2 DEF SortedInv, batchVars
<1>3. CASE SortOutput
  <2>1. \A k, m \in DOMAIN output' : k < m => ~ SortsBefore(output'[m], output'[k])
    BY <1>3, SortFacts
  <2>2. job' = job /\ gap' = gap
    BY <1>3 DEF SortOutput
  <2> QED
    BY <1>1, <2>1, <2>2
<1>4. CASE SkipLine \/ BucketEntry \/ BucketsFull \/ EmitWindow \/ BucketsEmitted
  BY <1>4 DEF SkipLine, BucketEntry, BucketsFull, EmitWindow, BucketsEmitted
<1> QED
  BY BatchSteps, <1>2, <1>3, <1>4 DEF Step

\* The types of the input the batch rewriter is called with.
LEMMA InitType == BothInit => BatchType
<1> SUFFICES ASSUME BothInit PROVE BatchType
  OBVIOUS
<1>1. /\ given \in Inputs /\ job = BatchCall(given)
      /\ gap \in Gaps /\ step = "bucket" /\ entry = 1 /\ win = 1
      /\ bucket = [w \in 1 .. NWindows |-> {}] /\ output = << >> /\ outside = 0
  BY DEF BothInit, BatchStart
<1>2. /\ given.trace \in Seq(Line) /\ given.windows \in Seq(Windows(WindowIds))
      /\ Successive(given.windows)
  BY <1>1, InputsAssumption
<1>3. job.trace = given.trace /\ job.windows = given.windows
  BY <1>1 DEF BatchCall, NoCall, Call
<1>4. /\ trace \in Seq(Line) /\ windows \in Seq(Windows(WindowIds)) /\ Successive(windows)
  BY <1>2, <1>3 DEF trace, windows
<1>5. Len(trace) \in Nat /\ NWindows \in Nat
  BY <1>4 DEF NWindows
<1>6. 1 \in 1 .. Len(trace) + 1 /\ 1 \in 1 .. NWindows + 1
  BY <1>5
<1>7. << >> \in Seq(OutEntry)
  OBVIOUS
<1> QED
  BY <1>1, <1>4, <1>6, <1>7 DEF BatchType

\* The invariant holds when both rewriters start.
LEMMA InitBatchInv == BothInit => BatchInv
<1> SUFFICES ASSUME BothInit PROVE BatchInv
  OBVIOUS
<1>1. BatchType
  BY InitType
<1>2. /\ step = "bucket" /\ entry = 1 /\ win = 1
      /\ bucket = [w \in 1 .. NWindows |-> {}] /\ output = << >> /\ outside = 0
  BY DEF BothInit, BatchStart
<1>3. ReadEntries = {}
  <2>1. \A i \in Entries(trace) : ~ (i < 1)
    BY <1>1, JobFacts
  <2> QED
    BY <1>2, <2>1 DEF ReadEntries
<1>4. \A w \in 1 .. NWindows : ~ (w < 1)
  OBVIOUS
<1>5. DOMAIN output = {} /\ EntriesOf(output) = {} /\ Idxs(output) = {}
  BY <1>2 DEF EntriesOf, Idxs
<1>6. BucketInv
  BY <1>2, <1>3, FS_EmptySet DEF BucketInv
<1>7. PlaceInv
  BY <1>2, <1>3, <1>4, <1>5 DEF PlaceInv, NoRepeat
<1>8. CycleInv
  BY <1>5 DEF CycleInv
<1>9. SortedInv
  BY <1>2 DEF SortedInv
<1> QED
  BY <1>1, <1>6, <1>7, <1>8, <1>9 DEF BatchInv

\* The inductive invariant of the batch rewriter.
THEOREM BatchInvariance == BothSpec => []BatchInv
<1>1. BatchInv /\ [BothNext]_bothVars => BatchInv'
  BY TypeNext, BucketNext, PlaceNext, CycleNext, SortedNext DEF BatchInv
<1> QED
  BY InitBatchInv, <1>1, PTL DEF BothSpec
-----------------------------------------------------------------------------
(***************************************************************************)
(* What the batch rewriter promises.                                       *)
(***************************************************************************)

\* The batch rewriter loses no entry and repeats none, and its summary's counts are
\* those of the output.
THEOREM BatchKeepsAll == BothSpec => []Conservation
<1>1. BatchInv => Conservation
  <2> SUFFICES ASSUME BatchType, BucketInv, PlaceInv, step = "done" PROVE Conservation
    BY DEF BatchInv, Conservation
  <2>1. ReadEntries = Entries(trace)
    <3>1. \A i \in Entries(trace) : i < Len(trace) + 1
      BY JobFacts
    <3> QED
      BY <3>1 DEF ReadEntries, BucketInv
  <2>2. \A w \in 1 .. NWindows : w < win
    BY JobFacts DEF BucketInv
  <2>3. \A i \in Entries(trace) :
          Free(i) \/ \E w \in 1 .. NWindows : i \in bucket[w]
    BY <2>1 DEF Free, BucketInv
  <2>4. Idxs(output) = Entries(trace)
    <3>1. ASSUME NEW i \in Entries(trace) PROVE i \in Idxs(output)
      BY <2>1, <2>2, <2>3 DEF PlaceInv
    <3>2. ASSUME NEW i \in Idxs(output) PROVE i \in Entries(trace)
      BY <2>1, BucketFacts DEF PlaceInv
    <3> QED
      BY <3>1, <3>2
  <2>5. ASSUME NEW i \in Entries(trace)
        PROVE  Cardinality(Positions(i)) = 1
    <3>1. PICK k \in DOMAIN output : output[k].idx = i
      BY <2>4 DEF Idxs
    <3>2. Positions(i) = {k}
      BY <3>1 DEF Positions, PlaceInv, NoRepeat
    <3> QED
      BY <3>2, FS_Singleton
  <2>6. Len(output) = Cardinality(Entries(trace))
    <3>1. PICK n \in Nat : n = Len(output) /\ DOMAIN output = 1 .. n
      BY DEF BatchType
    <3>2. PICK f : f = [k \in 1 .. n |-> output[k].idx]
      OBVIOUS
    <3>3. \A k \in 1 .. n : output[k].idx \in Entries(trace)
      BY <2>4, <3>1 DEF Idxs
    <3>4. f \in [1 .. n -> Entries(trace)]
      BY <3>2, <3>3
    <3>5. \A k, m \in 1 .. n : f[k] = f[m] => k = m
      BY <3>1, <3>2 DEF PlaceInv, NoRepeat
    <3>6. \A i \in Entries(trace) : \E k \in 1 .. n : f[k] = i
      BY <2>4, <3>1, <3>2 DEF Idxs
    <3>7. f \in Bijection(1 .. n, Entries(trace))
      BY <3>4, <3>5, <3>6, Fun_IsBij
    <3>8. IsFiniteSet(1 .. n) /\ Cardinality(1 .. n) = n
      BY FS_Interval
    <3>9. ExistsBijection(1 .. n, Entries(trace))
      BY <3>7 DEF ExistsBijection
    <3> QED
      BY <3>1, <3>8, <3>9, FS_Bijection
  <2>7. Cardinality(Bucketed) = Cardinality({i \in Entries(trace) : IsGcell(trace[i])}) - outside
    <3> DEFINE G == {i \in Entries(trace) : IsGcell(trace[i])}
               O == {i \in ReadEntries : IsGcell(trace[i]) /\ Free(i)}
    <3>1. IsFiniteSet(G) /\ Cardinality(G) \in Nat
      BY JobFacts, LineNumbersFinite
    <3>2. O \subseteq G /\ outside = Cardinality(O)
      BY <2>1 DEF BucketInv
    <3>3. Bucketed = G \ O
      <4>1. ASSUME NEW i \in Bucketed PROVE i \in G \ O
        <5>1. PICK w \in 1 .. NWindows : i \in bucket[w]
          BY DEF Bucketed
        <5>2. i \in ReadEntries /\ i \in 1 .. Len(trace) /\ ~ Free(i) /\ GoesTo(trace[i], w)
          BY <5>1, BucketFacts
        <5> QED
          BY <2>1, <5>2, GoesToFacts
      <4>2. ASSUME NEW i \in G \ O PROVE i \in Bucketed
        <5>1. i \in Entries(trace) /\ ~ Free(i)
          BY <2>1
        <5>2. PICK w \in 1 .. NWindows : i \in bucket[w]
          BY <2>3, <5>1
        <5> QED
          BY <5>2 DEF Bucketed
      <4> HIDE DEF G, O
      <4> QED
        BY <4>1, <4>2
    <3> HIDE DEF G, O
    <3>4. G \cap O = O
      BY <3>2
    <3>5. Cardinality(G \ O) = Cardinality(G) - Cardinality(O)
      BY <3>1, <3>4, FS_Difference
    <3>6. Cardinality(Bucketed) = Cardinality(G) - outside
      BY <3>2, <3>3, <3>5
    <3> QED
      BY <3>6, Zenon DEF G
  <2> QED
    BY <2>5, <2>6, <2>7 DEF Conservation
<1> QED
  BY BatchInvariance, <1>1, PTL

\* A window that holds an entry also holds every later line up to its end, unless an
\* earlier window does so; and a window that holds an entry holds every earlier line
\* after its first cycle.
LEMMA WindowHolds ==
  ASSUME BatchType, NEW i \in 1 .. Len(trace), NEW j \in 1 .. Len(trace),
         trace[i].cycle <= trace[j].cycle, NEW v \in 1 .. NWindows
  PROVE  /\ GoesTo(trace[i], v) /\ trace[j].cycle <= windows[v].end
            => IsWindowForCycle(windows, trace[j].cycle, v)
         /\ GoesTo(trace[j], v) /\ windows[v].begin < trace[i].cycle
            => IsWindowForCycle(windows, trace[i].cycle, v)
<1>1. PICK ci \in Nat : ci = trace[i].cycle
  BY JobFacts
<1>2. PICK cj \in Nat : cj = trace[j].cycle
  BY JobFacts
<1>3. ci <= cj
  BY <1>1, <1>2
<1>4. \A u \in 1 .. v - 1 : /\ u \in 1 .. NWindows /\ u < v
                            /\ windows[u].end \in Nat /\ windows[u].begin \in Nat
                            /\ windows[u].end <= windows[v].begin
  <2>1. \A u \in 1 .. v - 1 : u \in 1 .. NWindows /\ u < v
    BY JobFacts
  <2> QED
    BY <2>1, JobFacts
<1>5. windows[v].begin \in Nat /\ windows[v].end \in Nat
  BY JobFacts
<1>6. ASSUME GoesTo(trace[i], v), cj <= windows[v].end
      PROVE  IsWindowForCycle(windows, cj, v)
  <2>1. /\ windows[v].begin <= ci
        /\ \A u \in 1 .. v - 1 : ~ InWindow(windows[u], ci)
    BY <1>1, <1>6 DEF GoesTo, IsWindowForCycle, InWindow
  <2>2. InWindow(windows[v], cj)
    BY <1>3, <1>5, <1>6, <2>1 DEF InWindow
  <2>3. ASSUME NEW u \in 1 .. v - 1, InWindow(windows[u], cj)
        PROVE  FALSE
    <3>1. ci = cj
      BY <1>3, <1>4, <1>5, <2>1, <2>3 DEF InWindow
    <3> QED
      BY <2>1, <2>3, <3>1
  <2> QED
    BY <2>2, <2>3 DEF IsWindowForCycle
<1>7. ASSUME GoesTo(trace[j], v), windows[v].begin < ci
      PROVE  IsWindowForCycle(windows, ci, v)
  <2>1. cj <= windows[v].end
    BY <1>2, <1>7 DEF GoesTo, IsWindowForCycle, InWindow
  <2>2. InWindow(windows[v], ci)
    BY <1>3, <1>5, <1>7, <2>1 DEF InWindow
  <2>3. ASSUME NEW u \in 1 .. v - 1, InWindow(windows[u], ci)
        PROVE  FALSE
    BY <1>4, <1>5, <1>7, <2>3 DEF InWindow
  <2> QED
    BY <2>2, <2>3 DEF IsWindowForCycle
<1> QED
  BY <1>1, <1>2, <1>6, <1>7

\* Line j depends on line i, and may come neither first in the same window nor, as a
\* read, in the same cycle of the output.
Depend(i, j) ==
  /\ i < j /\ trace[i].addr = trace[j].addr
  /\ {trace[i].op, trace[j].op} \subseteq {"READ", "WRITE"}
  /\ "WRITE" \in {trace[i].op, trace[j].op}

\* Of two entries that depend on each other the later one gets no earlier cycle.
LEMMA CyclesFollow ==
  ASSUME BatchInv, InCycleOrder(trace), BurstsFit,
         NEW a \in EntriesOf(output), NEW b \in EntriesOf(output), Depend(a.idx, b.idx),
         trace[b.idx].op = "READ" => ~ SameWindow(a.idx, b.idx)
  PROVE  a.cycle <= b.cycle
<1> DEFINE i == a.idx
           j == b.idx
<1>1. BatchType /\ BucketInv /\ PlaceInv /\ CycleInv
  BY DEF BatchInv
<1>2. /\ i \in 1 .. Len(trace) /\ j \in 1 .. Len(trace)
      /\ a.cycle \in Int /\ b.cycle \in Int
      /\ Free(i) \/ \E w \in 1 .. NWindows : i \in bucket[w]
      /\ Free(j) \/ \E w \in 1 .. NWindows : j \in bucket[w]
  BY <1>1, PlacedRead
<1>3. /\ trace[i].cycle \in Nat /\ trace[j].cycle \in Nat
      /\ trace[i].cycle <= trace[j].cycle
  BY <1>1, <1>2, JobFacts DEF InCycleOrder, Depend
<1>4. /\ Free(i) => a.cycle = trace[i].cycle
      /\ Free(j) => b.cycle = trace[j].cycle
      /\ \A w \in 1 .. NWindows : j \in bucket[w] => windows[w].begin <= b.cycle
      /\ \A w \in 1 .. NWindows : i \in bucket[w] => a.cycle <= windows[w].end
  BY <1>1 DEF CycleInv, BurstsFit, EntriesOf
<1>5. \A w \in 1 .. NWindows : /\ windows[w].begin \in Nat /\ windows[w].end \in Nat
                               /\ i \in bucket[w] => GoesTo(trace[i], w)
                               /\ j \in bucket[w] => GoesTo(trace[j], w)
  BY <1>1, JobFacts, BucketFacts
<1>6. \A w \in 1 .. NWindows : /\ GoesTo(trace[i], w) => windows[w].begin <= trace[i].cycle
                               /\ GoesTo(trace[j], w) => trace[j].cycle <= windows[w].end
  BY <1>1, <1>2, GoesToFacts
<1>7. IsGcell(trace[i]) <=> IsGcell(trace[j])
  BY DEF Depend, IsGcell
<1>8. CASE Free(i) /\ Free(j)
  BY <1>3, <1>4, <1>8
<1>9. ASSUME NEW v \in 1 .. NWindows, i \in bucket[v], Free(j)
      PROVE  a.cycle <= b.cycle
  <2>1. GoesTo(trace[i], v) /\ a.cycle <= windows[v].end /\ b.cycle = trace[j].cycle
    BY <1>4, <1>5, <1>9
  <2>2. ~ IsWindowForCycle(windows, trace[j].cycle, v)
    BY <1>7, <1>9, <2>1 DEF Free, GoesTo, Depend
  <2>3. ~ (trace[j].cycle <= windows[v].end)
    BY <1>1, <1>2, <1>3, <2>1, <2>2, WindowHolds
  <2> QED
    BY <1>2, <1>3, <1>5, <2>1, <2>3
<1>10. ASSUME NEW w \in 1 .. NWindows, j \in bucket[w], Free(i)
       PROVE  a.cycle <= b.cycle
  <2>1. GoesTo(trace[j], w) /\ windows[w].begin <= b.cycle /\ a.cycle = trace[i].cycle
    BY <1>4, <1>5, <1>10
  <2>2. ~ IsWindowForCycle(windows, trace[i].cycle, w)
    BY <1>7, <1>10, <2>1 DEF Free, GoesTo, Depend
  <2>3. ~ (windows[w].begin < trace[i].cycle)
    BY <1>1, <1>2, <1>3, <2>1, <2>2, WindowHolds
  <2> QED
    BY <1>2, <1>3, <1>5, <2>1, <2>3
<1>11. ASSUME NEW v \in 1 .. NWindows, NEW w \in 1 .. NWindows, i \in bucket[v], j \in bucket[w]
       PROVE  a.cycle <= b.cycle
  <2>1. /\ GoesTo(trace[i], v) /\ GoesTo(trace[j], w)
        /\ a.cycle <= windows[v].end /\ windows[w].begin <= b.cycle
        /\ v \in Nat /\ w \in Nat
    BY <1>1, <1>4, <1>5, <1>11, JobFacts
  <2>2. CASE v < w
    <3>1. windows[v].end <= windows[w].begin
      BY <1>1, <2>2, JobFacts
    <3> QED
      BY <1>2, <1>5, <2>1, <3>1
  <2>3. CASE w < v
    <3>1. windows[w].end <= windows[v].begin
      BY <1>1, <2>3, JobFacts
    <3>2. trace[i].cycle <= windows[w].end
      BY <1>3, <1>5, <1>6, <2>1
    <3>3. windows[w].begin <= trace[i].cycle
      <4>1. windows[v].begin <= trace[i].cycle /\ windows[w].begin <= windows[w].end
        BY <1>3, <1>5, <1>6, <2>1 DEF GoesTo, IsWindowForCycle, InWindow
      <4> QED
        BY <1>3, <1>5, <3>1, <4>1
    <3>4. InWindow(windows[w], trace[i].cycle) /\ w \in 1 .. v - 1
      BY <2>1, <2>3, <3>2, <3>3 DEF InWindow
    <3>5. ~ IsWindowForCycle(windows, trace[i].cycle, v)
      BY <3>4 DEF IsWindowForCycle
    <3> QED
      BY <2>1, <3>5 DEF GoesTo
  <2>4. CASE v = w
    <3>1. SameWindow(i, j)
      BY <1>11, <2>4 DEF SameWindow
    <3>2. trace[j].op = "WRITE" /\ trace[i].op \in {"READ", "WRITE"}
      BY <3>1 DEF Depend
    <3>3. j \in Writes(w) /\ (i \in Reads(w) \/ i \in Writes(w))
      BY <1>11, <2>4, <3>2 DEF Reads, Writes
    <3>4. Before(trace, i, j)
      BY DEF Before, Depend
    <3> QED
      BY <1>1, <1>2, <3>3, <3>4 DEF CycleInv
  <2> QED
    BY <2>1, <2>2, <2>3, <2>4
<1> QED
  BY <1>2, <1>8, <1>9, <1>10, <1>11

\* In a trace in cycle order the batch rewriter keeps every dependence it promises to
\* keep, if its bursts fit into their windows.
THEOREM BatchDependencesHold == BothSpec => []DependencesKept
<1>1. BatchInv => DependencesKept
  <2> SUFFICES ASSUME BatchInv, step = "done", InCycleOrder(trace), BurstsFit,
                      NEW k \in DOMAIN output, NEW m \in DOMAIN output,
                      Depend(output[k].idx, output[m].idx),
                      trace[output[m].idx].op = "READ" =>
                        ~ SameWindow(output[k].idx, output[m].idx)
                        /\ output[k].cycle # output[m].cycle
               PROVE  k < m
    BY DEF DependencesKept, Depend
  <2>1. PICK a \in EntriesOf(output) : a = output[k]
    BY DEF EntriesOf
  <2>2. PICK b \in EntriesOf(output) : b = output[m]
    BY DEF EntriesOf
  <2>3. a.cycle <= b.cycle
    BY <2>1, <2>2, CyclesFollow
  <2>4. /\ a.idx \in 1 .. Len(trace) /\ b.idx \in 1 .. Len(trace)
        /\ a.cycle \in Int /\ b.cycle \in Int /\ k \in Nat /\ m \in Nat
    BY PlacedRead DEF BatchInv, BatchType
  <2>5. SortsBefore(a, b)
    <3>1. CASE a.cycle < b.cycle
      BY <3>1 DEF SortsBefore
    <3>2. CASE a.cycle = b.cycle
      <4>1. trace[b.idx].op = "WRITE" /\ trace[a.idx].op \in {"READ", "WRITE"}
        BY <2>1, <2>2, <3>2 DEF Depend
      <4>2. Before(trace, a.idx, b.idx)
        BY <2>1, <2>2 DEF Before, Depend
      <4>3. Phase(b.idx) = 1 /\ (Phase(a.idx) = 0 \/ Phase(a.idx) = 1)
        BY <4>1 DEF Phase
      <4> QED
        BY <3>2, <4>2, <4>3 DEF SortsBefore
    <3> QED
      BY <2>3, <2>4, <3>1, <3>2
  <2>6. k # m
    BY <2>1, <2>2, <2>4 DEF Depend
  <2>7. ~ (m < k)
    BY <2>1, <2>2, <2>5 DEF BatchInv, SortedInv
  <2> QED
    BY <2>4, <2>6, <2>7
<1> QED
  BY BatchInvariance, <1>1, PTL
-----------------------------------------------------------------------------
(***************************************************************************)
(* The range both rewriters take for the array, and the hits in it.  The   *)
(* streaming rewriter counts an entry of the array when it has placed it.  *)
(***************************************************************************)
GcellRead(upto) ==
  {i \in Entries(streamJob.trace) : i < upto /\ Stream!IsGcell(streamJob.trace[i])}

CallInv ==
  /\ given \in Inputs
  /\ streamJob = StreamCall(given) /\ job = BatchCall(given)
  /\ pc = "done" => ~ StreamRefuses
  /\ step = "done" => ~ BatchRefuses

HitInv ==
  /\ pc \in {"read", "line", "tail", "done"}
  /\ pos \in 1 .. Len(streamJob.trace) + 1
  /\ pc = "line" => IsEntry(streamJob.trace[pos]) /\ pos <= Len(streamJob.trace)
  /\ pc \in {"tail", "done"} => pos = Len(streamJob.trace) + 1
  /\ counts \in [total : Nat, gcell : Nat, rewritten : Nat, outside : Nat]
  /\ counts.gcell = Cardinality(GcellRead(pos))

\* Both rewriters get the trace of the input.
LEMMA GivenTrace ==
  ASSUME CallInv
  PROVE  /\ streamJob.trace = given.trace /\ job.trace = given.trace
         /\ given.trace \in Seq(Line) /\ Len(streamJob.trace) \in Nat
<1>1. given.trace \in Seq(Line)
  BY InputsAssumption DEF CallInv
<1>2. streamJob.trace = given.trace /\ job.trace = given.trace
  BY DEF CallInv, StreamCall, BatchCall, NoCall, Call
<1> QED
  BY <1>1, <1>2

\* One more line read: it counts if it is an entry of the array.
LEMMA GcellReadNext ==
  ASSUME Len(streamJob.trace) \in Nat, NEW p \in 1 .. Len(streamJob.trace)
  PROVE  /\ Cardinality(GcellRead(p)) \in Nat
         /\ Cardinality(GcellRead(p + 1)) =
              Cardinality(GcellRead(p))
              + (IF IsEntry(streamJob.trace[p]) /\ Stream!IsGcell(streamJob.trace[p]) THEN 1 ELSE 0)
<1> DEFINE n == Len(streamJob.trace)
           hit == IsEntry(streamJob.trace[p]) /\ Stream!IsGcell(streamJob.trace[p])
<1>1. GcellRead(p) \in SUBSET (1 .. n)
  BY DEF GcellRead, Entries
<1>2. IsFiniteSet(GcellRead(p)) /\ Cardinality(GcellRead(p)) \in Nat
  BY <1>1, LineNumbersFinite
<1>3. p \notin GcellRead(p) /\ p \in Nat
  BY DEF GcellRead
<1>4. GcellRead(p + 1) = GcellRead(p) \cup (IF hit THEN {p} ELSE {})
  <2>1. \A i \in 1 .. n : i < p + 1 <=> i < p \/ i = p
    OBVIOUS
  <2>2. \A i : i \in GcellRead(p + 1) <=> i \in GcellRead(p) \/ (i = p /\ hit)
    BY <2>1 DEF GcellRead, Entries
  <2> HIDE DEF hit
  <2> QED
    BY <2>2
<1>5. CASE hit
  <2>1. GcellRead(p + 1) = GcellRead(p) \cup {p}
    BY <1>4, <1>5
  <2>2. Cardinality(GcellRead(p) \cup {p}) = Cardinality(GcellRead(p)) + 1
    BY <1>2, <1>3, FS_AddElement
  <2> QED
    BY <1>2, <1>5, <2>1, <2>2
<1>6. CASE ~ hit
  <2>1. GcellRead(p + 1) = GcellRead(p)
    BY <1>4, <1>6
  <2> QED
    BY <1>2, <1>6, <2>1
<1> QED
  BY <1>5, <1>6

\* The rewriters are called, each unless it has refused the input.
LEMMA CallNext == CallInv /\ [BothNext]_bothVars => CallInv'
<1> SUFFICES ASSUME CallInv, [BothNext]_bothVars PROVE CallInv'
  OBVIOUS
<1>1. UNCHANGED <<given, streamJob, job>>
  BY DEF BothNext, StreamStep, BatchStep, BothStopped, bothVars, batchVars, streamVars,
         Stream!Step, Stream!SkipBlank, Stream!ReadEntry, Stream!FlushPassed, Stream!FlushTail,
         Stream!FlushWindow, Stream!PlaceEntry, Stream!Placing, Stream!BufferEntry,
         Stream!SpillEntry, Stream!PassEntry, Stream!EndOfTrace, Stream!Finish,
         Step, SkipLine, BucketEntry, BucketsFull, EmitWindow, BucketsEmitted, SortOutput
<1>2. /\ StreamCall(given)' = StreamCall(given) /\ BatchCall(given)' = BatchCall(given)
      /\ StreamRefuses' = StreamRefuses /\ BatchRefuses' = BatchRefuses
  BY <1>1 DEF StreamCall, BatchCall, StreamRefuses, BatchRefuses
<1>3. pc' = pc \/ ~ StreamRefuses
  BY DEF BothNext, StreamStep, BatchStep, BothStopped, bothVars, streamVars
<1>4. step' = step \/ ~ BatchRefuses
  BY DEF BothNext, StreamStep, BatchStep, BothStopped, bothVars, batchVars
<1> QED
  BY <1>1, <1>2, <1>3, <1>4 DEF CallInv

\* The streaming rewriter's count of the array's entries is of those it has placed.
LEMMA HitNext == CallInv /\ HitInv /\ [BothNext]_bothVars => HitInv'
<1> SUFFICES ASSUME CallInv, HitInv, [BothNext]_bothVars PROVE HitInv'
  OBVIOUS
<1>1. Len(streamJob.trace) \in Nat /\ pos \in Nat
  BY GivenTrace DEF HitInv
<1>2. ASSUME streamJob' = streamJob
      PROVE  \A p : GcellRead(p)' = GcellRead(p)
  BY <1>2 DEF GcellRead, Stream!IsGcell
<1>3. CASE UNCHANGED streamVars
  <2>1. UNCHANGED <<streamJob, pc, pos, counts>>
    BY <1>3 DEF streamVars
  <2>2. GcellRead(pos)' = GcellRead(pos)
    BY <2>1 DEF GcellRead, Stream!IsGcell
  <2> QED
    BY <2>1, <2>2 DEF HitInv
<1>4. CASE Stream!SkipBlank
  <2>1. /\ pc = "read" /\ pos <= Len(streamJob.trace) /\ ~ IsEntry(streamJob.trace[pos])
        /\ pos' = pos + 1 /\ UNCHANGED <<streamJob, pc, counts>>
    BY <1>4 DEF Stream!SkipBlank, Stream!trace, Stream!IsEntry, IsEntry
  <2>2. pos \in 1 .. Len(streamJob.trace) /\ pos + 1 \in 1 .. Len(streamJob.trace) + 1
    BY <1>1, <2>1 DEF HitInv
  <2>3. Cardinality(GcellRead(pos + 1)) = Cardinality(GcellRead(pos))
    BY <1>1, <2>1, <2>2, GcellReadNext
  <2>4. GcellRead(pos)' = GcellRead(pos + 1)
    BY <2>1 DEF GcellRead, Stream!IsGcell
  <2> QED
    BY <2>1, <2>2, <2>3, <2>4 DEF HitInv
<1>5. CASE Stream!ReadEntry
  <2>1. /\ pc = "read" /\ pos <= Len(streamJob.trace) /\ IsEntry(streamJob.trace[pos])
        /\ pc' = "line" /\ counts' = [counts EXCEPT !.total = @ + 1]
        /\ UNCHANGED <<streamJob, pos>>
    BY <1>5 DEF Stream!ReadEntry, Stream!trace, Stream!IsEntry, IsEntry
  <2>2. /\ counts' \in [total : Nat, gcell : Nat, rewritten : Nat, outside : Nat]
        /\ counts'.gcell = counts.gcell
    BY <2>1 DEF HitInv
  <2>3. GcellRead(pos)' = GcellRead(pos)
    BY <2>1 DEF GcellRead, Stream!IsGcell
  <2> QED
    BY <2>1, <2>2, <2>3 DEF HitInv
<1>6. CASE Stream!FlushPassed \/ Stream!FlushTail
  <2>1. UNCHANGED <<streamJob, pc, pos, counts>>
    BY <1>6 DEF Stream!FlushPassed, Stream!FlushTail, Stream!FlushWindow
  <2>2. GcellRead(pos)' = GcellRead(pos)
    BY <2>1 DEF GcellRead, Stream!IsGcell
  <2> QED
    BY <2>1, <2>2 DEF HitInv
<1>7. CASE Stream!PlaceEntry
  <2> DEFINE line == streamJob.trace[pos]
  <2>1. /\ pc = "line" /\ pc' = "read" /\ pos' = pos + 1 /\ streamJob' = streamJob
        /\ \E kept \in BOOLEAN : counts' = Stream!Tally(line, kept)
    BY <1>7 DEF Stream!PlaceEntry, Stream!BufferEntry, Stream!SpillEntry, Stream!PassEntry,
                Stream!Placing, Stream!trace
  <2>2. pos \in 1 .. Len(streamJob.trace) /\ pos + 1 \in 1 .. Len(streamJob.trace) + 1
        /\ IsEntry(line)
    BY <1>1, <2>1 DEF HitInv
  <2>3. PICK kept \in BOOLEAN : counts' = Stream!Tally(line, kept)
    BY <2>1
  <2>4. /\ counts.total \in Nat /\ counts.gcell \in Nat /\ counts.rewritten \in Nat
        /\ counts.outside \in Nat
    BY DEF HitInv
  <2>5. /\ counts' \in [total : Nat, gcell : Nat, rewritten : Nat, outside : Nat]
        /\ counts'.gcell = counts.gcell + (IF Stream!IsGcell(line) THEN 1 ELSE 0)
    BY <2>3, <2>4 DEF Stream!Tally
  <2>6. counts'.gcell = Cardinality(GcellRead(pos + 1))
    BY <1>1, <2>2, <2>5, GcellReadNext DEF HitInv
  <2>7. GcellRead(pos)' = GcellRead(pos + 1)
    BY <2>1 DEF GcellRead, Stream!IsGcell
  <2> QED
    BY <2>1, <2>2, <2>5, <2>6, <2>7 DEF HitInv
<1>8. CASE Stream!EndOfTrace \/ Stream!Finish
  <2>1. /\ pc' \in {"tail", "done"} /\ UNCHANGED <<streamJob, pos, counts>>
        /\ pos = Len(streamJob.trace) + 1
    BY <1>8 DEF Stream!EndOfTrace, Stream!Finish, Stream!trace, HitInv
  <2>2. GcellRead(pos)' = GcellRead(pos)
    BY <2>1 DEF GcellRead, Stream!IsGcell
  <2> QED
    BY <2>1, <2>2 DEF HitInv
<1>9. Stream!Step \/ UNCHANGED streamVars
  BY DEF BothNext, StreamStep, BatchStep, BothStopped, bothVars
<1> QED
  BY <1>3, <1>4, <1>5, <1>6, <1>7, <1>8, <1>9 DEF Stream!Step

\* Nothing has been counted when the rewriters start.
LEMMA InitRange == BothInit => CallInv /\ HitInv
<1> SUFFICES ASSUME BothInit PROVE CallInv /\ HitInv
  OBVIOUS
<1>1. CallInv
  BY DEF BothInit, Stream!FirstStart, BatchStart, CallInv
<1>2. Len(streamJob.trace) \in Nat
  BY <1>1, GivenTrace
<1>3. pc = "read" /\ pos = 1
      /\ counts = [total |-> 0, gcell |-> 0, rewritten |-> 0, outside |-> 0]
  BY DEF BothInit, Stream!FirstStart, Stream!NoCounts
<1>4. GcellRead(1) = {}
  BY <1>2 DEF GcellRead, Entries
<1>5. Cardinality(GcellRead(1)) = 0
  BY <1>4, FS_EmptySet
<1>6. HitInv
  BY <1>2, <1>3, <1>5 DEF HitInv
<1> QED
  BY <1>1, <1>6
-----------------------------------------------------------------------------
(***************************************************************************)
(* The two searches for the range.                                         *)
(***************************************************************************)

\* A set of naturals that is not empty has a least element.
LEMMA LeastNatural ==
  ASSUME NEW T \in SUBSET Nat, T # {}
  PROVE  \E n \in T : \A m \in T : n <= m
<1>1. PICK R : R = OpToRel(<, Nat)
  OBVIOUS
<1>2. IsWellFoundedOn(R, Nat)
  BY <1>1, NatLessThanWellFounded
<1>3. PICK n \in T : \A m \in T : ~ (<<m, n>> \in R)
  BY <1>2, WFMin
<1>4. ASSUME NEW m \in T, m < n
      PROVE  FALSE
  <2>1. <<m, n>> \in R
    BY <1>1, <1>4 DEF OpToRel
  <2> QED
    BY <1>3, <2>1
<1>5. \A m \in T : n <= m
  BY <1>4
<1> QED
  BY <1>5

\* Induction up to n, on a set.
LEMMA UpTo ==
  ASSUME NEW n \in Nat, NEW T, 0 \in T, \A k \in 1 .. n : k - 1 \in T => k \in T
  PROVE  \A k \in 0 .. n : k \in T
<1> DEFINE U == {k \in 0 .. n : k \notin T}
<1>1. ASSUME U # {} PROVE FALSE
  <2>1. U \in SUBSET Nat
    OBVIOUS
  <2>2. PICK m \in U : \A k \in U : m <= k
    <3> HIDE DEF U
    <3> QED
      BY <1>1, <2>1, LeastNatural
  <2>3. m \in 1 .. n /\ m - 1 \in 0 .. n /\ m - 1 \notin U
    BY <2>2
  <2> QED
    BY <2>2, <2>3
<1> QED
  BY <1>1

\* A table whose entries are made from the first on, each from the one before, exists.
IsTable(g, n, b, F) ==
  g = [k \in 0 .. n |-> IF k = 0 THEN b ELSE F[k][g[k - 1]]]
LEMMA TableExists ==
  ASSUME NEW n \in Nat, NEW V, NEW b \in V, NEW F,
         \A k \in 1 .. n, v \in V : F[k][v] \in V
  PROVE  \E g : IsTable(g, n, b, F) /\ \A k \in 0 .. n : g[k] \in V
<1> DEFINE Good(m, g) ==
             IsTable(g, m, b, F) /\ \A k \in 0 .. m : g[k] \in V
           T == {m \in 0 .. n : \E g : Good(m, g)}
<1>1. 0 \in T
  <2> DEFINE g == [k \in 0 .. 0 |-> b]
  <2>1. \A k \in 0 .. 0 : k = 0 /\ g[k] = b
    OBVIOUS
  <2>2. g = [k \in 0 .. 0 |-> IF k = 0 THEN b ELSE F[k][g[k - 1]]]
    BY <2>1
  <2>3. Good(0, g)
    BY <2>1, <2>2 DEF IsTable
  <2> HIDE DEF g, Good
  <2> QED
    BY <2>3
<1>2. ASSUME NEW m \in 1 .. n, m - 1 \in T PROVE m \in T
  <2>1. PICK g : Good(m - 1, g)
    BY <1>2
  <2> DEFINE h == [k \in 0 .. m |-> IF k < m THEN g[k] ELSE F[m][g[m - 1]]]
  <2>2. g[m - 1] \in V /\ F[m][g[m - 1]] \in V
    BY <2>1
  <2>3. \A k \in 0 .. m : h[k] \in V
    BY <2>1, <2>2
  <2>4. ASSUME NEW k \in 0 .. m PROVE h[k] = IF k = 0 THEN b ELSE F[k][h[k - 1]]
    <3>1. CASE k < m
      <4>1. h[k] = g[k] /\ k \in 0 .. m - 1 /\ (k # 0 => h[k - 1] = g[k - 1])
        BY <3>1
      <4>2. g[k] = IF k = 0 THEN b ELSE F[k][g[k - 1]]
        BY <2>1, <4>1 DEF IsTable
      <4> QED
        BY <4>1, <4>2
    <3>2. CASE k = m
      <4>1. h[k] = F[m][g[m - 1]] /\ k # 0 /\ h[m - 1] = g[m - 1]
        BY <3>2
      <4> QED
        BY <3>2, <4>1
    <3> QED
      BY <3>1, <3>2
  <2>5. h = [k \in 0 .. m |-> IF k = 0 THEN b ELSE F[k][h[k - 1]]]
    BY <2>4
  <2>6. Good(m, h)
    BY <2>3, <2>5 DEF IsTable
  <2>7. m \in 0 .. n
    OBVIOUS
  <2> HIDE DEF h, Good
  <2> QED
    BY <2>6, <2>7
<1> HIDE DEF T
<1>3. \A k \in 0 .. n : k \in T
  BY <1>1, <1>2, UpTo
<1>4. n \in T
  BY <1>3
<1> QED
  BY <1>4 DEF T

\* The entries that have their address in the array, under an offset.
HitLines(tr, log, d) == {i \in Entries(tr) : InArray(log, d, tr[i])}

\* The streaming rewriter's counters end at the numbers of these.
LEMMA CountersFacts ==
  ASSUME NEW tr \in Seq(Line), NEW log, NEW keys
  PROVE  /\ DOMAIN Counters(tr, log, keys) = keys
         /\ \A d \in keys : /\ Cardinality(HitLines(tr, log, d)) \in Nat
                            /\ Counters(tr, log, keys)[d] = Cardinality(HitLines(tr, log, d))
<1> DEFINE n == Len(tr)
           hit(m, d) == IsEntry(tr[m]) /\ InArray(log, d, tr[m])
           zero == [d \in keys |-> 0]
           Eq(g) == g = [m \in 0 .. n |->
                           IF m = 0 THEN zero
                           ELSE [d \in keys |-> g[m - 1][d] + (IF hit(m, d) THEN 1 ELSE 0)]]
           after == CHOOSE g : Eq(g)
           V == [keys -> Nat]
           F == [m \in 1 .. n |->
                   [v \in V |-> [d \in keys |-> v[d] + (IF hit(m, d) THEN 1 ELSE 0)]]]
           UpToLine(m, d) == {i \in HitLines(tr, log, d) : i <= m}
           T == {m \in 0 .. n : after[m] = [d \in keys |-> Cardinality(UpToLine(m, d))]}
<1>1. n \in Nat
  OBVIOUS
<1>2. Counters(tr, log, keys) = after[n]
  BY DEF Counters
<1> HIDE DEF hit
<1>3. Eq(after)
  <2>1. zero \in V /\ \A m \in 1 .. n, v \in V : F[m][v] \in V
    OBVIOUS
  <2> HIDE DEF V, F, zero, n
  <2>2. PICK g : IsTable(g, n, zero, F) /\ \A m \in 0 .. n : g[m] \in V
    BY <1>1, <2>1, TableExists
  <2>3. ASSUME NEW m \in 0 .. n, m # 0
        PROVE  F[m][g[m - 1]] = [d \in keys |-> g[m - 1][d] + (IF hit(m, d) THEN 1 ELSE 0)]
    <3>1. m \in 1 .. n /\ g[m - 1] \in V
      BY <1>1, <2>2, <2>3
    <3> QED
      BY <3>1 DEF F
  <2>4. [m \in 0 .. n |-> IF m = 0 THEN zero ELSE F[m][g[m - 1]]]
          = [m \in 0 .. n |->
               IF m = 0 THEN zero
               ELSE [d \in keys |-> g[m - 1][d] + (IF hit(m, d) THEN 1 ELSE 0)]]
    BY <2>3
  <2>5. Eq(g)
    BY <2>2, <2>4 DEF IsTable
  <2> HIDE DEF Eq
  <2> QED
    BY <2>5
<1> HIDE DEF after
<1>4. ASSUME NEW d \in keys, NEW m \in 0 .. n
      PROVE  IsFiniteSet(UpToLine(m, d)) /\ Cardinality(UpToLine(m, d)) \in Nat
  <2>1. UpToLine(m, d) \in SUBSET (1 .. n)
    BY DEF HitLines, Entries
  <2> QED
    BY <1>1, <2>1, LineNumbersFinite
<1>5. 0 \in T
  <2>1. after[0] = [d \in keys |-> 0]
    BY <1>1, <1>3
  <2>2. \A d \in keys : UpToLine(0, d) = {}
    BY DEF HitLines, Entries
  <2>3. \A d \in keys : Cardinality(UpToLine(0, d)) = 0
    BY <2>2, FS_EmptySet
  <2> HIDE DEF UpToLine
  <2>4. after[0] = [d \in keys |-> Cardinality(UpToLine(0, d))]
    BY <2>1, <2>3
  <2> QED
    BY <1>1, <2>4
<1>6. ASSUME NEW m \in 1 .. n, m - 1 \in T PROVE m \in T
  <2>1. m \in 0 .. n /\ m # 0 /\ m - 1 \in 0 .. n
    BY <1>1
  <2>2. after[m] = [d \in keys |-> after[m - 1][d] + (IF hit(m, d) THEN 1 ELSE 0)]
    BY <1>3, <2>1
  <2>3. after[m - 1] = [d \in keys |-> Cardinality(UpToLine(m - 1, d))]
    BY <1>6
  <2>4. ASSUME NEW d \in keys
        PROVE  Cardinality(UpToLine(m, d))
                 = Cardinality(UpToLine(m - 1, d)) + (IF hit(m, d) THEN 1 ELSE 0)
    <3>1. /\ IsFiniteSet(UpToLine(m - 1, d)) /\ Cardinality(UpToLine(m - 1, d)) \in Nat
          /\ m \notin UpToLine(m - 1, d)
      <4>1. m \notin UpToLine(m - 1, d)
        BY <1>1, <1>6
      <4> HIDE DEF UpToLine
      <4>2. IsFiniteSet(UpToLine(m - 1, d)) /\ Cardinality(UpToLine(m - 1, d)) \in Nat
        BY ONLY <1>4, <2>1, d \in keys
      <4> QED
        BY <4>1, <4>2
    <3>2. CASE hit(m, d)
      <4>1. UpToLine(m, d) = UpToLine(m - 1, d) \cup {m}
        BY <1>1, <3>2 DEF HitLines, Entries, hit
      <4>2. Cardinality(UpToLine(m - 1, d) \cup {m}) = Cardinality(UpToLine(m - 1, d)) + 1
        BY <3>1, FS_AddElement
      <4> QED
        BY <3>2, <4>1, <4>2
    <3>3. CASE ~ hit(m, d)
      <4>1. UpToLine(m, d) = UpToLine(m - 1, d)
        BY <1>1, <3>3 DEF HitLines, Entries, hit
      <4>2. (IF hit(m, d) THEN 1 ELSE 0) = 0
        BY <3>3
      <4> HIDE DEF UpToLine
      <4> QED
        BY <3>1, <4>1, <4>2
    <3> QED
      BY <3>2, <3>3
  <2> HIDE DEF UpToLine
  <2>5. after[m] = [d \in keys |-> Cardinality(UpToLine(m, d))]
    BY <2>2, <2>3, <2>4
  <2> QED
    BY <2>1, <2>5
<1>7. n \in T
  <2> HIDE DEF T
  <2>1. \A m \in 0 .. n : m \in T
    BY <1>1, <1>5, <1>6, UpTo
  <2> QED
    BY <1>1, <2>1
<1>8. \A d \in keys : UpToLine(n, d) = HitLines(tr, log, d)
  BY <1>1 DEF HitLines, Entries
<1>9. after[n] = [d \in keys |-> Cardinality(UpToLine(n, d))]
  BY <1>7
<1>10. \A d \in keys : Cardinality(UpToLine(n, d)) \in Nat
  BY <1>1, <1>4
<1> HIDE DEF UpToLine
<1> QED
  BY <1>2, <1>8, <1>9, <1>10

\* The batch rewriter's search ends at the first of the best candidates that are tried,
\* if there is one.
LEMMA SearchFacts ==
  ASSUME NEW tr \in Seq(Line), NEW log, NEW cs \in Seq(Int), cs # << >>,
         NEW h, \A k \in DOMAIN cs : h[k] = Cardinality(HitLines(tr, log, cs[k]))
  PROVE  \/ /\ \A k \in DOMAIN cs : ~ Tried(log, cs[k])
            /\ BatchSearch(tr, log, cs) = [delta |-> cs[1], count |-> -1]
         \/ \E k \in DOMAIN cs :
              /\ Tried(log, cs[k])
              /\ BatchSearch(tr, log, cs) = [delta |-> cs[k], count |-> h[k]]
              /\ \A l \in DOMAIN cs : Tried(log, cs[l]) =>
                   /\ h[l] <= h[k]
                   /\ l < k => h[l] < h[k]
<1> DEFINE n == Len(cs)
           tried(k) == Tried(log, cs[k])
           none == [delta |-> cs[1], count |-> -1]
           Next1(k, v) == IF tried(k) /\ Better(h[k], v)
                          THEN [delta |-> cs[k], count |-> h[k]] ELSE v
           Eq(g) == g = [k \in 0 .. n |->
                           IF k = 0 THEN none
                           ELSE LET count == Cardinality({i \in Entries(tr) :
                                                            InArray(log, cs[k], tr[i])})
                                IN IF Tried(log, cs[k]) /\ Better(count, g[k - 1])
                                   THEN [delta |-> cs[k], count |-> count]
                                   ELSE g[k - 1]]
           best == CHOOSE g : Eq(g)
           V == [delta : Int, count : Int]
           F == [k \in 1 .. n |-> [v \in V |-> Next1(k, v)]]
           First(m, k) == /\ k \in 1 .. m /\ tried(k)
                          /\ best[m] = [delta |-> cs[k], count |-> h[k]]
                          /\ \A l \in 1 .. m : tried(l) =>
                               h[l] <= h[k] /\ (l < k => h[l] < h[k])
           None(m) == (\A k \in 1 .. m : ~ tried(k)) /\ best[m] = none
           T == {m \in 0 .. n : None(m) \/ \E k : First(m, k)}
<1>1. /\ n \in Nat /\ DOMAIN cs = 1 .. n
      /\ \A k \in 1 .. n : cs[k] \in Int /\ h[k] \in Nat
  <2>1. \A k \in 1 .. n : HitLines(tr, log, cs[k]) \in SUBSET (1 .. Len(tr))
    BY DEF HitLines, Entries
  <2>2. Len(tr) \in Nat /\ n \in Nat /\ DOMAIN cs = 1 .. n
    OBVIOUS
  <2>3. ASSUME NEW k \in 1 .. n PROVE cs[k] \in Int /\ h[k] \in Nat
    <3>1. Cardinality(HitLines(tr, log, cs[k])) \in Nat
      BY <2>1, <2>2, LineNumbersFinite
    <3> QED
      BY <2>2, <3>1
  <2> QED
    BY <2>2, <2>3
<1>2. BatchSearch(tr, log, cs) = best[n]
  BY DEF BatchSearch
<1>3. best = [k \in 0 .. n |-> IF k = 0 THEN none ELSE Next1(k, best[k - 1])]
  <2>1. \A k \in 1 .. n : Cardinality({i \in Entries(tr) : InArray(log, cs[k], tr[i])}) = h[k]
    BY <1>1 DEF HitLines
  <2>2. ASSUME NEW g
        PROVE  Eq(g) <=> g = [k \in 0 .. n |-> IF k = 0 THEN none ELSE Next1(k, g[k - 1])]
    <3> DEFINE e(k) == LET count == Cardinality({i \in Entries(tr) : InArray(log, cs[k], tr[i])})
                       IN IF Tried(log, cs[k]) /\ Better(count, g[k - 1])
                          THEN [delta |-> cs[k], count |-> count] ELSE g[k - 1]
    <3>1. \A k \in 1 .. n : e(k) = Next1(k, g[k - 1])
      BY <2>1
    <3>2. \A k \in 0 .. n : k # 0 => k \in 1 .. n
      BY <1>1
    <3>3. Eq(g) <=> g = [k \in 0 .. n |-> IF k = 0 THEN none ELSE e(k)]
      OBVIOUS
    <3> HIDE DEF e, Next1, none, n
    <3>4. [k \in 0 .. n |-> IF k = 0 THEN none ELSE e(k)]
            = [k \in 0 .. n |-> IF k = 0 THEN none ELSE Next1(k, g[k - 1])]
      BY <3>1, <3>2
    <3> QED
      BY <3>3, <3>4
  <2>3. none \in V /\ \A k \in 1 .. n, v \in V : F[k][v] \in V
    BY <1>1
  <2> HIDE DEF V, F, Next1, Eq, none, n
  <2>4. PICK g : IsTable(g, n, none, F) /\ \A k \in 0 .. n : g[k] \in V
    BY <1>1, <2>3, TableExists
  <2>5. ASSUME NEW k \in 0 .. n, k # 0 PROVE F[k][g[k - 1]] = Next1(k, g[k - 1])
    <3>1. k \in 1 .. n /\ g[k - 1] \in V
      BY <1>1, <2>4, <2>5
    <3> QED
      BY <3>1 DEF F
  <2>6. [k \in 0 .. n |-> IF k = 0 THEN none ELSE F[k][g[k - 1]]]
          = [k \in 0 .. n |-> IF k = 0 THEN none ELSE Next1(k, g[k - 1])]
    BY <2>5
  <2>7. Eq(g)
    BY <2>2, <2>4, <2>6 DEF IsTable
  <2>8. Eq(best)
    BY <2>7
  <2> QED
    BY <2>2, <2>8
<1> HIDE DEF best
<1>4. 0 \in T
  BY <1>1, <1>3
<1>5. ASSUME NEW m \in 1 .. n, m - 1 \in T PROVE m \in T
  <2>1. m \in 0 .. n /\ m # 0 /\ m - 1 \in 0 .. n /\ \A k \in 1 .. m : k \in 1 .. m - 1 \/ k = m
    BY <1>1
  <2>2. best[m] = Next1(m, best[m - 1])
    BY <1>3, <2>1
  <2>3. CASE None(m - 1)
    <3>1. best[m - 1].count = -1
      BY <2>3
    <3>2. CASE tried(m)
      <4>1. best[m] = [delta |-> cs[m], count |-> h[m]]
        BY <1>1, <2>2, <3>1, <3>2 DEF Better
      <4>2. First(m, m)
        BY <1>1, <2>1, <2>3, <3>2, <4>1
      <4> QED
        BY <2>1, <4>2
    <3>3. CASE ~ tried(m)
      <4>1. best[m] = none
        BY <2>2, <2>3, <3>3
      <4>2. None(m)
        BY <2>1, <2>3, <3>3, <4>1
      <4> QED
        BY <2>1, <4>2
    <3> QED
      BY <3>2, <3>3
  <2>4. CASE \E k : First(m - 1, k)
    <3>1. PICK k : First(m - 1, k)
      BY <2>4
    <3>2. best[m - 1].count = h[k] /\ k \in 1 .. m /\ k < m /\ k \in 1 .. n
      BY <1>1, <3>1
    <3>3. CASE tried(m) /\ h[m] > h[k]
      <4>1. best[m] = [delta |-> cs[m], count |-> h[m]]
        BY <2>2, <3>2, <3>3 DEF Better
      <4>2. ASSUME NEW l \in 1 .. m, tried(l) PROVE h[l] <= h[m] /\ (l < m => h[l] < h[m])
        <5>1. CASE l = m
          BY <1>1, <5>1
        <5>2. CASE l \in 1 .. m - 1
          <6>1. h[l] <= h[k]
            BY <3>1, <4>2, <5>2
          <6>2. h[l] \in Nat /\ h[k] \in Nat /\ h[m] \in Nat
            BY <1>1, <3>2
          <6> QED
            BY <3>3, <6>1, <6>2
        <5> QED
          BY <2>1, <5>1, <5>2
      <4>3. First(m, m)
        BY <3>3, <4>1, <4>2
      <4> QED
        BY <2>1, <4>3
    <3>4. CASE ~ (tried(m) /\ h[m] > h[k])
      <4>1. best[m] = best[m - 1]
        BY <2>2, <3>2, <3>4 DEF Better
      <4>2. best[m] = [delta |-> cs[k], count |-> h[k]]
        BY <3>1, <4>1
      <4>3. ASSUME NEW l \in 1 .. m, tried(l) PROVE h[l] <= h[k] /\ (l < k => h[l] < h[k])
        <5>1. CASE l = m
          BY <1>1, <3>2, <3>4, <4>3, <5>1
        <5>2. CASE l \in 1 .. m - 1
          BY <3>1, <4>3, <5>2
        <5> QED
          BY <2>1, <5>1, <5>2
      <4>4. First(m, k)
        BY <3>1, <3>2, <4>2, <4>3
      <4> QED
        BY <2>1, <4>4
    <3> QED
      BY <3>3, <3>4
  <2> QED
    BY <1>5, <2>3, <2>4
<1>6. n \in T
  <2> HIDE DEF T
  <2>1. \A m \in 0 .. n : m \in T
    BY <1>1, <1>4, <1>5, UpTo
  <2> QED
    BY <1>1, <2>1
<1>7. None(n) \/ \E k : First(n, k)
  BY <1>6
<1> QED
  BY <1>1, <1>2, <1>7

\* The two searches find the same offset, and the same number of hits, if any candidate
\* is tried: no other one has more hits, and the first of equals is taken by both.
LEMMA SameSearch ==
  ASSUME NEW tr \in Seq(Line), NEW log, NEW cs \in Seq(Int), Keys(log, cs) # {},
         NEW c, c = Counters(tr, log, Keys(log, cs)), NEW d, d = MaxKey(c, cs)
  PROVE  /\ d \in Keys(log, cs) /\ d \in Int
         /\ BatchSearch(tr, log, cs) = [delta |-> d, count |-> c[d]]
         /\ \A e \in Keys(log, cs) : c[e] <= c[d]
<1> DEFINE keys == Keys(log, cs)
           n == Len(cs)
           h == [k \in DOMAIN cs |-> Cardinality(HitLines(tr, log, cs[k]))]
           Spots(e) == {k \in DOMAIN cs : cs[k] = e}
<1>1. /\ n \in Nat /\ DOMAIN cs = 1 .. n /\ \A k \in 1 .. n : cs[k] \in Int
      /\ cs # << >>
      /\ \A e \in keys : \E k \in 1 .. n : cs[k] = e
      /\ \A k \in 1 .. n : cs[k] \in keys <=> Tried(log, cs[k])
  BY DEF Keys
<1>2. DOMAIN c = keys /\ \A e \in keys : c[e] \in Nat /\ c[e] = Cardinality(HitLines(tr, log, e))
  <2> HIDE DEF keys
  <2>1. c = Counters(tr, log, keys)
    BY DEF keys
  <2> QED
    BY <2>1, CountersFacts
<1>3. \A k \in 1 .. n : cs[k] \in keys => h[k] = c[cs[k]]
  BY <1>1, <1>2
<1>4. PICK k \in 1 .. n :
        /\ Tried(log, cs[k])
        /\ BatchSearch(tr, log, cs) = [delta |-> cs[k], count |-> h[k]]
        /\ \A l \in 1 .. n : Tried(log, cs[l]) => h[l] <= h[k] /\ (l < k => h[l] < h[k])
  <2>1. \A l \in DOMAIN cs : h[l] = Cardinality(HitLines(tr, log, cs[l]))
    OBVIOUS
  <2>2. \E l \in DOMAIN cs : Tried(log, cs[l])
    BY <1>1
  <2> HIDE DEF h
  <2> QED
    BY <1>1, <2>1, <2>2, SearchFacts
<1> HIDE DEF h
<1>5. ASSUME NEW e \in keys
      PROVE  /\ Place(cs, e) \in 1 .. n /\ cs[Place(cs, e)] = e
             /\ \A l \in 1 .. n : cs[l] = e => Place(cs, e) <= l
  <2>1. Spots(e) \in SUBSET Nat /\ Spots(e) # {}
    <3>1. \A l \in DOMAIN cs : l \in Nat
      BY <1>1
    <3>2. \E l \in DOMAIN cs : cs[l] = e
      BY <1>1
    <3> QED
      BY <3>1, <3>2
  <2>2. \E l \in Spots(e) : \A m \in Spots(e) : l <= m
    <3> HIDE DEF Spots
    <3> QED
      BY <2>1, LeastNatural
  <2>3. Place(cs, e) \in Spots(e) /\ \A m \in Spots(e) : Place(cs, e) <= m
    BY <2>2 DEF Place, Least
  <2> QED
    BY <1>1, <2>3
<1> DEFINE b == cs[k]
           Top(x) == \A e \in keys : \/ c[e] < c[x]
                                     \/ c[e] = c[x] /\ Place(cs, x) <= Place(cs, e)
<1>6. b \in keys /\ h[k] = c[b] /\ Place(cs, b) = k
  <2>1. b \in keys /\ h[k] = c[b]
    BY <1>1, <1>3, <1>4
  <2>2. Place(cs, b) \in 1 .. n /\ cs[Place(cs, b)] = b /\ Place(cs, b) <= k
    BY <1>5, <2>1
  <2>3. ~ (Place(cs, b) < k)
    <3>1. h[Place(cs, b)] = h[k] /\ h[k] \in Nat
      BY <1>2, <1>3, <2>1, <2>2
    <3> QED
      BY <1>4, <2>2, <3>1
  <2> QED
    BY <2>1, <2>2, <2>3
<1>7. Top(b)
  <2> SUFFICES ASSUME NEW e \in keys
               PROVE  c[e] < c[b] \/ (c[e] = c[b] /\ k <= Place(cs, e))
    BY <1>6
  <2>1. Place(cs, e) \in 1 .. n /\ cs[Place(cs, e)] = e
    BY <1>5
  <2>2. /\ h[Place(cs, e)] = c[e] /\ Tried(log, cs[Place(cs, e)])
        /\ c[e] \in Nat /\ c[b] \in Nat
    BY <1>1, <1>2, <1>3, <1>6, <2>1
  <2>3. c[e] <= c[b] /\ (Place(cs, e) < k => c[e] < c[b])
    BY <1>4, <1>6, <2>1, <2>2
  <2> QED
    BY <2>1, <2>2, <2>3
<1>8. d \in keys /\ Top(d)
  <2>1. d = CHOOSE x \in keys : Top(x)
    BY <1>2 DEF MaxKey
  <2> HIDE DEF Top, keys
  <2> QED
    BY <1>6, <1>7, <2>1
<1>9. c[d] = c[b] /\ Place(cs, d) = Place(cs, b)
  <2>1. c[d] \in Nat /\ c[b] \in Nat /\ Place(cs, d) \in Nat /\ Place(cs, b) \in Nat
    BY <1>2, <1>5, <1>6, <1>8
  <2>2. c[b] < c[d] \/ (c[b] = c[d] /\ Place(cs, d) <= Place(cs, b))
    BY <1>6, <1>8
  <2>3. c[d] < c[b] \/ (c[d] = c[b] /\ Place(cs, b) <= Place(cs, d))
    BY <1>7, <1>8
  <2> QED
    BY <2>1, <2>2, <2>3
<1>10. d = b
  BY <1>5, <1>6, <1>8, <1>9
<1>11. \A e \in keys : c[e] <= c[d]
  BY <1>2, <1>8
<1> QED
  BY <1>1, <1>4, <1>6, <1>8, <1>10, <1>11

\* Of finitely many values one is the greatest: the one the fewest are greater than.
LEMMA GreatestValue ==
  ASSUME NEW S, IsFiniteSet(S), S # {}, NEW f, \A i \in S : f[i] \in Int
  PROVE  \E i \in S : \A j \in S : f[j] <= f[i]
<1> DEFINE Above(i) == {j \in S : f[i] < f[j]}
           T == {Cardinality(Above(i)) : i \in S}
<1>1. \A i \in S : IsFiniteSet(Above(i)) /\ Cardinality(Above(i)) \in Nat
  <2> SUFFICES ASSUME NEW i \in S
               PROVE  IsFiniteSet(Above(i)) /\ Cardinality(Above(i)) \in Nat
    OBVIOUS
  <2>1. IsFiniteSet(Above(i))
    BY FS_Subset
  <2> QED
    BY <2>1, FS_CardinalityType
<1>2. PICK i \in S : \A j \in S : Cardinality(Above(i)) <= Cardinality(Above(j))
  <2> HIDE DEF Above
  <2>1. T \in SUBSET Nat /\ T # {}
    BY <1>1
  <2>2. PICK n \in T : \A m \in T : n <= m
    BY <2>1, LeastNatural
  <2> QED
    BY <2>2
<1>3. ASSUME NEW j \in S, f[i] < f[j] PROVE FALSE
  <2>1. Above(j) \in SUBSET Above(i) /\ j \in Above(i) /\ j \notin Above(j)
    BY <1>3
  <2> HIDE DEF Above
  <2>2. /\ Cardinality(Above(j)) <= Cardinality(Above(i))
        /\ Cardinality(Above(j)) # Cardinality(Above(i))
    BY <1>1, <2>1, FS_Subset
  <2> QED
    BY <1>1, <1>2, <2>2
<1> QED
  BY <1>3

\* The parameters of a call are what parse_gcell_range and choose_delta can give: an
\* array that starts in the trace's address space, or none.
LEMMA RangeTypes ==
  ASSUME NEW in \in Inputs, RangeFound(in.log)
  PROVE  VirtualStart(in.log) \in Nat /\ VirtualEnd(in.log) \in Nat
<1> DEFINE log == in.log
           ends == [k \in DOMAIN log |-> log[k].addr + log[k].size]
           E == {0} \cup {log[k].addr + log[k].size : k \in DOMAIN log}
<1>1. log \in Seq([base : Nat, addr : Nat, size : Nat]) /\ log # << >>
  BY InputsAssumption DEF RangeFound
<1> HIDE DEF log
<1>2. /\ DOMAIN log = 1 .. Len(log) /\ Len(log) \in Nat /\ 1 \in DOMAIN log
      /\ \A k \in DOMAIN log : /\ log[k].base \in Nat
                               /\ log[k].addr \in Nat /\ log[k].size \in Nat
  <2>1. Len(log) # 0
    BY <1>1
  <2>2. PICK R : R = [base : Nat, addr : Nat, size : Nat]
    OBVIOUS
  <2>3. \A k \in 1 .. Len(log) : log[k] \in R
    <3>1. log \in Seq(R)
      BY <1>1, <2>2
    <3> QED
      BY <3>1, ElementOfSeq
  <2>4. DOMAIN log = 1 .. Len(log) /\ Len(log) \in Nat
    BY <1>1
  <2> QED
    BY <2>1, <2>2, <2>3, <2>4
<1>3. IsFiniteSet(DOMAIN log)
  BY <1>2, FS_Interval
<1>4. \A k \in DOMAIN log : ends[k] \in Nat /\ ends[k] = log[k].addr + log[k].size
  BY <1>2
<1> HIDE DEF ends
<1>5. PICK k \in DOMAIN log : \A m \in DOMAIN log : ends[m] <= ends[k]
  <2>1. \A m \in DOMAIN log : ends[m] \in Int
    BY <1>4
  <2>2. DOMAIN log # {}
    BY <1>2
  <2> QED
    BY <1>3, <2>1, <2>2, GreatestValue
<1>6. \E n \in E : \A m \in E : m <= n
  <2>1. ends[k] \in E /\ ends[k] \in Nat
    BY <1>4
  <2>2. ASSUME NEW m \in E PROVE m <= ends[k]
    <3>1. CASE m = 0
      BY <2>1, <3>1
    <3>2. CASE m # 0
      <4>1. PICK l \in DOMAIN log : m = log[l].addr + log[l].size
        BY <3>2
      <4> QED
        BY <1>4, <1>5, <4>1
    <3> QED
      BY <3>1, <3>2
  <2> QED
    BY <2>1, <2>2
<1>7. E \subseteq Nat
  BY <1>2
<1>8. Greatest(E) \in E
  BY <1>6 DEF Greatest
<1>9. VirtualEnd(log) \in Nat
  BY <1>7, <1>8 DEF VirtualEnd
<1>10. VirtualStart(log) \in Nat
  BY <1>2 DEF VirtualStart
<1> QED
  BY <1>9, <1>10 DEF log

\* What both searches are given, and what they find of it.
LEMMA SameDelta ==
  ASSUME NEW in \in Inputs, ~ StreamRefused(in.log, in.explicit),
         NEW cs, cs = Candidates(in.log, in.explicit),
         NEW d, d = StreamDelta(in.trace, in.log, in.explicit)
  PROVE  /\ cs \in Seq(Int) /\ d \in Keys(in.log, cs)
         /\ VirtualStart(in.log) \in Nat /\ VirtualEnd(in.log) \in Nat /\ d \in Int
         /\ VirtualStart(in.log) + d \in Nat /\ VirtualEnd(in.log) + d \in Nat
         /\ BatchDelta(in.trace, in.log, in.explicit) = d
         /\ Cardinality(HitLines(in.trace, in.log, d)) \in Nat
         /\ StreamMatched(in.trace, in.log, in.explicit)
              = Cardinality(HitLines(in.trace, in.log, d))
         /\ BatchMatched(in.trace, in.log, in.explicit)
              = Cardinality(HitLines(in.trace, in.log, d))
         /\ \A e \in Keys(in.log, cs) : Cardinality(HitLines(in.trace, in.log, e))
                                          <= Cardinality(HitLines(in.trace, in.log, d))
<1> DEFINE tr == in.trace
           log == in.log
           keys == Keys(log, cs)
           c == Counters(tr, log, keys)
           b == BatchSearch(tr, log, cs)
<1>1. RangeFound(log) /\ keys # {}
  BY DEF StreamRefused
<1>2. VirtualStart(log) \in Nat /\ VirtualEnd(log) \in Nat
  BY <1>1, RangeTypes
<1>3. cs \in Seq(Int) /\ tr \in Seq(Line)
  <2>1. in.explicit \in Seq(Int) /\ - VirtualStart(in.log) \in Int /\ tr \in Seq(Line)
    BY <1>2, InputsAssumption
  <2> QED
    BY <2>1, DeltasAssumption DEF Candidates
<1>4. d = MaxKey(c, cs)
  BY DEF StreamDelta, StreamCounters
<1>5. /\ StreamMatched(tr, log, in.explicit) = c[d]
      /\ BatchDelta(tr, log, in.explicit) = b.delta
      /\ BatchMatched(tr, log, in.explicit) = Greatest({0, b.count})
  BY DEF StreamMatched, StreamCounters, BatchDelta, BatchMatched
<1> HIDE DEF tr, log
<1>6. /\ d \in keys /\ d \in Int /\ b = [delta |-> d, count |-> c[d]]
      /\ \A e \in keys : c[e] <= c[d]
  BY <1>1, <1>3, <1>4, SameSearch
<1>7. \A e \in keys : /\ Cardinality(HitLines(tr, log, e)) \in Nat
                      /\ c[e] = Cardinality(HitLines(tr, log, e))
  BY <1>3, CountersFacts
<1> HIDE DEF c, b
<1>8. Greatest({0, b.count}) = c[d]
  <2> DEFINE S == {0, c[d]}
  <2>1. c[d] \in Nat /\ b.count = c[d]
    BY <1>6, <1>7
  <2>2. c[d] \in S /\ \A m \in S : m <= c[d]
    BY <2>1
  <2>3. Greatest(S) \in S /\ c[d] <= Greatest(S)
    BY <2>2 DEF Greatest
  <2> QED
    BY <2>1, <2>3
<1>9. VirtualStart(log) + d \in Nat /\ VirtualEnd(log) + d \in Nat
  <2>1. Tried(log, d)
    BY <1>6 DEF Keys
  <2> QED
    BY <1>2, <1>6, <2>1 DEF Tried, log
<1> QED
  BY <1>2, <1>3, <1>5, <1>6, <1>7, <1>8, <1>9 DEF tr, log

\* When both rewriters run they take the same range for the array, though each has a
\* search of its own, for every log, candidate offset and trace; and the hits each has
\* counted beforehand are the entries of the array that its rewriting finds.
THEOREM SameRange == BothSpec => []RangesAgree
<1>1. CallInv /\ HitInv /\ [BothNext]_bothVars => (CallInv /\ HitInv)'
  BY CallNext, HitNext
<1>2. BothSpec => [](CallInv /\ HitInv)
  BY InitRange, <1>1, PTL DEF BothSpec
<1>3. ASSUME CallInv, HitInv, BatchInv, Conservation PROVE RangesAgree
  <2> SUFFICES ASSUME pc = "done", step = "done"
               PROVE  /\ streamJob = job
                      /\ StreamMatched(trace, given.log, given.explicit) = counts.gcell
                      /\ BatchMatched(trace, given.log, given.explicit)
                           = Cardinality(Bucketed) + outside
    BY DEF RangesAgree, BothDone
  <2>1. given \in Inputs /\ ~ StreamRefuses /\ ~ BatchRefuses
    BY <1>3 DEF CallInv
  <2> DEFINE tr == given.trace
             log == given.log
  <2>2. PICK d : d = StreamDelta(tr, log, given.explicit)
    OBVIOUS
  <2>3. /\ BatchDelta(tr, log, given.explicit) = d
        /\ Cardinality(HitLines(tr, log, d)) \in Nat
        /\ StreamMatched(tr, log, given.explicit) = Cardinality(HitLines(tr, log, d))
        /\ BatchMatched(tr, log, given.explicit) = Cardinality(HitLines(tr, log, d))
    <3>1. \A in \in Inputs : ~ StreamRefused(in.log, in.explicit) =>
            LET e == StreamDelta(in.trace, in.log, in.explicit)
            IN /\ BatchDelta(in.trace, in.log, in.explicit) = e
               /\ Cardinality(HitLines(in.trace, in.log, e)) \in Nat
               /\ StreamMatched(in.trace, in.log, in.explicit)
                    = Cardinality(HitLines(in.trace, in.log, e))
               /\ BatchMatched(in.trace, in.log, in.explicit)
                    = Cardinality(HitLines(in.trace, in.log, e))
      BY SameDelta
    <3> QED
      BY <2>1, <2>2, <3>1 DEF StreamRefuses
  <2>4. streamJob = Call(given, d) /\ job = Call(given, d)
    BY <1>3, <2>1, <2>2, <2>3 DEF CallInv, StreamCall, BatchCall, StreamRefuses, BatchRefuses
  <2> HIDE DEF log
  <2>5. /\ streamJob.trace = tr /\ job.trace = tr
        /\ streamJob.start = VirtualStart(log) + d /\ streamJob.end = VirtualEnd(log) + d
    BY <2>4 DEF Call, log
  <2>6. tr \in Seq(Line) /\ Len(tr) \in Nat
    BY <1>3, GivenTrace
  <2>7. HitLines(tr, log, d) = {i \in Entries(tr) : IsGcell(tr[i])}
    BY <2>4, <2>5 DEF HitLines, InArray, IsGcell
  <2>8. GcellRead(pos) = HitLines(tr, log, d)
    <3>1. pos = Len(tr) + 1
      BY <1>3, <2>5 DEF HitInv
    <3>2. \A i \in Entries(tr) : i < pos
      BY <2>6, <3>1 DEF Entries
    <3>3. \A i : Stream!IsGcell(tr[i]) <=> IsGcell(tr[i])
      BY <2>4 DEF Stream!IsGcell, IsGcell
    <3> QED
      BY <2>5, <2>7, <3>2, <3>3 DEF GcellRead
  <2>9. /\ Cardinality(Bucketed) = Cardinality({i \in Entries(tr) : IsGcell(tr[i])}) - outside
        /\ outside \in Nat /\ trace = tr
    BY <1>3, <2>5 DEF Conservation, BatchInv, BatchType, trace
  <2>10. Cardinality(Bucketed) + outside = Cardinality(HitLines(tr, log, d))
    BY <2>3, <2>7, <2>9 DEF log
  <2>11. counts.gcell = Cardinality(HitLines(tr, log, d))
    BY <1>3, <2>8 DEF HitInv
  <2> QED
    BY <2>3, <2>4, <2>9, <2>10, <2>11 DEF log
<1> QED
  BY <1>2, <1>3, BatchInvariance, BatchKeepsAll, PTL
-----------------------------------------------------------------------------
(***************************************************************************)
(* The streaming rewriter is called with parameters it is proved about, so *)
(* what StreamRewriterProofs proves holds of it here.                      *)
(***************************************************************************)
SP == INSTANCE StreamRewriterProofs WITH
  Jobs <- StreamCalls, MaxRuns <- 1, job <- streamJob

\* What the streaming rewriter is called with is a job of its specification.
LEMMA StreamJobs ==
  /\ 1 \in Nat \ {0}
  /\ WindowIds \subseteq Nat
  /\ \A j \in StreamCalls : /\ DOMAIN j = {"trace", "windows", "start", "end"}
                            /\ j.trace \in Seq(SP!Line)
                            /\ j.start \in Nat /\ j.end \in Nat
                            /\ j.windows \in Seq(SP!Windows(WindowIds))
                            /\ SP!SortedById(j.windows) /\ SP!Successive(j.windows)
<1>1. ASSUME NEW in \in Inputs
      PROVE  StreamCall(in).start \in Nat /\ StreamCall(in).end \in Nat
  <2>1. CASE StreamRefused(in.log, in.explicit)
    BY <2>1 DEF StreamCall, NoCall
  <2>2. CASE ~ StreamRefused(in.log, in.explicit)
    <3>1. PICK d : d = StreamDelta(in.trace, in.log, in.explicit)
      OBVIOUS
    <3>2. VirtualStart(in.log) + d \in Nat /\ VirtualEnd(in.log) + d \in Nat
      BY <2>2, <3>1, SameDelta
    <3>3. StreamCall(in) = Call(in, d)
      BY <2>2, <3>1 DEF StreamCall
    <3> QED
      BY <3>2, <3>3 DEF Call
  <2> QED
    BY <2>1, <2>2
<1>2. ASSUME NEW in \in Inputs
      PROVE  /\ DOMAIN StreamCall(in) = {"trace", "windows", "start", "end"}
             /\ StreamCall(in).trace = in.trace /\ StreamCall(in).windows = in.windows
  BY DEF StreamCall, NoCall, Call
<1>3. ASSUME NEW in \in Inputs
      PROVE  /\ in.trace \in Seq(SP!Line) /\ in.windows \in Seq(SP!Windows(WindowIds))
             /\ SP!SortedById(in.windows) /\ SP!Successive(in.windows)
  <2>1. SP!Line = Line /\ SP!Windows(WindowIds) = Windows(WindowIds)
    BY DEF SP!Line, SP!Ops, SP!Windows, Line, Ops, Windows
  <2> QED
    BY <2>1, InputsAssumption DEF SP!SortedById, SP!Successive, SortedById, Successive
<1> QED
  BY <1>1, <1>2, <1>3, IdsAssumption DEF StreamCalls

\* The streaming rewriter that BothRewriters runs is the one that is proved about: each
\* definition is the same under both names.
LEMMA SameData ==
  /\ Stream!trace = SP!trace /\ Stream!windows = SP!windows
  /\ Stream!NWindows = SP!NWindows /\ Stream!OpenTemp = SP!OpenTemp
  /\ \A l : Stream!IsEntry(l) <=> SP!IsEntry(l)
  /\ \A l : Stream!Buffered(l) <=> SP!Buffered(l)
  /\ \A c : Stream!InCurrent(c) <=> SP!InCurrent(c)
  /\ \A S : Stream!Cardinality(S) = Cardinality(S) /\ SP!Cardinality(S) = Cardinality(S)
  /\ \A t, S : Stream!Sorted(t, S) = SP!Sorted(t, S)
  /\ \A i, c : Stream!Written(i, c) = SP!Written(i, c)
<1>1. /\ Stream!trace = SP!trace /\ Stream!windows = SP!windows
      /\ Stream!NWindows = SP!NWindows
  BY DEF Stream!trace, Stream!windows, Stream!NWindows, SP!trace, SP!windows, SP!NWindows
<1>2. Stream!OpenTemp = SP!OpenTemp
  BY <1>1 DEF Stream!OpenTemp, SP!OpenTemp
<1>3. \A l : Stream!IsEntry(l) <=> SP!IsEntry(l)
  BY DEF Stream!IsEntry, SP!IsEntry
<1>4. \A l : Stream!Buffered(l) <=> SP!Buffered(l)
  BY DEF Stream!Buffered, SP!Buffered, Stream!IsGcell, SP!IsGcell
<1>5. \A c : Stream!InCurrent(c) <=> SP!InCurrent(c)
  BY <1>1 DEF Stream!InCurrent, SP!InCurrent, Stream!InWindow, SP!InWindow
<1>6. \A S : Stream!Cardinality(S) = Cardinality(S) /\ SP!Cardinality(S) = Cardinality(S)
  BY DEF Stream!Cardinality, SP!Cardinality, Cardinality
<1>7. \A t, S : Stream!Sorted(t, S) = SP!Sorted(t, S)
  <2>1. \A t, i, j : Stream!Before(t, i, j) <=> SP!Before(t, i, j)
    BY DEF Stream!Before, SP!Before
  <2>2. \A S : Stream!Arrangements(S) = SP!Arrangements(S)
    BY <1>6 DEF Stream!Arrangements, SP!Arrangements
  <2>3. ASSUME NEW t, NEW S PROVE Stream!Sorted(t, S) = SP!Sorted(t, S)
    BY <2>1, <2>2 DEF Stream!Sorted, SP!Sorted
  <2> QED
    BY <2>3
<1>8. \A i, c : Stream!Written(i, c) = SP!Written(i, c)
  BY DEF Stream!Written, SP!Written
<1> QED
  BY <1>1, <1>2, <1>3, <1>4, <1>5, <1>6, <1>7, <1>8

\* So are the burst and the counts.
LEMMA SameOutput ==
  /\ \A r, w : Stream!Burst(r, w) = SP!Burst(r, w)
  /\ \A l, kept : Stream!Tally(l, kept) = SP!Tally(l, kept)
<1>1. \A p : Stream!Phase(p) = SP!Phase(p)
  BY SameData DEF Stream!Phase, SP!Phase
<1>2. \A r, w : Stream!Burst(r, w) = SP!Burst(r, w)
  BY <1>1 DEF Stream!Burst, SP!Burst
<1>3. \A l : Stream!IsGcell(l) <=> SP!IsGcell(l)
  BY DEF Stream!IsGcell, SP!IsGcell
<1>4. \A l, kept : Stream!Tally(l, kept) = SP!Tally(l, kept)
  BY <1>3 DEF Stream!Tally, SP!Tally
<1> QED
  BY <1>2, <1>4

\* So is every action.
LEMMA SameSteps == Stream!Step => SP!Step
<1> SUFFICES ASSUME Stream!Step PROVE SP!Step
  OBVIOUS
<1> USE DEF Stream!files, SP!files, Stream!buffer, SP!buffer
<1>1. CASE Stream!SkipBlank
  BY <1>1, SameData DEF Stream!SkipBlank, SP!SkipBlank, SP!Step
<1>2. CASE Stream!ReadEntry
  <2>1. \A c, from, to : Stream!Advances(c, from, to) <=> SP!Advances(c, from, to)
    BY SameData DEF Stream!Advances, SP!Advances
  <2>2. SP!ReadEntry
    BY <1>2, <2>1, SameData DEF Stream!ReadEntry, SP!ReadEntry
  <2> QED
    BY <2>2 DEF SP!Step
<1>3. CASE Stream!FlushPassed \/ Stream!FlushTail
  <2>1. Stream!FlushWindow
    BY <1>3 DEF Stream!FlushPassed, Stream!FlushTail
  <2>2. PICK r \in Stream!Sorted(Stream!trace, reads),
             w \in Stream!Sorted(Stream!trace, writes) :
               out' = (out \o Stream!Burst(r, w)) \o temp[Stream!windows[cur].id]
    BY <2>1 DEF Stream!FlushWindow
  <2>3. /\ r \in SP!Sorted(SP!trace, reads) /\ w \in SP!Sorted(SP!trace, writes)
        /\ out' = (out \o SP!Burst(r, w)) \o temp[SP!windows[cur].id]
    BY <2>2, SameData, SameOutput
  <2>4. SP!FlushWindow
    BY <2>1, <2>3, SameData DEF Stream!FlushWindow, SP!FlushWindow
  <2> QED
    BY <1>3, <2>4, SameData
    DEF Stream!FlushPassed, Stream!FlushTail, SP!FlushPassed, SP!FlushTail, SP!Step
<1>4. CASE Stream!PlaceEntry
  <2>1. \A l : Stream!Placing(l) <=> SP!Placing(l)
    BY SameData DEF Stream!Placing, SP!Placing
  <2>2. \A l : Stream!BufferEntry(l) => SP!BufferEntry(l)
    BY <2>1, SameData, SameOutput DEF Stream!BufferEntry, SP!BufferEntry
  <2>3. \A l : Stream!SpillEntry(l) => SP!SpillEntry(l)
    BY <2>1, SameData, SameOutput DEF Stream!SpillEntry, SP!SpillEntry
  <2>4. \A l : Stream!PassEntry(l) => SP!PassEntry(l)
    BY <2>1, SameData, SameOutput DEF Stream!PassEntry, SP!PassEntry
  <2> QED
    BY <1>4, <2>2, <2>3, <2>4, SameData DEF Stream!PlaceEntry, SP!PlaceEntry, SP!Step
<1>5. CASE Stream!EndOfTrace
  BY <1>5, SameData DEF Stream!EndOfTrace, SP!EndOfTrace, SP!Step
<1>6. CASE Stream!Finish
  BY <1>6, SameData DEF Stream!Finish, SP!Finish, SP!Step
<1> QED
  BY <1>1, <1>2, <1>3, <1>4, <1>5, <1>6 DEF Stream!Step

\* What the two rewriters do together is, of the streaming one's variables, a run of its
\* specification that is not killed.
THEOREM StreamRuns == BothSpec => SP!Spec
<1>1. BothInit => SP!Init
  BY DEF BothInit, StreamCalls, SP!Init, Stream!FirstStart, SP!FirstStart,
         Stream!NoCounts, SP!NoCounts
<1>2. [BothNext]_bothVars => [SP!Next]_(SP!vars)
  <2>1. Stream!Step \/ UNCHANGED streamVars \/ ~ [BothNext]_bothVars
    BY DEF BothNext, StreamStep, BatchStep, BothStopped, bothVars
  <2>2. UNCHANGED streamVars => UNCHANGED SP!vars
    BY DEF streamVars, SP!vars, SP!buffer, SP!files
  <2> QED
    BY <2>1, <2>2, SameSteps DEF SP!Next
<1> QED
  BY <1>1, <1>2, PTL DEF BothSpec, SP!Spec

\* So what is proved of the streaming rewriter holds.
LEMMA StreamInvariance == BothSpec => [](SP!Inv /\ SP!OrderInv /\ SP!BurstInv)
<1>1. SP!Spec => []SP!Inv
  BY StreamJobs, SP!Invariance
<1>2. SP!Spec => []SP!OrderInv
  BY StreamJobs, SP!OrderInvariance
<1>3. SP!Spec => []SP!BurstInv
  BY StreamJobs, SP!BurstInvariance
<1> QED
  BY <1>1, <1>2, <1>3, StreamRuns, PTL
-----------------------------------------------------------------------------
(***************************************************************************)
(* Without an issue gap a phase is in one cycle.                           *)
(***************************************************************************)
AtPhaseStart(a, w) ==
  /\ a.idx \in Reads(w) => a.cycle = windows[w].begin
  /\ a.idx \in Writes(w) => a.cycle = WriteStart(w)

DenseInv ==
  step # "bucket" /\ gap.issue = 0 =>
    \A a \in EntriesOf(output), w \in 1 .. NWindows : AtPhaseStart(a, w)

\* Then every entry of a phase has the cycle the phase starts with.
LEMMA PhaseInOneCycle ==
  ASSUME NEW S, NEW d, NEW start \in Nat, PhaseIs(d, S, start), gap.issue = 0,
         Cardinality(S) \in Nat
  PROVE  \A a \in EntriesOf(d) : a.cycle = start
<1> SUFFICES ASSUME NEW a \in EntriesOf(d) PROVE a.cycle = start
  OBVIOUS
<1>1. start <= a.cycle /\ a.cycle <= start + (Cardinality(S) - 1) * 0
  BY DEF PhaseIs
<1>2. (Cardinality(S) - 1) * 0 = 0
  OBVIOUS
<1>3. a.cycle \in Int
  <2>1. a \in OutEntry
    BY DEF PhaseIs, EntriesOf
  <2> QED
    BY <2>1 DEF OutEntry
<1> QED
  BY <1>1, <1>2, <1>3

\* Every step keeps it so.
LEMMA DenseNext == BatchInv /\ DenseInv /\ [BothNext]_bothVars => DenseInv'
<1> SUFFICES ASSUME BatchInv, DenseInv, [BothNext]_bothVars, step' # "bucket", gap'.issue = 0
             PROVE  (\A a \in EntriesOf(output), w \in 1 .. NWindows : AtPhaseStart(a, w))'
  BY DEF DenseInv
<1>1. BatchType /\ BucketInv /\ PlaceInv
  BY DEF BatchInv
<1>2. ASSUME job' = job, gap' = gap, bucket' = bucket,
             \A a \in EntriesOf(output'), w \in 1 .. NWindows : AtPhaseStart(a, w)
      PROVE  (\A a \in EntriesOf(output), w \in 1 .. NWindows : AtPhaseStart(a, w))'
  <2>1. trace' = trace /\ windows' = windows /\ NWindows' = NWindows
    BY <1>2, SameJob
  <2>2. \A w : Reads(w)' = Reads(w) /\ Writes(w)' = Writes(w)
    BY <1>2, <2>1 DEF Reads, Writes
  <2>3. \A w : WriteStart(w)' = WriteStart(w)
    BY <1>2, <2>1, <2>2 DEF WriteStart
  <2> QED
    BY <1>2, <2>1, <2>2, <2>3 DEF AtPhaseStart, EntriesOf
<1>3. CASE UNCHANGED batchVars
  BY <1>2, <1>3 DEF batchVars, DenseInv
<1>4. CASE SkipLine \/ BucketEntry
  BY <1>4 DEF SkipLine, BucketEntry
<1>5. CASE BucketsFull
  <2>1. /\ job' = job /\ gap' = gap /\ bucket' = bucket /\ output' = output /\ step = "bucket"
    BY <1>5 DEF BucketsFull
  <2>2. ASSUME NEW a \in EntriesOf(output), NEW w \in 1 .. NWindows
        PROVE  a.idx \notin Reads(w) /\ a.idx \notin Writes(w)
    <3>1. \A v \in 1 .. NWindows : ~ (v < win)
      BY <1>1, <2>1 DEF BucketInv
    <3>2. Free(a.idx)
      BY <1>1, <3>1, PlacedRead
    <3> QED
      BY <1>1, <3>2, BucketFacts DEF Reads, Writes
  <2> QED
    BY <1>2, <2>1, <2>2 DEF AtPhaseStart
<1>6. CASE EmitWindow
  <2>1. /\ job' = job /\ gap' = gap /\ bucket' = bucket /\ step = "emit" /\ step' = step
        /\ win \in 1 .. NWindows
    BY <1>1, <1>6, EmitFacts DEF EmitWindow
  <2>2. PICK d, e : /\ output' = (output \o d) \o e
                    /\ PhaseIs(d, Reads(win), windows[win].begin)
                    /\ PhaseIs(e, Writes(win), WriteStart(win))
    BY <1>1, <1>6, EmitFacts
  <2>3. /\ bucket[win] = Reads(win) \cup Writes(win) /\ Reads(win) \cap Writes(win) = {}
        /\ \A i \in bucket[win] : \A v \in 1 .. NWindows : i \in bucket[v] => v = win
        /\ bucket[win] \subseteq 1 .. Len(trace)
    BY <1>1, <2>1, BucketFacts
  <2>4. EntriesOf(output') = EntriesOf(output) \cup EntriesOf(d) \cup EntriesOf(e)
    BY <1>1, <2>2, <2>3, EmitLines
  <2>5. /\ \A a \in EntriesOf(d) : a.idx \in Reads(win)
        /\ \A a \in EntriesOf(e) : a.idx \in Writes(win)
    <3>1. \A q : \A a \in EntriesOf(q) : a.idx \in Idxs(q)
      BY DEF Idxs, EntriesOf
    <3> QED
      BY <2>2, <3>1 DEF PhaseIs
  <2>6. /\ windows[win].begin \in Nat /\ WriteStart(win) \in Nat
        /\ Cardinality(Reads(win)) \in Nat /\ Cardinality(Writes(win)) \in Nat
    <3>1. Reads(win) \in SUBSET (1 .. Len(trace)) /\ Writes(win) \in SUBSET (1 .. Len(trace))
      BY <2>3
    <3> QED
      BY <1>1, <2>1, <3>1, JobFacts, WriteStartFacts, LineNumbersFinite
  <2>7. gap.issue = 0
    BY <2>1
  <2>8. /\ \A a \in EntriesOf(d) : a.cycle = windows[win].begin
        /\ \A a \in EntriesOf(e) : a.cycle = WriteStart(win)
    BY <2>2, <2>6, <2>7, PhaseInOneCycle
  <2>9. \A w : Reads(w) \subseteq bucket[w] /\ Writes(w) \subseteq bucket[w]
    BY DEF Reads, Writes
  <2>10. ASSUME NEW a \in EntriesOf(output'), NEW w \in 1 .. NWindows
         PROVE  AtPhaseStart(a, w)
    <3>1. CASE a \in EntriesOf(output)
      BY <2>1, <2>7, <3>1 DEF DenseInv
    <3>2. CASE a \in EntriesOf(d)
      <4>1. a.idx \in Reads(win) /\ a.cycle = windows[win].begin
        BY <2>5, <2>8, <3>2
      <4>2. a.idx \in Reads(w) \cup Writes(w) => w = win
        BY <2>3, <2>9, <4>1
      <4> QED
        BY <2>3, <4>1, <4>2 DEF AtPhaseStart
    <3>3. CASE a \in EntriesOf(e)
      <4>1. a.idx \in Writes(win) /\ a.cycle = WriteStart(win)
        BY <2>5, <2>8, <3>3
      <4>2. a.idx \in Reads(w) \cup Writes(w) => w = win
        BY <2>3, <2>9, <4>1
      <4> QED
        BY <2>3, <4>1, <4>2 DEF AtPhaseStart
    <3> QED
      BY <2>4, <3>1, <3>2, <3>3
  <2> QED
    BY <1>2, <2>1, <2>10
<1>7. CASE BucketsEmitted
  BY <1>2, <1>7 DEF BucketsEmitted, DenseInv
<1>8. CASE SortOutput
  <2>1. EntriesOf(output') = EntriesOf(output)
    BY <1>1, <1>8, SortFacts
  <2> QED
    BY <1>2, <1>8, <2>1 DEF SortOutput, DenseInv
<1> QED
  BY BatchSteps, <1>3, <1>4, <1>5, <1>6, <1>7, <1>8 DEF Step

\* Nothing is emitted at the start.
LEMMA DenseInvariance == BothSpec => []DenseInv
<1>1. BothInit => DenseInv
  BY DEF BothInit, BatchStart, DenseInv
<1> QED
  BY <1>1, DenseNext, BatchInvariance, PTL DEF BothSpec

\* The start of a window's writes without gaps.
LEMMA WriteStartWithoutGaps ==
  ASSUME BatchType, gap = [issue |-> 0, phase |-> 0], NEW w \in 1 .. NWindows
  PROVE  WriteStart(w) = windows[w].begin + (IF Reads(w) # {} THEN 1 ELSE 0)
<1>1. bucket[w] \subseteq 1 .. Len(trace)
  BY DEF BatchType
<1>2. Reads(w) \in SUBSET (1 .. Len(trace))
  BY <1>1 DEF Reads
<1>3. PICK n \in Nat : n = Cardinality(Reads(w))
  BY <1>2, JobFacts, LineNumbersFinite
<1>4. PICK b \in Nat : b = windows[w].begin
  BY JobFacts
<1>5. (n - 1) * 0 = 0
  OBVIOUS
<1>6. gap.issue = 0 /\ gap.phase = 0
  OBVIOUS
<1>7. CASE Reads(w) = {}
  BY <1>4, <1>7 DEF WriteStart
<1>8. CASE Reads(w) # {}
  <2>1. WriteStart(w) = b + (n - 1) * 0 + 0 + 1
    BY <1>3, <1>4, <1>6, <1>8 DEF WriteStart
  <2> QED
    BY <1>4, <1>5, <1>8, <2>1
<1> QED
  BY <1>7, <1>8
-----------------------------------------------------------------------------
(***************************************************************************)
(* What the two agree on when both are done.                               *)
(***************************************************************************)
BothInv == /\ BatchInv /\ DenseInv /\ Conservation /\ CallInv /\ HitInv /\ RangesAgree
           /\ SP!Inv /\ SP!OrderInv /\ SP!BurstInv

\* Everything proved of either holds of both.
LEMMA BothInvariance == BothSpec => []BothInv
<1>1. CallInv /\ HitInv /\ [BothNext]_bothVars => (CallInv /\ HitInv)'
  BY CallNext, HitNext
<1>2. BothSpec => [](CallInv /\ HitInv)
  BY InitRange, <1>1, PTL DEF BothSpec
<1> QED
  BY <1>2, BatchInvariance, DenseInvariance, BatchKeepsAll, SameRange, StreamInvariance, PTL
  DEF BothInv

\* On the same input a line is of the same burst in both rewriters, whether a cursor or
\* a search finds the window.
LEMMA SameBurst ==
  ASSUME streamJob = job
  PROVE  /\ SP!trace = trace /\ SP!windows = windows /\ SP!NWindows = NWindows
         /\ \A t : SP!Entries(t) = Entries(t)
         /\ \A s : SP!InCycleOrder(s) <=> InCycleOrder(s)
         /\ \A i : SP!IsGcell(trace[i]) <=> IsGcell(trace[i])
         /\ \A i, w : SP!InBurst(i, w) <=> GoesTo(trace[i], w)
         /\ \A i : SP!NoBurst(i) <=> Free(i)
         /\ \A i, j : SP!Before(trace, i, j) <=> Before(trace, i, j)
<1>1. SP!trace = trace /\ SP!windows = windows /\ SP!NWindows = NWindows
  BY DEF SP!trace, SP!windows, SP!NWindows, trace, windows, NWindows
<1>2. \A t : SP!Entries(t) = Entries(t)
  BY DEF SP!Entries, Entries, SP!IsEntry, IsEntry
<1>3. \A s : SP!InCycleOrder(s) <=> InCycleOrder(s)
  BY DEF SP!InCycleOrder, InCycleOrder
<1>4. \A i : SP!IsGcell(trace[i]) <=> IsGcell(trace[i])
  BY DEF SP!IsGcell, IsGcell
<1>5. \A ws, c, w : SP!IsWindowForCycle(ws, c, w) <=> IsWindowForCycle(ws, c, w)
  BY DEF SP!IsWindowForCycle, SP!InWindow, IsWindowForCycle, InWindow
<1>6. \A i, w : SP!InBurst(i, w) <=> GoesTo(trace[i], w)
  BY <1>1, <1>4, <1>5 DEF SP!InBurst, SP!Buffered, GoesTo
<1>7. \A i : SP!NoBurst(i) <=> Free(i)
  BY <1>1, <1>6 DEF SP!NoBurst, Free
<1>8. \A i, j : SP!Before(trace, i, j) <=> Before(trace, i, j)
  BY DEF SP!Before, Before
<1> QED
  BY <1>1, <1>2, <1>3, <1>4, <1>6, <1>7, <1>8

\* What is known of the outputs when both are done.
LEMMA DoneFacts ==
  ASSUME BothInv, BothDone, streamJob = job
  PROVE  /\ \A k \in DOMAIN out : out[k].idx \in Entries(trace)
         /\ \A k, l \in DOMAIN out : out[k].idx = out[l].idx => k = l
         /\ \A m \in DOMAIN output : /\ output[m] \in EntriesOf(output)
                                     /\ output[m].idx \in 1 .. Len(trace)
                                     /\ output[m].cycle \in Int
                                     /\ ~ Free(output[m].idx) =>
                                          \E w \in 1 .. NWindows : output[m].idx \in bucket[w]
         /\ \A w \in 1 .. NWindows : bucket[w] = {i \in Entries(trace) : GoesTo(trace[i], w)}
         /\ SP!Consumed = Entries(trace) /\ ReadEntries = Entries(trace)
<1>1. BatchType /\ BucketInv /\ PlaceInv /\ step = "done" /\ pc = "done" /\ SP!PlaceInv
  BY DEF BothInv, BatchInv, BothDone, SP!Inv
<1>2. /\ Len(trace) \in Nat /\ pos = Len(trace) + 1 /\ entry = Len(trace) + 1
      /\ \A i \in Entries(trace) : i \in 1 .. Len(trace)
  BY <1>1, JobFacts DEF BothInv, HitInv, BucketInv, trace
<1>3. \A i \in Entries(trace) : i < Len(trace) + 1
  BY <1>2
<1>4. SP!Consumed = Entries(trace)
  BY <1>2, <1>3, SameBurst DEF SP!Consumed
<1>5. ReadEntries = Entries(trace)
  BY <1>2, <1>3 DEF ReadEntries
<1>6. SP!Idxs(out) \subseteq SP!Consumed /\ SP!NoRepeat(out)
  BY <1>1 DEF SP!PlaceInv, SP!Running
<1>7. /\ \A k \in DOMAIN out : out[k].idx \in Entries(trace)
      /\ \A k, l \in DOMAIN out : out[k].idx = out[l].idx => k = l
  BY <1>4, <1>6 DEF SP!Idxs, SP!NoRepeat
<1>8. \A w \in 1 .. NWindows : bucket[w] = {i \in Entries(trace) : GoesTo(trace[i], w)}
  BY <1>1, <1>5 DEF BucketInv
<1>9. ASSUME NEW m \in DOMAIN output
      PROVE  /\ output[m] \in EntriesOf(output)
             /\ output[m].idx \in 1 .. Len(trace) /\ output[m].cycle \in Int
             /\ ~ Free(output[m].idx) => \E w \in 1 .. NWindows : output[m].idx \in bucket[w]
  <2>1. output[m] \in EntriesOf(output)
    BY DEF EntriesOf
  <2> QED
    BY <1>1, <2>1, PlacedRead
<1> QED
  BY <1>4, <1>5, <1>7, <1>8, <1>9

\* The cycles of an entry in the two outputs.
LEMMA CyclesAgree ==
  ASSUME BothInv, BothDone, streamJob = job, InCycleOrder(trace),
         gap = [issue |-> 0, phase |-> 0],
         NEW k \in DOMAIN out, NEW m \in DOMAIN output, out[k].idx = output[m].idx
  PROVE  output[m].cycle = out[k].cycle + Delay(out[k].idx)
<1> DEFINE i == out[k].idx
           a == output[m]
<1>1. /\ BatchType /\ BucketInv /\ CycleInv /\ step = "done"
      /\ \A e \in EntriesOf(output), w \in 1 .. NWindows : AtPhaseStart(e, w)
  BY DEF BothInv, BatchInv, BothDone, DenseInv
<1>2. SP!Bursts
  BY SameBurst DEF BothInv, BothDone, SP!BurstInv, SP!Running
<1>3. /\ \A w \in 1 .. NWindows : GoesTo(trace[i], w) => out[k].cycle = windows[w].begin
      /\ Free(i) => out[k].cycle = trace[i].cycle
  BY <1>2, SameBurst DEF SP!Bursts, SP!Given
<1>4. /\ a \in EntriesOf(output) /\ a.idx = i /\ i \in 1 .. Len(trace)
      /\ ~ Free(i) => \E w \in 1 .. NWindows : i \in bucket[w]
  BY DoneFacts
<1>5. CASE Free(i)
  <2>1. a.cycle = trace[i].cycle /\ trace[i].cycle \in Nat
    BY <1>1, <1>4, <1>5, JobFacts DEF CycleInv
  <2>2. \A w \in 1 .. NWindows : i \notin Writes(w)
    BY <1>1, <1>5, BucketFacts DEF Writes
  <2>3. Delay(i) = 0
    BY <2>2 DEF Delay
  <2> QED
    BY <1>3, <1>5, <2>1, <2>3
<1>6. CASE ~ Free(i)
  <2>1. PICK w \in 1 .. NWindows : i \in bucket[w]
    BY <1>4, <1>6
  <2>2. /\ GoesTo(trace[i], w) /\ \A v \in 1 .. NWindows : i \in bucket[v] => v = w
        /\ i \in Reads(w) \cup Writes(w) /\ Reads(w) \cap Writes(w) = {}
    BY <1>1, <2>1, BucketFacts
  <2>3. out[k].cycle = windows[w].begin /\ windows[w].begin \in Nat
    BY <1>1, <1>3, <2>2, JobFacts
  <2>4. \A v \in 1 .. NWindows : i \in Writes(v) => v = w
    BY <2>2 DEF Writes
  <2>5. CASE i \in Reads(w)
    <3>1. a.cycle = windows[w].begin
      BY <1>1, <1>4, <2>5 DEF AtPhaseStart
    <3>2. \A v \in 1 .. NWindows : i \notin Writes(v)
      BY <2>2, <2>4, <2>5
    <3>3. Delay(i) = 0
      BY <3>2 DEF Delay
    <3> QED
      BY <2>3, <3>1, <3>3
  <2>6. CASE i \in Writes(w)
    <3>1. a.cycle = WriteStart(w)
      BY <1>1, <1>4, <2>6 DEF AtPhaseStart
    <3>2. Delay(i) = IF Reads(w) # {} THEN 1 ELSE 0
      BY <2>4, <2>6 DEF Delay
    <3> QED
      BY <1>1, <2>3, <3>1, <3>2, WriteStartWithoutGaps
  <2> QED
    BY <2>2, <2>5, <2>6
<1> QED
  BY <1>5, <1>6

\* The order of two requests of one phase of one window in the two outputs.
LEMMA OrdersAgree ==
  ASSUME BothInv, BothDone, streamJob = job, InCycleOrder(trace),
         gap = [issue |-> 0, phase |-> 0],
         NEW k \in DOMAIN out, NEW l \in DOMAIN out,
         NEW m \in DOMAIN output, NEW n \in DOMAIN output,
         out[k].idx = output[m].idx, out[l].idx = output[n].idx,
         SamePhase(out[k].idx, out[l].idx), Before(trace, out[k].idx, out[l].idx)
  PROVE  k < l /\ m < n
<1> DEFINE i == out[k].idx
           j == out[l].idx
<1>1. /\ BatchType /\ BucketInv /\ SortedInv /\ step = "done"
      /\ \A e \in EntriesOf(output), w \in 1 .. NWindows : AtPhaseStart(e, w)
  BY DEF BothInv, BatchInv, BothDone, DenseInv
<1>2. SP!BurstsInOrder(out)
  BY SameBurst DEF BothInv, BothDone, SP!BurstInv, SP!Running, SP!Bursts
<1>3. PICK w \in 1 .. NWindows : {i, j} \subseteq Reads(w) \/ {i, j} \subseteq Writes(w)
  BY DEF SamePhase
<1>4. i \in bucket[w] /\ j \in bucket[w] /\ trace[i].op = trace[j].op
  BY <1>3 DEF Reads, Writes
<1>5. GoesTo(trace[i], w) /\ GoesTo(trace[j], w)
  BY <1>1, <1>4, BucketFacts
<1>6. k < l
  <2>1. SP!Precedes(i, j)
    BY <1>4, <1>5, SameBurst DEF SP!Precedes
  <2> QED
    BY <1>2, <2>1 DEF SP!BurstsInOrder
<1>7. /\ output[m] \in EntriesOf(output) /\ output[n] \in EntriesOf(output)
      /\ output[m].idx = i /\ output[n].idx = j
      /\ output[m].cycle \in Int /\ output[n].cycle \in Int
  BY DoneFacts
<1>8. output[m].cycle = output[n].cycle
  BY <1>1, <1>3, <1>7 DEF AtPhaseStart
<1>9. SortsBefore(output[m], output[n])
  BY <1>4, <1>7, <1>8 DEF SortsBefore, Phase
<1>10. m # n
  <2>1. i # j
    <3>1. trace[i].addr \in Nat /\ i \in Nat
      BY <1>1, DoneFacts, JobFacts
    <3> QED
      BY <3>1 DEF Before
  <2> QED
    BY <1>7, <2>1
<1>11. ~ (n < m)
  BY <1>1, <1>9 DEF SortedInv
<1>12. m \in Nat /\ n \in Nat
  BY <1>1 DEF BatchType
<1> QED
  BY <1>6, <1>10, <1>11, <1>12

\* On a trace in cycle order and without gaps the rewriters agree, whatever the windows
\* and however many lines fall on a cycle that two of them share: on the cycle of every
\* entry, but that the writes of the batch rewriter come one cycle after the window's
\* reads; on the order of every phase of every window; and on what they count as outside.
THEOREM SameRewriting == BothSpec => []RewritersAgree
<1>1. ASSUME BothInv PROVE RewritersAgree
  <2> SUFFICES ASSUME BothDone, streamJob = job, InCycleOrder(trace),
                      gap = [issue |-> 0, phase |-> 0]
               PROVE  /\ \A k \in DOMAIN out, m \in DOMAIN output :
                           out[k].idx = output[m].idx
                           => output[m].cycle = out[k].cycle + Delay(out[k].idx)
                      /\ \A k, l \in DOMAIN out, m, n \in DOMAIN output :
                           /\ out[k].idx = output[m].idx /\ out[l].idx = output[n].idx
                           /\ SamePhase(out[k].idx, out[l].idx)
                           => (k < l <=> m < n)
                      /\ counts.outside = outside
    BY DEF RewritersAgree
  <2>1. ASSUME NEW k \in DOMAIN out, NEW m \in DOMAIN output, out[k].idx = output[m].idx
        PROVE  output[m].cycle = out[k].cycle + Delay(out[k].idx)
    BY <1>1, <2>1, CyclesAgree
  <2>2. ASSUME NEW k \in DOMAIN out, NEW l \in DOMAIN out,
               NEW m \in DOMAIN output, NEW n \in DOMAIN output,
               out[k].idx = output[m].idx, out[l].idx = output[n].idx,
               SamePhase(out[k].idx, out[l].idx)
        PROVE  k < l <=> m < n
    <3> DEFINE i == out[k].idx
               j == out[l].idx
    <3>1. BatchType /\ PlaceInv /\ out \in Seq(SP!OutLine) /\ output \in Seq(OutEntry)
      BY <1>1 DEF BothInv, BatchInv, BatchType, SP!Inv, SP!TypeOK
    <3>2. k \in Nat /\ l \in Nat /\ m \in Nat /\ n \in Nat
      BY <3>1
    <3>3. CASE Before(trace, i, j)
      <4>1. k < l /\ m < n
        BY <1>1, <2>2, <3>3, OrdersAgree
      <4> QED
        BY <4>1
    <3>4. CASE Before(trace, j, i)
      <4>1. SamePhase(j, i)
        BY <2>2 DEF SamePhase
      <4>2. l < k /\ n < m
        BY <1>1, <2>2, <3>4, <4>1, OrdersAgree
      <4> QED
        BY <3>2, <4>2
    <3>5. CASE i = j
      <4>1. k = l
        BY <1>1, <3>5, DoneFacts
      <4>2. m = n
        BY <2>2, <3>1, <3>5 DEF PlaceInv, NoRepeat
      <4> QED
        BY <3>2, <4>1, <4>2
    <3>6. Before(trace, i, j) \/ Before(trace, j, i) \/ i = j
      <4>1. /\ i \in Nat /\ j \in Nat /\ trace[i].addr \in Nat /\ trace[j].addr \in Nat
        BY <1>1, <2>2, <3>1, DoneFacts, JobFacts
      <4> QED
        BY <4>1 DEF Before
    <3> QED
      BY <3>3, <3>4, <3>5, <3>6
  <2>3. counts.outside = outside
    <3>1. SP!Bursts /\ BucketInv
      BY <1>1, SameBurst DEF BothInv, BatchInv, BothDone, SP!BurstInv, SP!Running
    <3>2. SP!Outside = {i \in ReadEntries : IsGcell(trace[i]) /\ Free(i)}
      BY <1>1, DoneFacts, SameBurst DEF SP!Outside
    <3>3. counts.outside = Cardinality(SP!Outside)
      BY <3>1, SameData DEF SP!Bursts
    <3> QED
      BY <3>1, <3>2, <3>3 DEF BucketInv
  <2> QED
    BY <2>1, <2>2, <2>3
<1> QED
  BY <1>1, BothInvariance, PTL
-----------------------------------------------------------------------------
(***************************************************************************)
(* The lists that the g_cells-only traces are made of.                     *)
(***************************************************************************)
IsListOf(p, S) ==
  /\ p \in Seq(S) /\ Len(p) = Cardinality(S) /\ Cardinality(S) \in Nat
  /\ \A i \in S : \E k \in 1 .. Len(p) : p[k] = i
  /\ \A k, m \in 1 .. Len(p) : p[k] = p[m] => k = m

LEMMA SameFinite == \A S : SP!IsFiniteSet(S) <=> IsFiniteSet(S)
BY DEF SP!IsFiniteSet, IsFiniteSet

\* An arrangement that some order decides has every line once.
LEMMA ArrangedList ==
  ASSUME NEW S, IsFiniteSet(S), NEW p \in Arrangements(S)
  PROVE  IsListOf(p, S)
<1>1. Cardinality(S) \in Nat
  BY FS_CardinalityType
<1>2. PICK n \in Nat : n = Cardinality(S)
  BY <1>1
<1>3. p \in [1 .. n -> S] /\ \A i \in S : \E k \in 1 .. n : p[k] = i
  BY <1>2 DEF Arrangements
<1>4. p \in Seq(S) /\ Len(p) = n
  BY <1>3
<1>5. IsFiniteSet(1 .. n) /\ Cardinality(1 .. n) = n
  BY FS_Interval
<1>6. p \in Injection(1 .. n, S)
  <2>1. p \in Surjection(1 .. n, S)
    BY <1>3, Fun_IsSurj
  <2> QED
    BY <1>2, <1>5, <2>1, FS_SurjSameCardinalityImpliesInj
<1>7. \A k, m \in 1 .. n : p[k] = p[m] => k = m
  BY <1>6, Fun_InjectionProperties
<1> QED
  BY <1>2, <1>3, <1>4, <1>7 DEF IsListOf

\* The list of a set of line numbers in the order of the trace.
LEMMA TraceOrderFacts ==
  ASSUME NEW n \in Nat, NEW S \in SUBSET (1 .. n)
  PROVE  /\ IsListOf(InTraceOrder(S), S)
         /\ \A k, m \in 1 .. Len(InTraceOrder(S)) :
              k < m => InTraceOrder(S)[k] < InTraceOrder(S)[m]
<1> DEFINE B == [j \in S |-> {i \in S : i < j}]
<1>1. IsFiniteSet(S)
  BY LineNumbersFinite
<1>2. \A i, j \in S : i \in B[j] <=> i < j
  OBVIOUS
<1>3. \A i \in S : i \in Nat
  OBVIOUS
<1> HIDE DEF B
<1>4. /\ \A i \in S : i \notin B[i]
      /\ \A i, j, l \in S : i \in B[j] /\ j \in B[l] => i \in B[l]
      /\ \A i, j \in S : i # j => i \in B[j] \/ j \in B[i]
  BY <1>2, <1>3
<1>5. \E p \in SP!Arrangements(S) : \A k, m \in DOMAIN p : k < m => p[k] \in B[p[m]]
  <2>1. PICK T : T = S
    OBVIOUS
  <2>2. /\ IsFiniteSet(T)
        /\ \A i \in T : i \notin B[i]
        /\ \A i, j, l \in T : i \in B[j] /\ j \in B[l] => i \in B[l]
        /\ \A i, j \in T : i # j => i \in B[j] \/ j \in B[i]
    BY <1>1, <1>4, <2>1
  <2>3. \E p \in SP!Arrangements(T) : \A k, m \in DOMAIN p : k < m => p[k] \in B[p[m]]
    BY ONLY <2>2, SameFinite, StreamJobs, SP!ListInOrder
  <2> QED
    BY <2>1, <2>3
<1>6. SP!Arrangements(S) = Arrangements(S)
  BY SameData DEF SP!Arrangements, Arrangements
<1>7. \E p \in Arrangements(S) : \A k, m \in DOMAIN p : k < m => p[k] < p[m]
  <2>1. PICK p \in Arrangements(S) : \A k, m \in DOMAIN p : k < m => p[k] \in B[p[m]]
    BY <1>5, <1>6
  <2>2. \A k \in DOMAIN p : p[k] \in S
    BY DEF Arrangements
  <2> QED
    BY <1>2, <2>1, <2>2
<1> DEFINE q == InTraceOrder(S)
<1>8. q \in Arrangements(S) /\ \A k, m \in DOMAIN q : k < m => q[k] < q[m]
  BY <1>7 DEF InTraceOrder
<1> HIDE DEF q
<1>9. IsListOf(q, S)
  BY <1>1, <1>8, ArrangedList
<1>10. DOMAIN q = 1 .. Len(q)
  BY <1>9 DEF IsListOf
<1> QED
  BY <1>8, <1>9, <1>10 DEF q

\* The list of a set of line numbers in the order of their key.
LEMMA KeyOrderFacts ==
  ASSUME NEW n \in Nat, NEW S \in SUBSET (1 .. n), NEW t, \A i \in S : t[i].addr \in Nat
  PROVE  /\ IsListOf(InKeyOrder(t, S), S)
         /\ \A k, m \in 1 .. Len(InKeyOrder(t, S)) :
              k < m => Before(t, InKeyOrder(t, S)[k], InKeyOrder(t, S)[m])
<1>1. IsFiniteSet(S)
  BY LineNumbersFinite
<1>2. SP!Sorted(t, S) # {}
  <2>1. \A i \in S : i \in Nat /\ t[i].addr \in Nat
    OBVIOUS
  <2> QED
    BY <1>1, <2>1, SameFinite, StreamJobs, SP!SortExists
<1>3. SP!Sorted(t, S) = Sorted(t, S)
  <2>1. \A i, j : SP!Before(t, i, j) <=> Before(t, i, j)
    BY DEF SP!Before, Before
  <2>2. SP!Arrangements(S) = Arrangements(S)
    BY SameData DEF SP!Arrangements, Arrangements
  <2> QED
    BY <2>1, <2>2 DEF SP!Sorted, Sorted
<1> DEFINE q == InKeyOrder(t, S)
<1>4. q \in Sorted(t, S)
  BY <1>2, <1>3 DEF InKeyOrder
<1> HIDE DEF q
<1>5. q \in Arrangements(S) /\ \A k, m \in DOMAIN q : k < m => Before(t, q[k], q[m])
  BY <1>4 DEF Sorted
<1>6. IsListOf(q, S)
  BY <1>1, <1>5, ArrangedList
<1>7. DOMAIN q = 1 .. Len(q)
  BY <1>6 DEF IsListOf
<1> QED
  BY <1>5, <1>6, <1>7 DEF q

\* A list of a set's members is one of a wider set's.
LEMMA WiderSeq ==
  ASSUME NEW S, NEW T, S \subseteq T, NEW q \in Seq(S)
  PROVE  q \in Seq(T)
OBVIOUS

\* Lists put together.
LEMMA TwoLists ==
  ASSUME NEW S, NEW a \in Seq(S), NEW b \in Seq(S)
  PROVE  /\ a \o b \in Seq(S) /\ Len(a \o b) = Len(a) + Len(b)
         /\ Len(a) \in Nat /\ Len(b) \in Nat
         /\ \A i \in 1 .. Len(a) + Len(b) :
              (a \o b)[i] = IF i <= Len(a) THEN a[i] ELSE b[i - Len(a)]
BY LenProperties, ConcatProperties

LEMMA ThreeLists ==
  ASSUME NEW S, NEW a \in Seq(S), NEW b \in Seq(S), NEW c \in Seq(S),
         NEW p, p = (a \o b) \o c
  PROVE  /\ p \in Seq(S) /\ Len(p) = Len(a) + Len(b) + Len(c)
         /\ Len(a) \in Nat /\ Len(b) \in Nat /\ Len(c) \in Nat
         /\ \A m \in 1 .. Len(p) :
              \/ m \in 1 .. Len(a) /\ p[m] = a[m]
              \/ m - Len(a) \in 1 .. Len(b) /\ p[m] = b[m - Len(a)]
              \/ /\ m - Len(a) - Len(b) \in 1 .. Len(c)
                 /\ p[m] = c[m - Len(a) - Len(b)]
<1> DEFINE h == a \o b
<1>1. /\ h \in Seq(S) /\ Len(h) = Len(a) + Len(b)
      /\ Len(a) \in Nat /\ Len(b) \in Nat /\ Len(c) \in Nat
      /\ \A i \in 1 .. Len(a) + Len(b) : h[i] = IF i <= Len(a) THEN a[i] ELSE b[i - Len(a)]
  BY LenProperties, ConcatProperties
<1> HIDE DEF h
<1>2. p = h \o c
  BY DEF h
<1>3. /\ p \in Seq(S) /\ Len(p) = Len(h) + Len(c)
      /\ \A i \in 1 .. Len(h) + Len(c) : p[i] = IF i <= Len(h) THEN h[i] ELSE c[i - Len(h)]
  <2>1. /\ h \o c \in Seq(S) /\ Len(h \o c) = Len(h) + Len(c)
        /\ \A i \in 1 .. Len(h) + Len(c) :
             (h \o c)[i] = IF i <= Len(h) THEN h[i] ELSE c[i - Len(h)]
    <3>1. h \in Seq(S) /\ c \in Seq(S)
      BY <1>1
    <3> QED
      BY ONLY <3>1, TwoLists
  <2> QED
    BY <1>2, <2>1
<1>4. ASSUME NEW m \in 1 .. Len(p)
      PROVE  \/ m \in 1 .. Len(a) /\ p[m] = a[m]
             \/ m - Len(a) \in 1 .. Len(b) /\ p[m] = b[m - Len(a)]
             \/ /\ m - Len(a) - Len(b) \in 1 .. Len(c)
                /\ p[m] = c[m - Len(a) - Len(b)]
  <2>1. CASE m <= Len(a)
    BY <1>1, <1>3, <2>1
  <2>2. CASE ~ (m <= Len(a)) /\ m <= Len(h)
    BY <1>1, <1>3, <2>2
  <2>3. CASE ~ (m <= Len(h))
    <3>1. p[m] = c[m - Len(h)] /\ m - Len(h) = m - Len(a) - Len(b)
      BY <1>1, <1>3, <2>3
    <3> QED
      BY <1>1, <1>3, <2>3, <3>1
  <2> QED
    BY <2>1, <2>2, <2>3
<1> QED
  BY <1>1, <1>3, <1>4
-----------------------------------------------------------------------------
(***************************************************************************)
(* The g_cells-only traces.                                                *)
(***************************************************************************)
Region == WithGcell(trace, given.log, given.explicit)
RegionOf(ops) == {i \in Region : trace[i].op \in ops}
RegionReads == RegionOf({"READ"})
RegionWrites == RegionOf({"WRITE"})
RegionOthers == RegionOf(Ops \ {"READ", "WRITE"})

\* They are made of lines of the trace.
LEMMA RegionFacts ==
  ASSUME BothInv, BothDone
  PROVE  /\ Len(trace) \in Nat /\ Region \in SUBSET (1 .. Len(trace))
         /\ IsFiniteSet(Region) /\ Cardinality(Region) \in Nat
<1>1. BatchType
  BY DEF BothInv, BatchInv
<1>2. Len(trace) \in Nat /\ Entries(trace) \subseteq 1 .. Len(trace)
  BY <1>1, JobFacts
<1>3. Region \in SUBSET (1 .. Len(trace))
  BY <1>2 DEF Region, WithGcell
<1> QED
  BY <1>2, <1>3, LineNumbersFinite

\* With the offset given these are the lines that the rewriters count; else they are no
\* more than those, as the default is one of the candidates, or else its array, which
\* begins below address 0, lies in the one that begins there.
LEMMA RegionCounted ==
  ASSUME BothInv, BothDone
  PROVE  /\ Cardinality(Region) <= counts.gcell
         /\ given.explicit # << >> => Cardinality(Region) = counts.gcell
         /\ RangeFound(given.log)
<1> DEFINE tr == given.trace
           log == given.log
           explicit == given.explicit
<1>1. given \in Inputs /\ ~ StreamRefused(log, explicit) /\ trace = tr /\ tr \in Seq(Line)
  <2>1. CallInv
    BY DEF BothInv
  <2>2. given \in Inputs /\ ~ StreamRefuses
    BY <2>1 DEF CallInv, BothDone
  <2> QED
    BY <2>1, <2>2, GivenTrace DEF StreamRefuses, trace
<1>2. RangeFound(log) /\ VirtualStart(log) < VirtualEnd(log)
  BY <1>1 DEF StreamRefused, RangeFound
<1>3. PICK cs : cs = Candidates(log, explicit)
  OBVIOUS
<1>4. PICK d : d = StreamDelta(tr, log, explicit)
  OBVIOUS
<1>5. /\ cs \in Seq(Int) /\ d \in Keys(log, cs)
      /\ VirtualStart(log) \in Nat /\ VirtualEnd(log) \in Nat
      /\ StreamMatched(tr, log, explicit) = Cardinality(HitLines(tr, log, d))
      /\ \A e \in Keys(log, cs) :
           Cardinality(HitLines(tr, log, e)) <= Cardinality(HitLines(tr, log, d))
  BY <1>1, <1>3, <1>4, SameDelta
<1>6. counts.gcell = Cardinality(HitLines(tr, log, d))
  BY <1>1, <1>5 DEF BothInv, RangesAgree
<1>7. Region = HitLines(tr, log, OnlyDelta(explicit))
  BY <1>1 DEF Region, WithGcell, HitLines
<1>8. ASSUME NEW e, \A i \in Entries(tr) : InArray(log, OnlyDelta(explicit), tr[i])
                                             => InArray(log, e, tr[i]),
             e \in Keys(log, cs)
      PROVE  Cardinality(Region) <= counts.gcell
  <2>1. Region \subseteq HitLines(tr, log, e)
    BY <1>7, <1>8 DEF HitLines
  <2>2. HitLines(tr, log, e) \in SUBSET (1 .. Len(tr)) /\ Len(tr) \in Nat
    BY <1>1 DEF HitLines, Entries
  <2>3. /\ IsFiniteSet(HitLines(tr, log, e)) /\ Cardinality(HitLines(tr, log, e)) \in Nat
        /\ IsFiniteSet(HitLines(tr, log, d)) /\ Cardinality(HitLines(tr, log, d)) \in Nat
    <3>1. HitLines(tr, log, d) \in SUBSET (1 .. Len(tr))
      BY DEF HitLines, Entries
    <3> QED
      BY <2>2, <3>1, LineNumbersFinite
  <2>4. Cardinality(Region) <= Cardinality(HitLines(tr, log, e))
    BY <2>1, <2>3, FS_Subset
  <2>5. Cardinality(HitLines(tr, log, e)) <= counts.gcell
    BY <1>5, <1>6, <1>8
  <2>6. Cardinality(Region) \in Nat /\ counts.gcell \in Nat
    BY <1>6, <2>3, RegionFacts
  <2> QED
    BY <2>3, <2>4, <2>5, <2>6
<1>9. CASE explicit # << >>
  <2>1. explicit \in Seq(Int) /\ Len(explicit) <= 1
    BY <1>1, InputsAssumption
  <2>2. cs = explicit /\ DOMAIN explicit = {1} /\ OnlyDelta(explicit) = explicit[1]
    <3>1. Len(explicit) = 1
      <4>1. PICK q : q = explicit
        OBVIOUS
      <4>2. q \in Seq(Int) /\ Len(q) <= 1 /\ q # << >>
        BY <1>9, <2>1, <4>1
      <4>3. Len(q) \in Nat /\ Len(q) # 0
        BY <4>2, EmptySeq, LenProperties
      <4>4. Len(q) = 1
        BY ONLY <4>2, <4>3
      <4> QED
        BY <4>1, <4>4
    <3>2. DOMAIN explicit = 1 .. 1
      BY <2>1, <3>1
    <3> QED
      BY <1>3, <1>9, <3>2 DEF Candidates, OnlyDelta
  <2>3. d = explicit[1]
    BY <1>5, <2>2 DEF Keys
  <2>4. Cardinality(Region) = counts.gcell
    BY <1>6, <1>7, <2>2, <2>3
  <2>5. Cardinality(Region) \in Nat
    BY RegionFacts
  <2> QED
    BY <1>2, <2>4, <2>5
<1>10. CASE explicit = << >>
  <2>1. OnlyDelta(explicit) = DefaultDelta
    BY <1>10 DEF OnlyDelta
  <2>2. cs = Append(Deltas, - VirtualStart(log))
    BY <1>3, <1>10 DEF Candidates
  <2>3. \E k \in DOMAIN cs : cs[k] = DefaultDelta
    <3>1. PICK k \in DOMAIN Deltas : Deltas[k] = DefaultDelta
      BY DefaultAssumption
    <3>2. k \in DOMAIN cs /\ cs[k] = Deltas[k]
      BY <1>5, <2>2, DeltasAssumption
    <3> QED
      BY <3>1, <3>2
  <2>4. \E k \in DOMAIN cs : cs[k] = - VirtualStart(log)
    <3>1. cs[Len(Deltas) + 1] = - VirtualStart(log) /\ Len(Deltas) + 1 \in DOMAIN cs
      BY <1>5, <2>2, DeltasAssumption
    <3> QED
      BY <3>1
  <2>5. CASE Tried(log, DefaultDelta)
    <3>1. DefaultDelta \in Keys(log, cs)
      BY <2>3, <2>5 DEF Keys
    <3>2. Cardinality(Region) <= counts.gcell
      BY <1>8, <2>1, <3>1
    <3> QED
      BY <1>2, <1>10, <3>2
  <2>6. CASE ~ Tried(log, DefaultDelta)
    <3>1. DefaultDelta \in Int
      BY <1>5, <2>3
    <3>2. VirtualStart(log) + DefaultDelta < 0
      BY <1>2, <1>5, <2>6, <3>1 DEF Tried
    <3>3. - VirtualStart(log) \in Keys(log, cs)
      <4>1. Tried(log, - VirtualStart(log))
        BY <1>2, <1>5 DEF Tried
      <4> QED
        BY <2>4, <4>1 DEF Keys
    <3>4. ASSUME NEW i \in Entries(tr), InArray(log, OnlyDelta(explicit), tr[i])
          PROVE  InArray(log, - VirtualStart(log), tr[i])
      <4>1. tr[i].addr \in Nat
        <5>1. PICK t : t = tr
          OBVIOUS
        <5>2. t \in Seq(Line) /\ i \in 1 .. Len(t)
          BY <1>1, <3>4, <5>1 DEF Entries
        <5>3. t[i] \in Line
          BY <5>2, ElementOfSeq
        <5> QED
          BY <5>1, <5>3 DEF Line
      <4>2. tr[i].addr < VirtualEnd(log) + DefaultDelta
        BY <2>1, <3>4 DEF InArray
      <4> QED
        BY <1>5, <3>1, <3>2, <4>1, <4>2 DEF InArray
    <3>5. Cardinality(Region) <= counts.gcell
      BY <1>8, <3>3, <3>4
    <3> QED
      BY <1>2, <1>10, <3>5
  <2> QED
    BY <2>5, <2>6
<1> QED
  BY <1>9, <1>10

\* The size of a set in two parts.
LEMMA TwoParts ==
  ASSUME NEW S, IsFiniteSet(S), NEW T, IsFiniteSet(T), S \cap T = {}
  PROVE  IsFiniteSet(S \cup T) /\ Cardinality(S \cup T) = Cardinality(S) + Cardinality(T)
<1>1. Cardinality(S) \in Nat /\ Cardinality(T) \in Nat
  BY FS_CardinalityType
<1>2. /\ IsFiniteSet(S \cup T)
      /\ Cardinality(S \cup T)
           = Cardinality(S) + Cardinality(T) - Cardinality(S \cap T)
  BY FS_Union
<1>3. Cardinality(S \cap T) = 0
  BY FS_EmptySet
<1> QED
  BY <1>1, <1>2, <1>3

\* Their lines are the reads, the writes and the others.
LEMMA RegionParts ==
  ASSUME BothInv, BothDone
  PROVE  /\ RegionReads \in SUBSET (1 .. Len(trace))
         /\ RegionWrites \in SUBSET (1 .. Len(trace))
         /\ RegionOthers \in SUBSET (1 .. Len(trace))
         /\ Cardinality(RegionReads) + Cardinality(RegionWrites) + Cardinality(RegionOthers)
              = Cardinality(Region)
<1>1. /\ RegionReads \in SUBSET (1 .. Len(trace))
      /\ RegionWrites \in SUBSET (1 .. Len(trace))
      /\ RegionOthers \in SUBSET (1 .. Len(trace))
  BY RegionFacts DEF RegionReads, RegionWrites, RegionOthers, RegionOf
<1>2. \A i \in Region : trace[i].op \in Ops
  <2>1. BatchType
    BY DEF BothInv, BatchInv
  <2> QED
    BY <2>1, RegionFacts, JobFacts
<1>3. /\ Region = (RegionReads \cup RegionWrites) \cup RegionOthers
      /\ RegionReads \cap RegionWrites = {}
      /\ (RegionReads \cup RegionWrites) \cap RegionOthers = {}
  BY <1>2 DEF RegionReads, RegionWrites, RegionOthers, RegionOf, Ops
<1>4. /\ IsFiniteSet(RegionReads) /\ Cardinality(RegionReads) \in Nat
      /\ IsFiniteSet(RegionWrites) /\ Cardinality(RegionWrites) \in Nat
      /\ IsFiniteSet(RegionOthers) /\ Cardinality(RegionOthers) \in Nat
  BY <1>1, RegionFacts, LineNumbersFinite
<1>5. /\ IsFiniteSet(RegionReads \cup RegionWrites)
      /\ Cardinality(RegionReads \cup RegionWrites)
           = Cardinality(RegionReads) + Cardinality(RegionWrites)
  BY <1>3, <1>4, TwoParts
<1>6. Cardinality(Region)
        = Cardinality(RegionReads \cup RegionWrites) + Cardinality(RegionOthers)
  BY <1>3, <1>4, <1>5, TwoParts
<1> QED
  BY <1>1, <1>4, <1>5, <1>6

\* The trace as recorded: the region in the order of the trace.
LEMMA OriginalFacts ==
  ASSUME BothInv, BothDone, NEW o, o = GcellOriginal(trace, given.log, given.explicit)
  PROVE  /\ Len(o) = Cardinality(Region) /\ DOMAIN o = 1 .. Len(o)
         /\ Cardinality(Region) = 0 => o = << >>
         /\ GcellOnlyRefused(trace, given.log, given.explicit) <=> Cardinality(Region) = 0
         /\ InCycleOrder(trace) =>
              \A k \in DOMAIN o :
                /\ o[k].cycle \in Nat
                /\ \A m \in DOMAIN o : k < m => o[k].cycle <= o[m].cycle
<1> DEFINE e == InTraceOrder(Region)
<1>1. /\ IsListOf(e, Region)
      /\ \A k, m \in 1 .. Len(e) : k < m => e[k] < e[m]
  BY RegionFacts, TraceOrderFacts
<1>2. GcellEntries(trace, given.log, given.explicit) = e
  BY DEF GcellEntries, Region
<1> HIDE DEF e
<1>3. /\ Len(e) = Cardinality(Region) /\ Len(e) \in Nat /\ DOMAIN e = 1 .. Len(e)
      /\ \A k \in 1 .. Len(e) : e[k] \in Region
  BY <1>1 DEF IsListOf
<1>4. o = [k \in 1 .. Len(e) |-> [idx |-> e[k], cycle |-> trace[e[k]].cycle - trace[e[1]].cycle]]
  BY <1>2, <1>3 DEF GcellOriginal
<1>5. Len(o) = Len(e) /\ DOMAIN o = 1 .. Len(e) /\ (Len(e) = 0 => o = << >>)
  BY <1>3, <1>4
<1>6. GcellOnlyRefused(trace, given.log, given.explicit) <=> Cardinality(Region) = 0
  <2>1. e = << >> <=> Len(e) = 0
    BY <1>1 DEF IsListOf
  <2>2. RangeFound(given.log)
    BY RegionCounted
  <2> QED
    BY <1>2, <1>3, <2>1, <2>2 DEF GcellOnlyRefused
<1>7. ASSUME InCycleOrder(trace), NEW k \in 1 .. Len(e)
      PROVE  /\ o[k].cycle \in Nat
             /\ \A m \in 1 .. Len(e) : k < m => o[k].cycle <= o[m].cycle
  <2>1. \A m \in 1 .. Len(e) : trace[e[m]].cycle \in Nat /\ e[m] \in 1 .. Len(trace)
    <3>1. BatchType
      BY DEF BothInv, BatchInv
    <3> QED
      BY <1>3, <3>1, RegionFacts, JobFacts
  <2>2. \A l, m \in 1 .. Len(e) : l < m => trace[e[l]].cycle <= trace[e[m]].cycle
    BY <1>1, <1>7, <2>1 DEF InCycleOrder
  <2>3. 1 \in 1 .. Len(e) /\ (k = 1 \/ 1 < k)
    BY <1>3
  <2>4. trace[e[1]].cycle <= trace[e[k]].cycle
    BY <2>1, <2>2, <2>3
  <2>5. \A m \in 1 .. Len(e) : o[m].cycle = trace[e[m]].cycle - trace[e[1]].cycle
    BY <1>4
  <2>6. o[k].cycle \in Nat
    BY <2>1, <2>3, <2>4, <2>5
  <2>7. ASSUME NEW m \in 1 .. Len(e), k < m PROVE o[k].cycle <= o[m].cycle
    <3>1. trace[e[k]].cycle <= trace[e[m]].cycle
      BY <2>2, <2>7
    <3> QED
      BY <2>1, <2>3, <2>5, <3>1
  <2> QED
    BY <2>6, <2>7
<1> QED
  BY <1>3, <1>5, <1>6, <1>7

\* The optimistic trace: three lists of the region, one after the other.
LEMMA OptimisticParts ==
  ASSUME BothInv, BothDone, NEW o, o = GcellOptimistic(trace, given.log, given.explicit),
         NEW r, r = InKeyOrder(trace, RegionReads),
         NEW w, w = InKeyOrder(trace, RegionWrites),
         NEW x, x = InTraceOrder(RegionOthers)
  PROVE  /\ IsListOf(r, RegionReads) /\ IsListOf(w, RegionWrites) /\ IsListOf(x, RegionOthers)
         /\ \A k, m \in 1 .. Len(r) : k < m => Before(trace, r[k], r[m])
         /\ \A k, m \in 1 .. Len(w) : k < m => Before(trace, w[k], w[m])
         /\ Len(o) = Len(r) + Len(w) + Len(x) /\ DOMAIN o = 1 .. Len(o)
         /\ Len(o) = 0 => o = << >>
         /\ \A k \in DOMAIN o :
              /\ k \in Nat /\ o[k].cycle = 0
              /\ \/ k \in 1 .. Len(r) /\ o[k].idx = r[k]
                 \/ k - Len(r) \in 1 .. Len(w) /\ o[k].idx = w[k - Len(r)]
                 \/ /\ k - Len(r) - Len(w) \in 1 .. Len(x)
                    /\ o[k].idx = x[k - Len(r) - Len(w)]
<1> DEFINE p == (r \o w) \o x
<1>1. \A i \in Region : trace[i].addr \in Nat
  <2>1. BatchType
    BY DEF BothInv, BatchInv
  <2> QED
    BY <2>1, RegionFacts, JobFacts
<1>2. /\ \A i \in RegionReads : trace[i].addr \in Nat
      /\ \A i \in RegionWrites : trace[i].addr \in Nat
  BY <1>1 DEF RegionReads, RegionWrites, RegionOf
<1>3. /\ IsListOf(r, RegionReads)
      /\ \A k, m \in 1 .. Len(r) : k < m => Before(trace, r[k], r[m])
  BY <1>2, RegionFacts, RegionParts, KeyOrderFacts
<1>4. /\ IsListOf(w, RegionWrites)
      /\ \A k, m \in 1 .. Len(w) : k < m => Before(trace, w[k], w[m])
  BY <1>2, RegionFacts, RegionParts, KeyOrderFacts
<1>5. IsListOf(x, RegionOthers)
  BY RegionFacts, RegionParts, TraceOrderFacts
<1>6. o = [k \in DOMAIN p |-> [idx |-> p[k], cycle |-> 0]]
  <2> DEFINE e == InTraceOrder(Region)
             Of(ops) == {i \in {e[k] : k \in DOMAIN e} : trace[i].op \in ops}
  <2>1. IsListOf(e, Region)
    BY RegionFacts, TraceOrderFacts
  <2> HIDE DEF e
  <2>2. {e[k] : k \in DOMAIN e} = Region
    <3>1. DOMAIN e = 1 .. Len(e)
      BY <2>1 DEF IsListOf
    <3>2. \A k \in DOMAIN e : e[k] \in Region
      BY <2>1 DEF IsListOf
    <3>3. \A i \in Region : \E k \in DOMAIN e : e[k] = i
      BY <2>1, <3>1 DEF IsListOf
    <3> QED
      BY <3>2, <3>3
  <2>3. /\ Of({"READ"}) = RegionReads /\ Of({"WRITE"}) = RegionWrites
        /\ Of(Ops \ {"READ", "WRITE"}) = RegionOthers
    BY <2>2 DEF RegionReads, RegionWrites, RegionOthers, RegionOf
  <2>4. GcellEntries(trace, given.log, given.explicit) = e
    BY DEF GcellEntries, Region, e
  <2> DEFINE q == (InKeyOrder(trace, Of({"READ"})) \o InKeyOrder(trace, Of({"WRITE"})))
                  \o InTraceOrder(Of(Ops \ {"READ", "WRITE"}))
  <2>5. o = [k \in DOMAIN q |-> [idx |-> q[k], cycle |-> 0]]
    BY <2>4 DEF GcellOptimistic
  <2>6. q = p
    BY <2>3
  <2> HIDE DEF p, q
  <2> QED
    BY <2>5, <2>6
<1>7. r \in Seq(Nat) /\ w \in Seq(Nat) /\ x \in Seq(Nat)
  <2>1. r \in Seq(RegionReads) /\ w \in Seq(RegionWrites) /\ x \in Seq(RegionOthers)
    BY <1>3, <1>4, <1>5 DEF IsListOf
  <2>2. RegionReads \subseteq Nat /\ RegionWrites \subseteq Nat /\ RegionOthers \subseteq Nat
    BY RegionFacts, RegionParts
  <2> QED
    BY <2>1, <2>2, WiderSeq
<1>8. /\ p \in Seq(Nat) /\ Len(p) = Len(r) + Len(w) + Len(x)
      /\ Len(r) \in Nat /\ Len(w) \in Nat /\ Len(x) \in Nat
      /\ \A m \in 1 .. Len(p) :
           \/ m \in 1 .. Len(r) /\ p[m] = r[m]
           \/ m - Len(r) \in 1 .. Len(w) /\ p[m] = w[m - Len(r)]
           \/ /\ m - Len(r) - Len(w) \in 1 .. Len(x)
              /\ p[m] = x[m - Len(r) - Len(w)]
  BY <1>7, ThreeLists
<1> HIDE DEF p
<1>9. DOMAIN p = 1 .. Len(p) /\ Len(p) \in Nat
  BY <1>8
<1>10. Len(o) = Len(p) /\ DOMAIN o = 1 .. Len(p) /\ (Len(p) = 0 => o = << >>)
  BY <1>6, <1>9
<1>11. \A k \in 1 .. Len(p) : k \in Nat /\ o[k].idx = p[k] /\ o[k].cycle = 0
  BY <1>6, <1>9
<1> QED
  BY <1>3, <1>4, <1>5, <1>8, <1>10, <1>11

\* It has every line of the region once, the reads before the writes and each in the
\* order of the key.
LEMMA OptimisticFacts ==
  ASSUME BothInv, BothDone, NEW o, o = GcellOptimistic(trace, given.log, given.explicit)
  PROVE  /\ Len(o) = Cardinality(Region) /\ DOMAIN o = 1 .. Len(o)
         /\ Cardinality(Region) = 0 => o = << >>
         /\ \A k \in DOMAIN o : o[k].cycle = 0 /\ o[k].idx \in Region
         /\ \A k, m \in DOMAIN o :
              /\ trace[o[k].idx].op = "READ" /\ trace[o[m].idx].op = "WRITE" => k < m
              /\ /\ trace[o[k].idx].op = trace[o[m].idx].op
                 /\ trace[o[k].idx].op \in {"READ", "WRITE"}
                 => /\ Before(trace, o[k].idx, o[m].idx) => k < m
                    /\ o[k].idx = o[m].idx => k = m
<1>1. PICK r : r = InKeyOrder(trace, RegionReads)
  OBVIOUS
<1>2. PICK w : w = InKeyOrder(trace, RegionWrites)
  OBVIOUS
<1>3. PICK x : x = InTraceOrder(RegionOthers)
  OBVIOUS
<1> DEFINE InReads(k) == k \in 1 .. Len(r) /\ o[k].idx = r[k]
           InWrites(k) == k - Len(r) \in 1 .. Len(w) /\ o[k].idx = w[k - Len(r)]
           InOthers(k) == /\ k - Len(r) - Len(w) \in 1 .. Len(x)
                          /\ o[k].idx = x[k - Len(r) - Len(w)]
<1>4. /\ IsListOf(r, RegionReads) /\ IsListOf(w, RegionWrites) /\ IsListOf(x, RegionOthers)
      /\ \A k, m \in 1 .. Len(r) : k < m => Before(trace, r[k], r[m])
      /\ \A k, m \in 1 .. Len(w) : k < m => Before(trace, w[k], w[m])
      /\ Len(o) = Len(r) + Len(w) + Len(x) /\ DOMAIN o = 1 .. Len(o)
      /\ Len(o) = 0 => o = << >>
      /\ \A k \in DOMAIN o : /\ k \in Nat /\ o[k].cycle = 0
                             /\ InReads(k) \/ InWrites(k) \/ InOthers(k)
  BY <1>1, <1>2, <1>3, OptimisticParts
<1>5. Len(r) \in Nat /\ Len(w) \in Nat /\ Len(x) \in Nat
  BY <1>4 DEF IsListOf
<1>6. Len(o) = Cardinality(Region)
  BY <1>4, RegionParts DEF IsListOf
<1>7. /\ \A k \in 1 .. Len(r) : r[k] \in RegionReads
      /\ \A k \in 1 .. Len(w) : w[k] \in RegionWrites
      /\ \A k \in 1 .. Len(x) : x[k] \in RegionOthers
  BY <1>4 DEF IsListOf
<1>8. /\ \A k : InReads(k) => o[k].idx \in Region /\ trace[o[k].idx].op = "READ"
      /\ \A k : InWrites(k) => o[k].idx \in Region /\ trace[o[k].idx].op = "WRITE"
      /\ \A k : InOthers(k) => /\ o[k].idx \in Region
                               /\ trace[o[k].idx].op \notin {"READ", "WRITE"}
  BY <1>7 DEF RegionReads, RegionWrites, RegionOthers, RegionOf
<1> HIDE DEF InReads, InWrites, InOthers
<1>9. \A k \in DOMAIN o : /\ o[k].cycle = 0 /\ o[k].idx \in Region
                          /\ trace[o[k].idx].op = "READ" => InReads(k)
                          /\ trace[o[k].idx].op = "WRITE" => InWrites(k)
  BY <1>4, <1>8
<1>10. \A i, j \in Region : ~ (Before(trace, i, j) /\ (i = j \/ Before(trace, j, i)))
  <2>1. BatchType
    BY DEF BothInv, BatchInv
  <2>2. \A i \in Region : i \in Nat /\ trace[i].addr \in Nat
    BY <2>1, RegionFacts, JobFacts
  <2> QED
    BY <2>2 DEF Before
<1>11. ASSUME NEW k \in DOMAIN o, NEW m \in DOMAIN o,
              trace[o[k].idx].op = "READ", trace[o[m].idx].op = "WRITE"
       PROVE  k < m
  <2>1. InReads(k) /\ InWrites(m) /\ k \in Nat /\ m \in Nat
    BY <1>4, <1>9, <1>11
  <2> QED
    BY <1>5, <2>1 DEF InReads, InWrites
<1>12. ASSUME NEW k \in DOMAIN o, NEW m \in DOMAIN o,
              trace[o[k].idx].op = trace[o[m].idx].op,
              trace[o[k].idx].op \in {"READ", "WRITE"}
       PROVE  /\ Before(trace, o[k].idx, o[m].idx) => k < m
              /\ o[k].idx = o[m].idx => k = m
  <2>1. k \in Nat /\ m \in Nat /\ o[k].idx \in Region /\ o[m].idx \in Region
    BY <1>4, <1>9
  <2>2. CASE trace[o[k].idx].op = "READ"
    <3>1. /\ k \in 1 .. Len(r) /\ o[k].idx = r[k]
          /\ m \in 1 .. Len(r) /\ o[m].idx = r[m]
      BY <1>9, <1>12, <2>2 DEF InReads
    <3>2. r[k] = r[m] => k = m
      BY <1>4, <3>1 DEF IsListOf
    <3>3. m < k => Before(trace, r[m], r[k])
      BY <1>4, <3>1
    <3>4. ASSUME Before(trace, o[k].idx, o[m].idx) PROVE k < m
      <4>1. k # m /\ ~ (m < k)
        BY <1>10, <2>1, <3>1, <3>3, <3>4
      <4> QED
        BY <2>1, <4>1
    <3> QED
      BY <3>1, <3>2, <3>4
  <2>3. CASE trace[o[k].idx].op = "WRITE"
    <3> DEFINE a == k - Len(r)
               b == m - Len(r)
    <3>1. /\ a \in 1 .. Len(w) /\ o[k].idx = w[a]
          /\ b \in 1 .. Len(w) /\ o[m].idx = w[b]
      BY <1>9, <1>12, <2>3 DEF InWrites
    <3>2. w[a] = w[b] => a = b
      BY <1>4, <3>1 DEF IsListOf
    <3>3. b < a => Before(trace, w[b], w[a])
      BY <1>4, <3>1
    <3>4. /\ k < m <=> a < b
          /\ k = m <=> a = b
          /\ a \in Int /\ b \in Int
      BY <1>5, <2>1
    <3>5. ASSUME Before(trace, o[k].idx, o[m].idx) PROVE k < m
      <4>1. a # b /\ ~ (b < a)
        BY <1>10, <2>1, <3>1, <3>3, <3>5
      <4> QED
        BY <3>4, <4>1
    <3> QED
      BY <3>1, <3>2, <3>4, <3>5
  <2> QED
    BY <1>12, <2>2, <2>3
<1> QED
  BY <1>4, <1>6, <1>9, <1>11, <1>12

\* The order of two requests of one burst in the streaming rewriter's output and in
\* the optimistic trace.
LEMMA BurstOrdersAgree ==
  ASSUME BothInv, BothDone, InCycleOrder(trace),
         NEW o, o = GcellOptimistic(trace, given.log, given.explicit),
         NEW k \in DOMAIN out, NEW l \in DOMAIN out, NEW m \in DOMAIN o, NEW n \in DOMAIN o,
         out[k].idx = o[m].idx, out[l].idx = o[n].idx, SP!Precedes(out[k].idx, out[l].idx)
  PROVE  k < l /\ m < n
<1> DEFINE i == out[k].idx
           j == out[l].idx
<1>1. streamJob = job /\ SP!BurstsInOrder(out)
  <2>1. streamJob = job
    BY DEF BothInv, RangesAgree
  <2>2. SP!trace = trace /\ (SP!InCycleOrder(trace) <=> InCycleOrder(trace))
    BY <2>1, SameBurst
  <2> QED
    BY <2>1, <2>2 DEF BothInv, BothDone, SP!BurstInv, SP!Running, SP!Bursts
<1>2. k < l
  BY <1>1 DEF SP!BurstsInOrder
<1>3. /\ \E w \in 1 .. NWindows : GoesTo(trace[i], w)
      /\ \/ trace[i].op = "READ" /\ trace[j].op = "WRITE"
         \/ trace[i].op = trace[j].op /\ Before(trace, i, j)
  BY <1>1, SameBurst DEF SP!Precedes
<1>4. trace[i].op \in {"READ", "WRITE"}
  BY <1>3 DEF GoesTo
<1>5. m < n
  BY <1>3, <1>4, OptimisticFacts
<1> QED
  BY <1>2, <1>5

\* The g_cells-only tool, with a range of its own: given the offset, its traces have as
\* many lines as the rewriters count requests of the array, and there are none exactly if
\* these count none; with its default, where they guess, it never has more.  For a trace
\* in cycle order, the one as recorded has no negative cycle, and the optimistic one has
\* the requests of every burst in the order in which the streaming rewriter writes them.
THEOREM SameRegion == BothSpec => []GcellOnlyAgrees
<1>1. ASSUME BothInv PROVE GcellOnlyAgrees
  <2> DEFINE original == Original
             optimistic == Optimistic
  <2> HIDE DEF original, optimistic
  <2> SUFFICES ASSUME BothDone, InCycleOrder(trace)
               PROVE  /\ given.explicit # << >> =>
                           /\ GcellOnlyRefused(trace, given.log, given.explicit)
                                <=> counts.gcell = 0
                           /\ Len(original) = counts.gcell /\ Len(optimistic) = counts.gcell
                      /\ Len(original) <= counts.gcell
                      /\ \A k \in DOMAIN original : original[k].cycle >= 0
                      /\ \A k, l \in DOMAIN out, m, n \in DOMAIN optimistic :
                           /\ out[k].idx = optimistic[m].idx
                           /\ out[l].idx = optimistic[n].idx
                           /\ \E w \in 1 .. NWindows :
                                {out[k].idx, out[l].idx} \subseteq bucket[w]
                           => (k < l <=> m < n)
    BY DEF GcellOnlyAgrees, original, optimistic
  <2>1. /\ Cardinality(Region) <= counts.gcell
        /\ given.explicit # << >> => Cardinality(Region) = counts.gcell
    BY <1>1, RegionCounted
  <2>2. /\ Len(original) = Cardinality(Region)
        /\ GcellOnlyRefused(trace, given.log, given.explicit) <=> Cardinality(Region) = 0
        /\ \A k \in DOMAIN original : original[k].cycle \in Nat
    BY <1>1, OriginalFacts DEF original, Original
  <2>3. /\ Len(optimistic) = Cardinality(Region)
        /\ DOMAIN optimistic = 1 .. Len(optimistic)
        /\ \A m, n \in DOMAIN optimistic :
             /\ trace[optimistic[m].idx].op = trace[optimistic[n].idx].op
             /\ trace[optimistic[m].idx].op \in {"READ", "WRITE"}
             => (optimistic[m].idx = optimistic[n].idx => m = n)
    BY <1>1, OptimisticFacts DEF optimistic, Optimistic
  <2>4. ASSUME NEW k \in DOMAIN out, NEW l \in DOMAIN out,
               NEW m \in DOMAIN optimistic, NEW n \in DOMAIN optimistic,
               out[k].idx = optimistic[m].idx, out[l].idx = optimistic[n].idx,
               NEW w \in 1 .. NWindows, {out[k].idx, out[l].idx} \subseteq bucket[w]
        PROVE  k < l <=> m < n
    <3> DEFINE i == out[k].idx
               j == out[l].idx
    <3>1. /\ BatchType /\ BucketInv /\ out \in Seq(SP!OutLine) /\ streamJob = job
      BY <1>1 DEF BothInv, BatchInv, SP!Inv, SP!TypeOK, RangesAgree
    <3>2. Len(optimistic) \in Nat
      BY <1>1, <2>3, RegionFacts
    <3>3. k \in Nat /\ l \in Nat /\ m \in Nat /\ n \in Nat
      BY <2>3, <3>1, <3>2
    <3>4. /\ GoesTo(trace[i], w) /\ GoesTo(trace[j], w)
          /\ i \in Nat /\ trace[i].addr \in Nat /\ j \in Nat /\ trace[j].addr \in Nat
      BY <2>4, <3>1, BucketFacts, JobFacts
    <3>5. SP!InBurst(i, w) /\ SP!InBurst(j, w)
      BY <3>1, <3>4, SameBurst
    <3>6. trace[i].op \in {"READ", "WRITE"} /\ trace[j].op \in {"READ", "WRITE"}
      BY <3>4 DEF GoesTo
    <3>7. CASE SP!Precedes(i, j)
      <4>1. k < l /\ m < n
        BY <1>1, <2>4, <3>7, BurstOrdersAgree DEF optimistic, Optimistic
      <4> QED
        BY <4>1
    <3>8. CASE SP!Precedes(j, i)
      <4>1. l < k /\ n < m
        BY <1>1, <2>4, <3>8, BurstOrdersAgree DEF optimistic, Optimistic
      <4> QED
        BY <3>3, <4>1
    <3>9. CASE i = j
      <4>1. k = l
        BY <1>1, <3>1, <3>9, DoneFacts
      <4>2. m = n
        BY <2>3, <2>4, <3>6, <3>9
      <4> QED
        BY <3>3, <4>1, <4>2
    <3>10. SP!Precedes(i, j) \/ SP!Precedes(j, i) \/ i = j
      <4>1. w \in 1 .. SP!NWindows /\ SP!trace = trace
        BY <3>1, SameBurst
      <4>2. Before(trace, i, j) \/ Before(trace, j, i) \/ i = j
        BY <3>4 DEF Before
      <4> QED
        BY <3>1, <3>5, <3>6, <4>1, <4>2, SameBurst DEF SP!Precedes
    <3> QED
      BY <3>7, <3>8, <3>9, <3>10
  <2> QED
    BY <2>1, <2>2, <2>3, <2>4
<1> QED
  BY <1>1, BothInvariance, PTL
-----------------------------------------------------------------------------
(***************************************************************************)
(* The last cycle of a trace.                                              *)
(***************************************************************************)

\* In a list in cycle order the last line has the greatest cycle.
LEMMA LastIsGreatest ==
  ASSUME NEW lines, NEW n \in Nat, n # 0, DOMAIN lines = 1 .. n, Len(lines) = n,
         \A k \in 1 .. n : lines[k].cycle \in Nat,
         \A k, m \in 1 .. n : k < m => lines[k].cycle <= lines[m].cycle
  PROVE  FinalCycleOfLast(lines) = FinalCycleOfAll(lines)
<1> DEFINE c == lines[n].cycle
           C == {lines[k].cycle : k \in DOMAIN lines}
           last == CHOOSE d \in C : \A k \in DOMAIN lines : lines[k].cycle <= d
<1>1. n \in 1 .. n /\ c \in Nat /\ c \in C
  OBVIOUS
<1>2. \A k \in DOMAIN lines : lines[k].cycle <= c
  <2>1. \A k \in 1 .. n : k < n \/ k = n
    OBVIOUS
  <2> QED
    BY <1>1, <2>1
<1>3. last \in C /\ \A k \in DOMAIN lines : lines[k].cycle <= last
  BY <1>1, <1>2
<1>4. last = c
  <2>1. \A d \in C : d \in Nat
    OBVIOUS
  <2>2. last <= c /\ c <= last
    BY <1>1, <1>2, <1>3
  <2> QED
    BY <1>1, <1>3, <2>1, <2>2
<1>5. FinalCycleOfAll(lines) = IF c = 0 THEN n * 4 ELSE c
  BY <1>4 DEF FinalCycleOfAll
<1>6. FinalCycleOfLast(lines) = IF c > 0 THEN c ELSE n * 4
  <2>1. n * 4 > 1
    OBVIOUS
  <2> QED
    BY <2>1 DEF FinalCycleOfLast
<1> QED
  BY <1>1, <1>5, <1>6

\* The outputs and the g_cells-only traces of a trace in cycle order, whatever was
\* rewritten in them, are as long as their last line says: the two drivers give DRAMsim3
\* the same number of cycles.
THEOREM SameFinalCycle == BothSpec => []FinalCyclesAgree
<1>1. ASSUME BothInv PROVE FinalCyclesAgree
  <2> DEFINE original == Original
             optimistic == Optimistic
  <2> HIDE DEF original, optimistic
  <2> SUFFICES ASSUME BothDone, InCycleOrder(trace),
                      NEW lines \in {out, output, original, optimistic}, lines # << >>
               PROVE  FinalCycleOfLast(lines) = FinalCycleOfAll(lines)
    BY DEF FinalCyclesAgree, original, optimistic
  <2>1. CASE lines = out
    <3>1. out \in Seq(SP!OutLine) /\ streamJob = job
      BY <1>1 DEF BothInv, SP!Inv, SP!TypeOK, RangesAgree
    <3>2. InCycleOrder(out)
      <4>1. SP!InCycleOrder(out)
        BY <1>1, <3>1, SameBurst DEF BothInv, BothDone, SP!OrderInv, SP!Running, SP!Ordered
      <4> QED
        BY <3>1, <4>1, SameBurst
    <3>3. Len(out) \in Nat /\ Len(out) # 0 /\ DOMAIN out = 1 .. Len(out)
      BY <2>1, <3>1
    <3>4. \A k \in 1 .. Len(out) : out[k].cycle \in Nat
      <4>1. \A k \in 1 .. Len(out) : out[k] \in SP!OutLine
        BY <3>1
      <4> QED
        BY <4>1 DEF SP!OutLine
    <3>5. \A k, m \in 1 .. Len(out) : k < m => out[k].cycle <= out[m].cycle
      BY <3>2 DEF InCycleOrder
    <3> QED
      BY <2>1, <3>3, <3>4, <3>5, LastIsGreatest
  <2>2. CASE lines = output
    <3>1. BatchType /\ BucketInv /\ CycleInv /\ SortedInv /\ step = "done" /\ streamJob = job
      BY <1>1 DEF BothInv, BatchInv, BothDone, RangesAgree
    <3>2. Len(output) \in Nat /\ Len(output) # 0 /\ DOMAIN output = 1 .. Len(output)
      BY <2>2, <3>1 DEF BatchType
    <3>3. ASSUME NEW k \in 1 .. Len(output) PROVE output[k].cycle \in Nat
      <4>1. /\ output[k] \in EntriesOf(output) /\ output[k].cycle \in Int
            /\ output[k].idx \in 1 .. Len(trace)
            /\ ~ Free(output[k].idx) =>
                 \E w \in 1 .. NWindows : output[k].idx \in bucket[w]
        BY <1>1, <3>1, <3>2, DoneFacts
      <4>2. CASE Free(output[k].idx)
        <5>1. output[k].cycle = trace[output[k].idx].cycle
          BY <3>1, <4>1, <4>2 DEF CycleInv
        <5> QED
          BY <3>1, <4>1, <5>1, JobFacts
      <4>3. CASE ~ Free(output[k].idx)
        <5>1. PICK w \in 1 .. NWindows : output[k].idx \in bucket[w]
          BY <4>1, <4>3
        <5>2. windows[w].begin <= output[k].cycle
          BY <3>1, <4>1, <5>1 DEF CycleInv
        <5>3. windows[w].begin \in Nat
          BY <3>1, JobFacts
        <5> QED
          BY <4>1, <5>2, <5>3
      <4> QED
        BY <4>2, <4>3
    <3>4. ASSUME NEW k \in 1 .. Len(output), NEW m \in 1 .. Len(output), k < m
          PROVE  output[k].cycle <= output[m].cycle
      <4>1. ~ SortsBefore(output[m], output[k])
        BY <3>1, <3>2, <3>4 DEF SortedInv
      <4>2. ~ (output[m].cycle < output[k].cycle)
        BY <4>1 DEF SortsBefore
      <4> QED
        BY <3>3, <4>2
    <3> QED
      BY <2>2, <3>2, <3>3, <3>4, LastIsGreatest
  <2>3. Cardinality(Region) \in Nat
    BY <1>1, RegionFacts
  <2>4. CASE lines = original
    <3>1. /\ Len(original) = Cardinality(Region) /\ DOMAIN original = 1 .. Len(original)
          /\ Cardinality(Region) = 0 => original = << >>
          /\ \A k \in DOMAIN original :
               /\ original[k].cycle \in Nat
               /\ \A m \in DOMAIN original : k < m => original[k].cycle <= original[m].cycle
      BY <1>1, OriginalFacts DEF original, Original
    <3> QED
      BY <2>3, <2>4, <3>1, LastIsGreatest
  <2>5. CASE lines = optimistic
    <3>1. /\ Len(optimistic) = Cardinality(Region) /\ DOMAIN optimistic = 1 .. Len(optimistic)
          /\ Cardinality(Region) = 0 => optimistic = << >>
          /\ \A k \in DOMAIN optimistic : optimistic[k].cycle = 0
      BY <1>1, OptimisticFacts DEF optimistic, Optimistic
    <3>2. \A k, m \in DOMAIN optimistic : optimistic[k].cycle <= optimistic[m].cycle
      BY <3>1
    <3> QED
      BY <2>3, <2>5, <3>1, <3>2, LastIsGreatest
  <2> QED
    BY <2>1, <2>2, <2>4, <2>5
<1> QED
  BY <1>1, BothInvariance, PTL
=============================================================================

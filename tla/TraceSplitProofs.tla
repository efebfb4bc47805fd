-------------------------- MODULE TraceSplitProofs --------------------------
(***************************************************************************)
(* Proofs about TraceSplit: for every log, every list of packets in tick   *)
(* order and every number of ticks per cycle.                              *)
(***************************************************************************)
EXTENDS TraceSplit, SequenceTheorems, FunctionTheorems, FiniteSetTheorems,
        WellFoundedInduction, TLAPS

\* The tools that fit: the splitter takes the last of three columns for the cycle.
ThreeColumns == job.converter = "parse_gem5_trace"

SplitType ==
  /\ job \in SplitJobs
  /\ at \in {"log", "convert", "split", "zero", "done", "failed"}

\* The iterations are those of a log that was accepted, each once, by their begin.
LogInv == at \notin {"log", "failed"} => LogAccepted /\ iters \in SortedIters

\* Until the splitter runs there is no piece.
StartInv ==
  at \in {"log", "convert", "failed"} =>
    /\ pos = 1 /\ idx = 1 /\ zeroed = {} /\ files = [t \in IterIds |-> << >>]

\* The converter keeps all packets.
TraceInv ==
  at \in {"split", "zero", "done"} => trace = [k \in 1 .. Len(packets) |-> Converted(k)]

\* The iterations the splitter has left are over before every line still to come, and
\* it stops only when there is none, or when it has left all iterations.
CursorInv ==
  at \in {"split", "zero", "done"} =>
    /\ pos \in 1 .. Len(packets) + 1 /\ idx \in 1 .. Len(iters) + 1
    /\ \A j \in 1 .. idx - 1, k \in pos .. Len(packets) : iters[j].end < trace[k].cycle
    /\ at = "split" \/ idx = Len(iters) + 1 \/ pos = Len(packets) + 1

\* The first iteration that holds line k is the i-th.
FirstHolds(i, k) == Holds(i, trace[k]) /\ \A j \in 1 .. i - 1 : ~ Holds(j, trace[k])

\* What has been taken off the cycles of a piece.
TakenOff(t) == IF t \in zeroed /\ files[t] # << >> THEN trace[files[t][1].packet].cycle ELSE 0

\* A piece has lines read so far, in their order, each once and with its cycle; and an
\* iteration's piece has those it is the first to hold.
Packeted(f) == {f[a].packet : a \in DOMAIN f}
Ascends(f) == \A a, b \in 1 .. Len(f) : a < b => f[a].packet < f[b].packet
FileInv ==
  at \in {"split", "zero", "done"} =>
    /\ files \in [IterIds -> Seq(SplitTraceLine)]
    /\ \A t \in IterIds :
         /\ Ascends(files[t])
         /\ \A a \in 1 .. Len(files[t]) :
              /\ files[t][a].packet \in 1 .. pos - 1
              /\ files[t][a].cols = 3 /\ files[t][a].last = files[t][a].cycle
              /\ files[t][a].cycle = trace[files[t][a].packet].cycle - TakenOff(t)
    /\ \A i \in 1 .. Len(iters), k \in 1 .. pos - 1 :
         k \in Packeted(files[iters[i].t]) <=> FirstHolds(i, k)
    /\ at = "split" => zeroed = {}

PiecesInv == ThreeColumns => StartInv /\ TraceInv /\ CursorInv /\ FileInv

SplitInv == SplitType /\ LogInv /\ PiecesInv
-----------------------------------------------------------------------------
(***************************************************************************)
(* Division, and the log.                                                  *)
(***************************************************************************)

\* What a division leaves.
LEMMA DivisionFacts ==
  ASSUME NEW a \in Nat, NEW d \in Nat \ {0}
  PROVE  /\ a \div d \in Nat /\ a % d \in Nat
         /\ a % d < d /\ a = d * (a \div d) + (a % d)
OBVIOUS

\* Of two multiples of d.
LEMMA Multiples ==
  ASSUME NEW p \in Nat, NEW q \in Nat, NEW d \in Nat \ {0}, NEW s \in Nat, s < d
  PROVE  /\ d * p <= d * q + s => p <= q
         /\ p <= q => d * p <= d * q
<1>1. ASSUME p > q PROVE d * p > d * q + s
  <2>1. PICK k \in Nat : p = q + 1 + k
    BY <1>1
  <2>2. d * p = d * q + d + d * k
    BY <2>1
  <2>3. d * q \in Nat /\ d * k \in Nat
    OBVIOUS
  <2> HIDE <2>1
  <2> QED
    BY <2>2, <2>3
<1>2. ASSUME p <= q PROVE d * p <= d * q
  <2>1. PICK k \in Nat : q = p + k
    BY <1>2
  <2>2. d * q = d * p + d * k
    BY <2>1
  <2>3. d * p \in Nat /\ d * k \in Nat
    OBVIOUS
  <2> HIDE <2>1
  <2> QED
    BY <2>2, <2>3
<1>3. d * p \in Nat /\ d * q \in Nat
  OBVIOUS
<1> QED
  BY <1>1, <1>2, <1>3

\* A later tick is in no earlier cycle.
LEMMA DivisionMonotone ==
  ASSUME NEW a \in Nat, NEW b \in Nat, NEW d \in Nat \ {0}, a <= b
  PROVE  a \div d \in Nat /\ b \div d \in Nat /\ a \div d <= b \div d
<1>1. PICK p \in Nat, r \in Nat : p = a \div d /\ r < d /\ a = d * p + r
  BY DivisionFacts
<1>2. PICK q \in Nat, s \in Nat : q = b \div d /\ s < d /\ b = d * q + s
  BY DivisionFacts
<1>3. d * p \in Nat /\ d * q \in Nat
  OBVIOUS
<1>4. d * p <= d * q + s
  BY <1>1, <1>2, <1>3
<1> QED
  BY <1>1, <1>2, <1>4, Multiples

\* The parts of a job.
LEMMA JobFacts ==
  ASSUME job \in SplitJobs
  PROVE  /\ log \in Seq(LogLine)
         /\ packets \in Seq(Packet)
         /\ Len(packets) \in Nat /\ DOMAIN packets = 1 .. Len(packets)
         /\ \A k \in 1 .. Len(packets) : packets[k].tick \in Nat
         /\ \A k, m \in 1 .. Len(packets) : k <= m => packets[k].tick <= packets[m].tick
         /\ div \in Nat \ {0} /\ IterIds \subseteq Nat /\ IsFiniteSet(IterIds)
<1>1. /\ packets \in Seq(Packet)
      /\ log \in Seq(LogLine)
      /\ \A k, m \in DOMAIN packets : k <= m => packets[k].tick <= packets[m].tick
      /\ div \in Nat \ {0} /\ IterIds \subseteq Nat /\ IsFiniteSet(IterIds)
  BY SplitAssumption DEF packets, log, div
<1>2. \A k \in 1 .. Len(packets) : packets[k].tick \in Nat
  <2>1. \A k \in 1 .. Len(packets) : packets[k] \in Packet
    BY <1>1
  <2> QED
    BY <2>1 DEF Packet
<1>3. Len(packets) \in Nat /\ DOMAIN packets = 1 .. Len(packets)
  BY <1>1
<1> QED
  BY <1>1, <1>2, <1>3

\* A marker that is there once is the first and the last of its kind.
LEMMA OneMark ==
  ASSUME job \in SplitJobs, NEW kind, NEW t, Cardinality(Marks(kind, t)) = 1
  PROVE  /\ FirstTick(kind, t) \in Nat /\ LastTick(kind, t) = FirstTick(kind, t)
<1>1. /\ log \in Seq(LogLine)
      /\ DOMAIN log = 1 .. Len(log) /\ Len(log) \in Nat
      /\ \A k \in 1 .. Len(log) : log[k].tick \in Nat
  <2>1. log \in Seq(LogLine)
    BY JobFacts
  <2>2. \A k \in 1 .. Len(log) : log[k] \in LogLine
    BY <2>1
  <2>3. Len(log) \in Nat /\ DOMAIN log = 1 .. Len(log)
    BY <2>1
  <2> QED
    BY <2>1, <2>2, <2>3 DEF LogLine
<1> DEFINE M == Marks(kind, t)
<1>2. M \subseteq 1 .. Len(log)
  BY <1>1 DEF Marks
<1>3. IsFiniteSet(M)
  <2>1. IsFiniteSet(1 .. Len(log))
    BY <1>1, FS_Interval
  <2> QED
    BY <1>2, <2>1, FS_Subset
<1> HIDE DEF M
<1>4. PICK x : M = {x}
  <2>1. Cardinality(M) = 1
    BY DEF M
  <2> QED
    BY <1>3, <2>1, FS_Singleton
<1>5. x \in 1 .. Len(log) /\ x \in Nat
  BY <1>1, <1>2, <1>4
<1>6. (CHOOSE k \in M : \A m \in M : k <= m) = x /\ (CHOOSE k \in M : \A m \in M : m <= k) = x
  BY <1>4, <1>5
<1>7. FirstTick(kind, t) = log[x].tick /\ LastTick(kind, t) = log[x].tick
  BY <1>6 DEF FirstTick, LastTick, M
<1> QED
  BY <1>1, <1>5, <1>7

\* The iterations of a log that is accepted.
LEMMA LogFacts ==
  ASSUME job \in SplitJobs, LogAccepted, NEW t \in Seen("begin")
  PROVE  /\ t \in IterIds /\ t \in Nat /\ t \in Seen("end")
         /\ FirstTick("begin", t) \in Nat /\ FirstTick("end", t) \in Nat
         /\ FirstTick("begin", t) <= FirstTick("end", t)
         /\ LastTick("begin", t) = FirstTick("begin", t)
         /\ LastTick("end", t) = FirstTick("end", t)
         /\ IterationOf(t).t = t /\ IterationOf(t).begin = FirstTick("begin", t) \div div
         /\ IterationOf(t).end = FirstTick("end", t) \div div
         /\ IterationOf(t).begin \in Nat /\ IterationOf(t).end \in Nat
         /\ IterationOf(t).begin <= IterationOf(t).end
<1>1. t \in IterIds /\ t \in Nat /\ t \in Seen("end") /\ div \in Nat \ {0}
  BY JobFacts DEF Seen, LogAccepted
<1>2. /\ FirstTick("begin", t) \in Nat /\ FirstTick("end", t) \in Nat
      /\ LastTick("begin", t) = FirstTick("begin", t)
      /\ LastTick("end", t) = FirstTick("end", t)
      /\ FirstTick("begin", t) <= FirstTick("end", t)
  BY OneMark DEF LogAccepted
<1> DEFINE b == FirstTick("begin", t)  e == FirstTick("end", t)
<1> HIDE DEF b, e
<1>3. b \div div \in Nat /\ e \div div \in Nat /\ b \div div <= e \div div
  BY <1>1, <1>2, DivisionMonotone DEF b, e
<1>4. /\ IterationOf(t).t = t /\ IterationOf(t).begin = b \div div
      /\ IterationOf(t).end = e \div div
  BY DEF IterationOf, b, e
<1> QED
  BY <1>1, <1>2, <1>3, <1>4 DEF b, e

\* The list of the iterations: each is there once, in the order of their begins.
LEMMA ItersFacts ==
  ASSUME job \in SplitJobs, LogAccepted, iters \in SortedIters
  PROVE  /\ Len(iters) \in Nat /\ DOMAIN iters = 1 .. Len(iters)
         /\ \A i \in 1 .. Len(iters) :
              /\ iters[i].t \in Seen("begin") /\ iters[i] = IterationOf(iters[i].t)
              /\ iters[i].t \in IterIds
              /\ iters[i].begin \in Nat /\ iters[i].end \in Nat /\ iters[i].begin <= iters[i].end
         /\ \A t \in Seen("begin") : \E i \in 1 .. Len(iters) : iters[i] = IterationOf(t)
         /\ \A i, j \in 1 .. Len(iters) : i < j => /\ InBeginOrder(iters[i], iters[j])
                                                   /\ iters[i].begin <= iters[j].begin
                                                   /\ iters[i].t # iters[j].t
<1> DEFINE T == Seen("begin")
           S == {IterationOf(t) : t \in T}
<1>1. IsFiniteSet(S) /\ Cardinality(S) \in Nat
  <2>1. T \subseteq IterIds /\ IsFiniteSet(IterIds)
    BY JobFacts DEF Seen
  <2>2. IsFiniteSet(T)
    BY <2>1, FS_Subset
  <2> DEFINE f == [t \in T |-> IterationOf(t)]
  <2>3. f \in Surjection(T, S)
    BY DEF Surjection
  <2> HIDE DEF f, T, S
  <2>4. IsFiniteSet(S)
    BY <2>2, <2>3, FS_Surjection
  <2> QED
    BY <2>4, FS_CardinalityType
<1>2. /\ iters \in [1 .. Cardinality(S) -> S]
      /\ \A s \in S : \E k \in DOMAIN iters : iters[k] = s
      /\ \A k, m \in DOMAIN iters : k < m => InBeginOrder(iters[k], iters[m])
  BY DEF SortedIters, Arrangements
<1>3. DOMAIN iters = 1 .. Cardinality(S) /\ Len(iters) = Cardinality(S)
  BY <1>1, <1>2
<1>4. Len(iters) \in Nat /\ DOMAIN iters = 1 .. Len(iters)
  BY <1>1, <1>3
<1>5. ASSUME NEW i \in 1 .. Len(iters)
      PROVE  /\ iters[i].t \in T /\ iters[i] = IterationOf(iters[i].t) /\ iters[i].t \in Nat
             /\ iters[i].t \in IterIds /\ iters[i].begin \in Nat /\ iters[i].end \in Nat
             /\ iters[i].begin <= iters[i].end
  <2>1. iters[i] \in S
    BY <1>2, <1>4
  <2>2. PICK t \in T : iters[i] = IterationOf(t)
    BY <2>1
  <2> QED
    BY <2>2, LogFacts
<1>6. ASSUME NEW i \in 1 .. Len(iters), NEW j \in 1 .. Len(iters), i < j
      PROVE  /\ InBeginOrder(iters[i], iters[j]) /\ iters[i].begin <= iters[j].begin
             /\ iters[i].t # iters[j].t
  <2>1. InBeginOrder(iters[i], iters[j])
    BY <1>2, <1>4, <1>6
  <2>2. ASSUME iters[i].t = iters[j].t PROVE iters[i] = iters[j]
    BY <1>5, <2>2
  <2>3. ASSUME iters[i].t = iters[j].t PROVE FALSE
    BY <1>5, <2>1, <2>2, <2>3 DEF InBeginOrder
  <2> QED
    BY <1>5, <2>1, <2>3 DEF InBeginOrder
<1>7. \A t \in T : \E i \in 1 .. Len(iters) : iters[i] = IterationOf(t)
  BY <1>2, <1>4
<1> QED
  BY <1>4, <1>5, <1>6, <1>7
-----------------------------------------------------------------------------
(***************************************************************************)
(* The trace.                                                              *)
(***************************************************************************)

\* If every packet can be read, every packet is kept, in its place.
LEMMA KeepsAll ==
  ASSUME job \in SplitJobs, Readable = DOMAIN packets
  PROVE  Kept = [m \in 1 .. Len(packets) |-> m]
<1>1. Len(packets) \in Nat /\ Readable = 1 .. Len(packets)
  BY JobFacts
<1> DEFINE n == Len(packets)
<1> HIDE DEF n
<1>2. n \in Nat /\ Readable = 1 .. n
  BY <1>1 DEF n
<1>3. Cardinality(1 .. n) = n
  BY <1>2, FS_Interval
<1>4. ASSUME NEW k \in 1 .. n PROVE Cardinality({j \in 1 .. n : j < k}) = k - 1
  <2>1. k - 1 \in Nat /\ {j \in 1 .. n : j < k} = 1 .. k - 1
    BY <1>2
  <2>2. Cardinality(1 .. k - 1) = k - 1
    BY <2>1, FS_Interval
  <2> QED
    BY <2>1, <2>2
<1>5. ASSUME NEW m \in 1 .. n
      PROVE  (CHOOSE k \in 1 .. n : Cardinality({j \in 1 .. n : j < k}) = m - 1) = m
  <2> DEFINE Rank(k) == Cardinality({j \in 1 .. n : j < k})
  <2>1. \A k \in 1 .. n : Rank(k) = k - 1
    BY <1>4
  <2> HIDE DEF Rank
  <2>2. \A k \in 1 .. n : Rank(k) = m - 1 <=> k = m
    BY <1>2, <2>1
  <2>3. (CHOOSE k \in 1 .. n : Rank(k) = m - 1) = m
    BY <2>2
  <2> QED
    BY <2>3 DEF Rank
<1>6. Kept = [m \in 1 .. n |-> CHOOSE k \in 1 .. n : Cardinality({j \in 1 .. n : j < k}) = m - 1]
  BY <1>2, <1>3 DEF Kept
<1> QED
  BY <1>5, <1>6 DEF n

\* The converted trace: one line for every packet, its cycle in the last column, in
\* the order of the cycles.
LEMMA TraceFacts ==
  ASSUME job \in SplitJobs, ThreeColumns, trace = [k \in 1 .. Len(packets) |-> Converted(k)]
  PROVE  /\ trace \in Seq(SplitTraceLine) /\ Len(trace) = Len(packets) /\ Len(packets) \in Nat
         /\ DOMAIN trace = 1 .. Len(packets)
         /\ \A k \in 1 .. Len(packets) :
              /\ trace[k] \in SplitTraceLine /\ trace[k].packet = k /\ trace[k].cols = 3
              /\ trace[k].cycle \in Nat /\ trace[k].last = trace[k].cycle
              /\ trace[k].cycle = (packets[k].tick + div - 1) \div div
              /\ trace[k].cycle = Cycle(job.converter, packets[k].tick)
         /\ \A k, m \in 1 .. Len(packets) : k <= m => trace[k].cycle <= trace[m].cycle
<1>1. /\ Len(packets) \in Nat /\ div \in Nat \ {0}
      /\ \A k \in 1 .. Len(packets) : packets[k].tick \in Nat
      /\ \A k, m \in 1 .. Len(packets) : k <= m => packets[k].tick <= packets[m].tick
  BY JobFacts
<1> DEFINE C(k) == (packets[k].tick + div - 1) \div div
<1>2. ASSUME NEW k \in 1 .. Len(packets)
      PROVE  /\ packets[k].tick + div - 1 \in Nat
             /\ C(k) \in Nat /\ trace[k] = [packet |-> k, cols |-> 3, cycle |-> C(k), last |-> C(k)]
             /\ C(k) = Cycle(job.converter, packets[k].tick)
  <2>1. packets[k].tick + div - 1 \in Nat
    BY <1>1
  <2>2. C(k) \in Nat
    BY <1>1, <2>1, DivisionFacts
  <2>3. Cycle(job.converter, packets[k].tick) = C(k) /\ Columns(job.converter) = 3
    BY DEF Cycle, Columns, ThreeColumns
  <2>4. trace[k] = Converted(k)
    OBVIOUS
  <2> HIDE DEF C
  <2>5. Converted(k) = [packet |-> k, cols |-> 3, cycle |-> C(k), last |-> C(k)]
    BY <2>3 DEF Converted
  <2> QED
    BY <2>1, <2>2, <2>3, <2>4, <2>5
<1>3. ASSUME NEW k \in 1 .. Len(packets), NEW m \in 1 .. Len(packets), k <= m
      PROVE  C(k) <= C(m)
  <2>1. packets[k].tick + div - 1 <= packets[m].tick + div - 1
    BY <1>1, <1>3
  <2> QED
    BY <1>1, <1>2, <2>1, DivisionMonotone
<1>4. \A k \in 1 .. Len(packets) : C(k) = (packets[k].tick + div - 1) \div div
  OBVIOUS
<1> HIDE DEF C
<1>5. \A k \in 1 .. Len(packets) : trace[k] \in SplitTraceLine
  BY <1>1, <1>2 DEF SplitTraceLine
<1>6. trace \in Seq(SplitTraceLine) /\ Len(trace) = Len(packets) /\ DOMAIN trace = 1 .. Len(packets)
  BY <1>1, <1>5
<1>7. \A k \in 1 .. Len(packets) :
        /\ trace[k].packet = k /\ trace[k].cols = 3 /\ trace[k].cycle = C(k) /\ trace[k].last = C(k)
        /\ C(k) \in Nat /\ C(k) = Cycle(job.converter, packets[k].tick)
  BY <1>2
<1>8. \A k, m \in 1 .. Len(packets) : k <= m => trace[k].cycle <= trace[m].cycle
  BY <1>3, <1>7
<1>9. \A k \in 1 .. Len(packets) :
        /\ trace[k].packet = k /\ trace[k].cols = 3
        /\ trace[k].cycle \in Nat /\ trace[k].last = trace[k].cycle
        /\ trace[k].cycle = (packets[k].tick + div - 1) \div div
        /\ trace[k].cycle = Cycle(job.converter, packets[k].tick)
  BY <1>4, <1>7
<1> QED
  BY <1>1, <1>5, <1>6, <1>8, <1>9
-----------------------------------------------------------------------------
(***************************************************************************)
(* The steps.                                                              *)
(***************************************************************************)

\* The log, the packets and the converter stay as they are.
LEMMA SameJob ==
  ASSUME job' = job
  PROVE  /\ LogAccepted' = LogAccepted /\ SortedIters' = SortedIters
         /\ packets' = packets /\ div' = div /\ ThreeColumns' = ThreeColumns
         /\ Readable' = Readable
         /\ \A k : Converted(k)' = Converted(k)
<1>1. log' = log /\ packets' = packets /\ div' = div
  BY DEF log, packets, div
<1>2. LogAccepted' = LogAccepted
  BY <1>1 DEF LogAccepted, Seen, Marks, FirstTick
<1>3. SortedIters' = SortedIters
  BY <1>1 DEF SortedIters, IterationOf, Seen, Marks, FirstTick
<1>4. Readable' = Readable /\ ThreeColumns' = ThreeColumns
  BY <1>1 DEF Readable, ThreeColumns, Reads
<1>5. \A k : Converted(k)' = Converted(k)
  BY <1>1 DEF Converted, Cycle, Columns, Flag
<1> QED
  BY <1>1, <1>2, <1>3, <1>4, <1>5

\* What is known while the trace is cut: the iterations, and the lines.
LEMMA CuttingFacts ==
  ASSUME SplitType, LogInv, ThreeColumns, TraceInv, CursorInv, at \in {"split", "zero", "done"}
  PROVE  /\ job \in SplitJobs /\ LogAccepted /\ iters \in SortedIters
         /\ Len(iters) \in Nat /\ DOMAIN iters = 1 .. Len(iters)
         /\ \A i \in 1 .. Len(iters) :
              iters[i].t \in IterIds /\ iters[i].begin \in Nat /\ iters[i].end \in Nat
         /\ \A i, j \in 1 .. Len(iters) : i < j => /\ iters[i].begin <= iters[j].begin
                                                   /\ iters[i].t # iters[j].t
         /\ Len(trace) = Len(packets) /\ Len(packets) \in Nat
         /\ \A k \in 1 .. Len(packets) :
              /\ trace[k] \in SplitTraceLine /\ trace[k].packet = k /\ trace[k].cols = 3
              /\ trace[k].cycle \in Nat /\ trace[k].last = trace[k].cycle
         /\ \A k, m \in 1 .. Len(packets) : k <= m => trace[k].cycle <= trace[m].cycle
         /\ pos \in 1 .. Len(packets) + 1 /\ pos \in Nat
         /\ idx \in 1 .. Len(iters) + 1 /\ idx \in Nat
<1>1. job \in SplitJobs /\ LogAccepted /\ iters \in SortedIters
  BY DEF SplitType, LogInv
<1>2. trace = [k \in 1 .. Len(packets) |-> Converted(k)]
  BY DEF TraceInv
<1>3. pos \in 1 .. Len(packets) + 1 /\ idx \in 1 .. Len(iters) + 1
  BY DEF CursorInv
<1>4. /\ Len(iters) \in Nat /\ DOMAIN iters = 1 .. Len(iters)
      /\ \A i \in 1 .. Len(iters) :
           iters[i].t \in IterIds /\ iters[i].begin \in Nat /\ iters[i].end \in Nat
      /\ \A i, j \in 1 .. Len(iters) : i < j => /\ iters[i].begin <= iters[j].begin
                                                /\ iters[i].t # iters[j].t
  BY <1>1, ItersFacts
<1>5. /\ Len(trace) = Len(packets) /\ Len(packets) \in Nat
      /\ \A k \in 1 .. Len(packets) :
           /\ trace[k] \in SplitTraceLine /\ trace[k].packet = k /\ trace[k].cols = 3
           /\ trace[k].cycle \in Nat /\ trace[k].last = trace[k].cycle
      /\ \A k, m \in 1 .. Len(packets) : k <= m => trace[k].cycle <= trace[m].cycle
  BY <1>1, <1>2, TraceFacts
<1>6. pos \in Nat /\ idx \in Nat
  BY <1>3, <1>4, <1>5
<1> QED
  BY <1>1, <1>3, <1>4, <1>5, <1>6

\* The iterations the splitter leaves at a line are over before this line and all that
\* follow, as the lines are in the order of their cycles.
LEMMA LeftBehind ==
  ASSUME SplitType, LogInv, ThreeColumns, TraceInv, CursorInv,
         at = "split", pos <= Len(trace), NEW n \in idx .. Len(iters) + 1, n \in Nat,
         Passes(trace[pos].last, idx, n), NEW j \in Nat \ {0}, j < n,
         NEW k \in Nat, pos <= k, k <= Len(packets)
  PROVE  iters[j].end < trace[k].cycle
<1>1. /\ at = "split" /\ pos \in 1 .. Len(packets)
      /\ n \in idx .. Len(iters) + 1 /\ Passes(trace[pos].last, idx, n)
      /\ pos \in Nat /\ idx \in Nat /\ Len(iters) \in Nat /\ Len(packets) \in Nat
      /\ \A i \in 1 .. Len(iters) : iters[i].end \in Nat
      /\ trace[pos].last = trace[pos].cycle /\ trace[pos].cycle \in Nat
      /\ \A m, o \in 1 .. Len(packets) : m <= o => trace[m].cycle <= trace[o].cycle
      /\ \A m \in 1 .. Len(packets) : trace[m].cycle \in Nat
      /\ n \in Nat /\ n <= Len(iters) + 1
  <2>1. pos \in 1 .. Len(packets) /\ pos \in Nat /\ idx \in Nat
    BY CuttingFacts
  <2> QED
    BY <2>1, CuttingFacts
<1>2. j \in 1 .. Len(iters) /\ j \in Nat /\ k \in 1 .. Len(packets) /\ pos <= k
  <2>1. /\ pos \in 1 .. Len(packets) /\ Len(iters) \in Nat /\ Len(packets) \in Nat
        /\ n \in Nat /\ n <= Len(iters) + 1
    BY <1>1
  <2> QED
    BY <2>1
<1>3. CASE j < idx
  <2>1. j \in 1 .. idx - 1
    BY <1>1, <1>2, <1>3
  <2> QED
    BY <1>1, <2>1 DEF CursorInv
<1>4. CASE ~ (j < idx)
  <2>1. j \in idx .. n - 1
    <3>1. idx \in Nat /\ n \in Nat
      BY <1>1
    <3> QED
      BY <1>2, <1>4, <3>1
  <2>2. trace[pos].last > iters[j].end
    BY <1>1, <2>1 DEF Passes
  <2>3. trace[pos].cycle <= trace[k].cycle
    BY <1>1, <1>2
  <2> QED
    BY <1>1, <1>2, <2>2, <2>3
<1> QED
  BY <1>3, <1>4

\* A line goes to the first iteration that holds it, or to none.
LEMMA GoesToFirst ==
  ASSUME SplitType, LogInv, ThreeColumns, TraceInv, CursorInv,
         at = "split", pos <= Len(trace), NEW n \in idx .. Len(iters) + 1, n \in Nat,
         Passes(trace[pos].last, idx, n), n <= Len(iters), NEW i \in 1 .. Len(iters)
  PROVE  FirstHolds(i, pos) <=> i = n /\ InWindow(iters[n], trace[pos].last)
<1>1. /\ at = "split" /\ pos \in 1 .. Len(packets)
      /\ n \in 1 .. Len(iters) /\ Passes(trace[pos].last, idx, n)
      /\ pos \in Nat /\ idx \in Nat /\ n \in Nat /\ Len(iters) \in Nat /\ Len(packets) \in Nat
      /\ \A m \in 1 .. Len(iters) : iters[m].begin \in Nat /\ iters[m].end \in Nat
      /\ \A m, o \in 1 .. Len(iters) : m < o => iters[m].begin <= iters[o].begin
      /\ trace[pos].last = trace[pos].cycle /\ trace[pos].cycle \in Nat
  <2>1. pos \in 1 .. Len(packets) /\ pos \in Nat /\ idx \in 1 .. Len(iters) + 1 /\ idx \in Nat
        /\ Len(iters) \in Nat /\ Len(packets) \in Nat
    BY CuttingFacts
  <2>2. n \in 1 .. Len(iters) /\ n \in Nat
    BY <2>1
  <2> QED
    BY <2>1, <2>2, CuttingFacts
<1> DEFINE c == trace[pos].cycle
<1>2. \A j \in 1 .. n - 1 : ~ Holds(j, trace[pos])
  <2> SUFFICES ASSUME NEW j \in 1 .. n - 1 PROVE ~ Holds(j, trace[pos])
    OBVIOUS
  <2>1. pos <= pos /\ pos <= Len(packets) /\ j \in Nat \ {0} /\ j < n
    BY <1>1
  <2>2. iters[j].end < c
    BY <1>1, <2>1, LeftBehind
  <2>3. iters[j].end \in Nat
    BY <1>1
  <2> QED
    BY <1>1, <2>2, <2>3 DEF Holds, InWindow
<1>3. c <= iters[n].end
  BY <1>1 DEF Passes
<1>4. Holds(n, trace[pos]) <=> InWindow(iters[n], trace[pos].last)
  BY <1>1 DEF Holds
<1>5. CASE i < n
  <2>1. i \in 1 .. n - 1 /\ i # n
    BY <1>1, <1>5
  <2>2. ~ Holds(i, trace[pos])
    BY <1>2, <2>1
  <2> QED
    BY <2>1, <2>2 DEF FirstHolds
<1>6. CASE i = n
  BY <1>2, <1>4, <1>6 DEF FirstHolds
<1>7. CASE n < i
  <2>1. n \in 1 .. i - 1
    BY <1>1, <1>7
  <2>2. CASE InWindow(iters[n], trace[pos].last)
    BY <1>1, <1>4, <1>7, <2>1, <2>2 DEF FirstHolds
  <2>3. CASE ~ InWindow(iters[n], trace[pos].last)
    <3>1. c < iters[n].begin
      BY <1>1, <1>3, <2>3 DEF InWindow
    <3>2. iters[n].begin <= iters[i].begin
      BY <1>1, <1>7
    <3>3. ~ Holds(i, trace[pos])
      BY <1>1, <3>1, <3>2 DEF Holds, InWindow
    <3> QED
      BY <1>1, <2>3, <3>3 DEF FirstHolds
  <2> QED
    BY <2>2, <2>3
<1> QED
  BY <1>1, <1>5, <1>6, <1>7

\* The pieces' part of FileInv, for pieces that nothing has been taken off.
PieceOk(f, upto) ==
  /\ Ascends(f)
  /\ \A a \in 1 .. Len(f) : /\ f[a].packet \in 1 .. upto /\ f[a].cols = 3
                            /\ f[a].last = f[a].cycle
                            /\ f[a].cycle = trace[f[a].packet].cycle

\* A piece with one more line, the next one.
LEMMA OneMoreLine ==
  ASSUME NEW f \in Seq(SplitTraceLine), NEW l \in SplitTraceLine, NEW p \in Nat \ {0},
         l.packet = p, l.cols = 3, l.last = l.cycle, l.cycle = trace[p].cycle, PieceOk(f, p - 1)
  PROVE  /\ Append(f, l) \in Seq(SplitTraceLine) /\ PieceOk(Append(f, l), p)
         /\ Packeted(Append(f, l)) = Packeted(f) \cup {p}
<1> DEFINE g == Append(f, l)
<1>1. /\ g \in Seq(SplitTraceLine) /\ Len(f) \in Nat /\ Len(g) = Len(f) + 1
      /\ \A a \in 1 .. Len(f) : g[a] = f[a]
      /\ g[Len(f) + 1] = l /\ DOMAIN g = 1 .. Len(f) + 1 /\ DOMAIN f = 1 .. Len(f)
  BY AppendProperties, LenProperties
<1> HIDE DEF g
<1>2. /\ \A a, b \in 1 .. Len(f) : a < b => f[a].packet < f[b].packet
      /\ \A a \in 1 .. Len(f) : /\ f[a].packet \in 1 .. p - 1 /\ f[a].cols = 3
                                /\ f[a].last = f[a].cycle
                                /\ f[a].cycle = trace[f[a].packet].cycle
  BY DEF PieceOk, Ascends
<1>3. \A a \in 1 .. Len(f) + 1 : a \in 1 .. Len(f) \/ a = Len(f) + 1
  BY <1>1
<1>4. ASSUME NEW a \in 1 .. Len(f) + 1, NEW b \in 1 .. Len(f) + 1, a < b
      PROVE  g[a].packet < g[b].packet
  <2>1. a \in 1 .. Len(f)
    BY <1>1, <1>4
  <2>2. CASE b \in 1 .. Len(f)
    BY <1>1, <1>2, <1>4, <2>1, <2>2
  <2>3. CASE b = Len(f) + 1
    <3>1. g[a].packet \in 1 .. p - 1 /\ g[b].packet = p
      BY <1>1, <1>2, <2>1, <2>3
    <3> QED
      BY <3>1
  <2> QED
    BY <1>3, <2>2, <2>3
<1>5. ASSUME NEW a \in 1 .. Len(f) + 1
      PROVE  /\ g[a].packet \in 1 .. p /\ g[a].cols = 3
             /\ g[a].last = g[a].cycle
             /\ g[a].cycle = trace[g[a].packet].cycle
  <2>1. CASE a \in 1 .. Len(f)
    <3>1. g[a] = f[a] /\ f[a].packet \in 1 .. p - 1
      BY <1>1, <1>2, <2>1
    <3>2. f[a].packet \in 1 .. p
      BY <3>1
    <3> QED
      BY <1>2, <2>1, <3>1, <3>2
  <2>2. CASE a = Len(f) + 1
    <3>1. g[a] = l /\ p \in 1 .. p
      BY <1>1, <2>2
    <3> QED
      BY <3>1
  <2> QED
    BY <1>3, <2>1, <2>2
<1>6. PieceOk(g, p)
  BY <1>1, <1>4, <1>5 DEF PieceOk, Ascends
<1>7. Packeted(g) = Packeted(f) \cup {p}
  <2>1. \A y \in Packeted(g) : y \in Packeted(f) \cup {p}
    BY <1>1, <1>3 DEF Packeted
  <2>2. \A y \in Packeted(f) : y \in Packeted(g)
    <3>1. \A a \in DOMAIN f : a \in DOMAIN g /\ g[a] = f[a]
      BY <1>1
    <3> QED
      BY <3>1 DEF Packeted
  <2>3. p \in Packeted(g)
    <3>1. Len(f) + 1 \in DOMAIN g
      BY <1>1
    <3> QED
      BY <1>1, <3>1 DEF Packeted
  <2> QED
    BY <2>1, <2>2, <2>3
<1> QED
  BY <1>1, <1>6, <1>7 DEF g

\* What FileInv says while the trace is cut.
LEMMA CutPieces ==
  ASSUME at = "split"
  PROVE  FileInv <=>
           /\ files \in [IterIds -> Seq(SplitTraceLine)] /\ zeroed = {}
           /\ \A t \in IterIds :
                /\ Ascends(files[t])
                /\ \A a \in 1 .. Len(files[t]) :
                     /\ files[t][a].packet \in 1 .. pos - 1 /\ files[t][a].cols = 3
                     /\ files[t][a].last = files[t][a].cycle
                     /\ files[t][a].cycle = trace[files[t][a].packet].cycle - 0
           /\ \A i \in 1 .. Len(iters), k \in 1 .. pos - 1 :
                k \in Packeted(files[iters[i].t]) <=> FirstHolds(i, k)
BY DEF FileInv, TakenOff

\* A line keeps the pieces as they should be.
LEMMA SplitLineKeeps ==
  ASSUME SplitType, LogInv, ThreeColumns, TraceInv, CursorInv, FileInv, SplitLine
  PROVE  CursorInv' /\ FileInv'
<1>1. /\ at = "split" /\ pos <= Len(trace) /\ UNCHANGED <<job, iters, trace, zeroed>>
  BY DEF SplitLine
<1>2. PICK n \in idx .. Len(iters) + 1 :
        /\ n = idx' /\ Passes(trace[pos].last, idx, n)
        /\ IF n > Len(iters)
             THEN at' = "zero" /\ UNCHANGED <<pos, files>>
             ELSE /\ pos' = pos + 1 /\ at' = at
                  /\ files' = IF InWindow(iters[n], trace[pos].last)
                                THEN [files EXCEPT ![iters[n].t] = Append(@, trace[pos])]
                                ELSE files
  BY DEF SplitLine
<1>3. /\ job \in SplitJobs /\ Len(iters) \in Nat /\ Len(packets) \in Nat
      /\ \A i \in 1 .. Len(iters) : iters[i].t \in IterIds
      /\ \A i, j \in 1 .. Len(iters) : i < j => iters[i].t # iters[j].t
      /\ Len(trace) = Len(packets)
      /\ \A k \in 1 .. Len(packets) :
           /\ trace[k] \in SplitTraceLine /\ trace[k].packet = k /\ trace[k].cols = 3
           /\ trace[k].cycle \in Nat /\ trace[k].last = trace[k].cycle
      /\ pos \in Nat \ {0} /\ idx \in Nat \ {0} /\ n \in Nat \ {0}
  <2>1. /\ pos \in 1 .. Len(packets) + 1 /\ idx \in 1 .. Len(iters) + 1 /\ pos \in Nat /\ idx \in Nat
        /\ Len(iters) \in Nat
    BY <1>1, CuttingFacts
  <2>2. n \in Nat \ {0} /\ pos \in Nat \ {0} /\ idx \in Nat \ {0}
    BY <2>1
  <2> QED
    BY <1>1, <2>2, CuttingFacts
<1>4. packets' = packets /\ pos <= Len(packets)
  BY <1>1, <1>3, SameJob
<1>5. /\ zeroed = {} /\ files \in [IterIds -> Seq(SplitTraceLine)]
      /\ \A t \in IterIds : PieceOk(files[t], pos - 1)
      /\ \A i \in 1 .. Len(iters), k \in 1 .. pos - 1 :
           k \in Packeted(files[iters[i].t]) <=> FirstHolds(i, k)
  <2>1. /\ zeroed = {} /\ files \in [IterIds -> Seq(SplitTraceLine)]
        /\ \A t \in IterIds :
             /\ Ascends(files[t])
             /\ \A a \in 1 .. Len(files[t]) :
                  /\ files[t][a].packet \in 1 .. pos - 1 /\ files[t][a].cols = 3
                  /\ files[t][a].last = files[t][a].cycle
                  /\ files[t][a].cycle = trace[files[t][a].packet].cycle - 0
        /\ \A i \in 1 .. Len(iters), k \in 1 .. pos - 1 :
             k \in Packeted(files[iters[i].t]) <=> FirstHolds(i, k)
    BY <1>1, CutPieces
  <2>2. ASSUME NEW t \in IterIds, NEW a \in 1 .. Len(files[t])
        PROVE  files[t][a].cycle = trace[files[t][a].packet].cycle
    <3>1. files[t][a].packet \in 1 .. Len(packets)
      <4>1. files[t][a].packet \in 1 .. pos - 1
        BY <2>1
      <4> QED
        BY <1>3, <1>4, <4>1
    <3>2. trace[files[t][a].packet].cycle \in Nat
      BY <1>3, <3>1
    <3> QED
      BY <2>1, <3>2
  <2> QED
    BY <2>1, <2>2 DEF PieceOk
<1>6. \A j \in 1 .. n - 1, k \in pos .. Len(packets) : iters[j].end < trace[k].cycle
  <2> SUFFICES ASSUME NEW j \in 1 .. n - 1, NEW k \in pos .. Len(packets)
               PROVE  iters[j].end < trace[k].cycle
    OBVIOUS
  <2>1. j \in Nat \ {0} /\ j < n /\ k \in Nat /\ pos <= k /\ k <= Len(packets)
    BY <1>3
  <2> QED
    BY <1>1, <1>2, <1>3, <2>1, LeftBehind
<1>7. \A i, k : FirstHolds(i, k)' <=> FirstHolds(i, k)
  BY <1>1 DEF FirstHolds, Holds
<1>8. CASE n > Len(iters)
  <2>1. at' = "zero" /\ pos' = pos /\ files' = files /\ n = Len(iters) + 1
    BY <1>2, <1>3, <1>8
  <2>2. CursorInv'
    BY <1>1, <1>2, <1>3, <1>4, <1>6, <2>1 DEF CursorInv
  <2>3. /\ \A t : TakenOff(t)' = TakenOff(t)
        /\ Len(iters)' = Len(iters) /\ \A i : iters[i].t' = iters[i].t
    BY <1>1, <2>1 DEF TakenOff
  <2>4. FileInv'
    BY <1>1, <1>7, <2>1, <2>3 DEF FileInv
  <2> QED
    BY <2>2, <2>4
<1>9. CASE ~ (n > Len(iters))
  <2> DEFINE inside == InWindow(iters[n], trace[pos].last)
             u == iters[n].t
  <2>1. /\ at' = "split" /\ pos' = pos + 1 /\ n \in 1 .. Len(iters)
        /\ files' = IF inside THEN [files EXCEPT ![u] = Append(@, trace[pos])] ELSE files
    BY <1>1, <1>2, <1>3, <1>9
  <2>2. CursorInv'
    <3>1. pos + 1 \in 1 .. Len(packets) + 1 /\ n \in 1 .. Len(iters) + 1
      BY <1>3, <1>4, <2>1
    <3>2. \A k \in pos + 1 .. Len(packets) : k \in pos .. Len(packets)
      BY <1>3
    <3> QED
      BY <1>1, <1>2, <1>4, <1>6, <2>1, <3>1, <3>2 DEF CursorInv
  <2>3. \A i \in 1 .. Len(iters) : FirstHolds(i, pos) <=> i = n /\ inside
    BY <1>1, <1>2, <1>3, <2>1, GoesToFirst
  <2>4. u \in IterIds /\ pos \in 1 .. Len(packets)
    BY <1>3, <1>4, <2>1
  <2> HIDE DEF inside, u
  <2>5. /\ files' \in [IterIds -> Seq(SplitTraceLine)]
        /\ \A t \in IterIds : PieceOk(files'[t], pos)
        /\ \A t \in IterIds :
             Packeted(files'[t]) = IF t = u /\ inside THEN Packeted(files[t]) \cup {pos}
                                                      ELSE Packeted(files[t])
    <3>1. ASSUME NEW t \in IterIds PROVE PieceOk(files[t], pos)
      <4>1. \A x \in 1 .. pos - 1 : x \in 1 .. pos
        BY <1>3
      <4>2. PieceOk(files[t], pos - 1)
        BY <1>5
      <4> QED
        BY <4>1, <4>2 DEF PieceOk
    <3>2. CASE ~ inside
      BY <1>5, <2>1, <3>1, <3>2
    <3>3. CASE inside
      <4>1. files' = [files EXCEPT ![u] = Append(files[u], trace[pos])]
        BY <1>5, <2>1, <2>4, <3>3
      <4>2. /\ Append(files[u], trace[pos]) \in Seq(SplitTraceLine)
            /\ PieceOk(Append(files[u], trace[pos]), pos)
            /\ Packeted(Append(files[u], trace[pos])) = Packeted(files[u]) \cup {pos}
        <5>1. files[u] \in Seq(SplitTraceLine) /\ PieceOk(files[u], pos - 1)
          BY <1>5, <2>4
        <5>2. /\ trace[pos] \in SplitTraceLine /\ trace[pos].packet = pos /\ trace[pos].cols = 3
              /\ trace[pos].last = trace[pos].cycle
          BY <1>3, <2>4
        <5> QED
          BY <1>3, <5>1, <5>2, OneMoreLine
      <4>3. /\ files'[u] = Append(files[u], trace[pos])
            /\ \A t \in IterIds : t # u => files'[t] = files[t]
            /\ files' \in [IterIds -> Seq(SplitTraceLine)]
        BY <1>5, <2>4, <4>1, <4>2
      <4> QED
        BY <2>4, <3>1, <3>3, <4>2, <4>3
    <3> QED
      BY <3>2, <3>3
  <2>6. ASSUME NEW i \in 1 .. Len(iters), NEW k \in 1 .. pos
        PROVE  k \in Packeted(files'[iters[i].t]) <=> FirstHolds(i, k)
    <3>1. iters[i].t \in IterIds /\ (iters[i].t = u <=> i = n)
      <4>1. n \in Nat /\ i \in Nat
        BY <1>3
      <4> QED
        BY <1>3, <2>1, <4>1 DEF u
    <3>2. pos \notin Packeted(files[iters[i].t])
      <4>1. PieceOk(files[iters[i].t], pos - 1) /\ files[iters[i].t] \in Seq(SplitTraceLine)
        BY <1>5, <3>1
      <4>2. \A a \in DOMAIN files[iters[i].t] : files[iters[i].t][a].packet \in 1 .. pos - 1
        BY <4>1 DEF PieceOk
      <4>3. pos \notin 1 .. pos - 1
        BY <1>3
      <4> QED
        BY <4>2, <4>3 DEF Packeted
    <3>3. CASE k = pos
      BY <2>3, <2>5, <3>1, <3>2, <3>3
    <3>4. CASE k # pos
      <4>1. k \in 1 .. pos - 1
        BY <1>3, <3>4
      <4>2. k \in Packeted(files[iters[i].t]) <=> FirstHolds(i, k)
        BY <1>5, <4>1
      <4> QED
        BY <2>5, <3>1, <3>4, <4>2
    <3> QED
      BY <3>3, <3>4
  <2>7. ASSUME NEW t \in IterIds
        PROVE  /\ Ascends(files'[t])
               /\ \A a \in 1 .. Len(files'[t]) :
                    /\ files'[t][a].packet \in 1 .. pos' - 1 /\ files'[t][a].cols = 3
                    /\ files'[t][a].last = files'[t][a].cycle
                    /\ files'[t][a].cycle = trace[files'[t][a].packet].cycle - 0
    <3> DEFINE g == files'[t]
    <3>1. PieceOk(g, pos)
      BY <2>5
    <3> HIDE DEF g
    <3>2. ASSUME NEW a \in 1 .. Len(g)
          PROVE  trace[g[a].packet].cycle \in Nat
      <4>1. g[a].packet \in 1 .. pos
        BY <3>1 DEF PieceOk
      <4>2. g[a].packet \in 1 .. Len(packets)
        BY <1>3, <1>4, <4>1
      <4> QED
        BY <1>3, <4>2
    <3>3. /\ Ascends(g)
          /\ \A a \in 1 .. Len(g) :
               /\ g[a].packet \in 1 .. pos /\ g[a].cols = 3
               /\ g[a].last = g[a].cycle
               /\ g[a].cycle = trace[g[a].packet].cycle - 0
      BY <3>1, <3>2 DEF PieceOk
    <3>4. pos' - 1 = pos
      BY <1>3, <2>1
    <3> QED
      BY <3>3, <3>4 DEF g
  <2>8. FileInv'
    <3>1. \A i \in 1 .. Len(iters'), k \in 1 .. pos' - 1 :
            k \in Packeted(files'[iters'[i].t]) <=> FirstHolds(i, k)'
      BY <1>1, <1>3, <1>7, <2>1, <2>6
    <3>2. zeroed' = {}
      BY <1>1, <1>5
    <3> QED
      BY <1>1, <2>1, <2>5, <2>7, <3>1, <3>2 DEF FileInv, TakenOff
  <2> QED
    BY <2>2, <2>8
<1> QED
  BY <1>8, <1>9

\* A line with c taken off.
LEMMA LineLess ==
  ASSUME NEW l \in SplitTraceLine, NEW c \in Nat, c <= l.cycle, l.last = l.cycle
  PROVE  /\ [l EXCEPT !.cycle = @ - c, !.last = @ - c] \in SplitTraceLine
         /\ [l EXCEPT !.cycle = @ - c, !.last = @ - c].packet = l.packet
         /\ [l EXCEPT !.cycle = @ - c, !.last = @ - c].cols = l.cols
         /\ [l EXCEPT !.cycle = @ - c, !.last = @ - c].last = l.cycle - c
         /\ [l EXCEPT !.cycle = @ - c, !.last = @ - c].cycle = l.cycle - c
<1>1. /\ l.packet \in Nat \ {0} /\ l.cols \in {3, 6} /\ l.cycle \in Nat /\ l.last \in Nat
      /\ l = [packet |-> l.packet, cols |-> l.cols, cycle |-> l.cycle, last |-> l.last]
  BY DEF SplitTraceLine
<1>2. l.cycle - c \in Nat /\ l.last - c \in Nat
  BY <1>1
<1>3. [l EXCEPT !.cycle = @ - c, !.last = @ - c] =
        [packet |-> l.packet, cols |-> l.cols, cycle |-> l.cycle - c, last |-> l.last - c]
  <2>1. PICK p, q, y, z : l = [packet |-> p, cols |-> q, cycle |-> y, last |-> z]
    BY <1>1
  <2>2. l.packet = p /\ l.cols = q /\ l.cycle = y /\ l.last = z
    BY <2>1
  <2> DEFINE u == l.cycle - c  v == l.last - c
  <2> HIDE DEF u, v
  <2>3. [l EXCEPT !.cycle = u, !.last = v] \in [packet : {p}, cols : {q}, cycle : {u}, last : {v}]
    BY <2>1
  <2> DEFINE r == [l EXCEPT !.cycle = u, !.last = v]
  <2>4. r = [packet |-> p, cols |-> q, cycle |-> u, last |-> v]
    <3> HIDE DEF r
    <3>1. r \in [packet : {p}, cols : {q}, cycle : {u}, last : {v}]
      BY <2>3 DEF r
    <3> QED
      BY <3>1
  <2> QED
    BY <2>2, <2>4 DEF u, v
<1> QED
  BY <1>1, <1>2, <1>3 DEF SplitTraceLine

\* A normalised piece has the same lines, its first line's cycle taken off.
LEMMA NormalisedPiece ==
  ASSUME NEW t, files[t] \in Seq(SplitTraceLine), files[t] # << >>,
         NEW upto \in Nat, PieceOk(files[t], upto),
         \A k \in 1 .. upto : trace[k].cycle \in Nat,
         \A k, m \in 1 .. upto : k <= m => trace[k].cycle <= trace[m].cycle
  PROVE  /\ Normalised(t) \in Seq(SplitTraceLine) /\ Len(Normalised(t)) = Len(files[t])
         /\ Len(files[t]) \in Nat \ {0} /\ DOMAIN Normalised(t) = DOMAIN files[t]
         /\ files[t][1].packet \in 1 .. upto
         /\ \A a \in 1 .. Len(files[t]) :
              /\ Normalised(t)[a].packet = files[t][a].packet
              /\ Normalised(t)[a].cols = 3 /\ Normalised(t)[a].last = Normalised(t)[a].cycle
              /\ Normalised(t)[a].cycle =
                   trace[files[t][a].packet].cycle - trace[files[t][1].packet].cycle
<1> DEFINE f == files[t]
           c == trace[f[1].packet].cycle
           g == Normalised(t)
           Less(l) == [l EXCEPT !.cycle = @ - c, !.last = @ - c]
<1>1. /\ f \in Seq(SplitTraceLine) /\ Len(f) \in Nat \ {0} /\ DOMAIN f = 1 .. Len(f)
      /\ 1 \in 1 .. Len(f)
      /\ \A a \in 1 .. Len(f) : f[a] \in SplitTraceLine
  <2>1. f \in Seq(SplitTraceLine) /\ f # << >>
    OBVIOUS
  <2> HIDE DEF f
  <2>2. Len(f) \in Nat /\ DOMAIN f = 1 .. Len(f) /\ Len(f) # 0
    BY <2>1, EmptySeq, LenProperties
  <2> QED
    BY <2>1, <2>2
<1>2. /\ \A a, b \in 1 .. Len(f) : a < b => f[a].packet < f[b].packet
      /\ \A a \in 1 .. Len(f) : /\ f[a].packet \in 1 .. upto /\ f[a].cols = 3
                                /\ f[a].last = f[a].cycle
                                /\ f[a].cycle = trace[f[a].packet].cycle
  BY DEF PieceOk, Ascends
<1>3. FirstCycle(t) = c
  BY <1>1, <1>2 DEF FirstCycle
<1>4. g = [a \in DOMAIN f |-> IF f[a].cols # 3 THEN f[a] ELSE Less(f[a])]
  BY <1>3 DEF Normalised
<1> HIDE DEF f, c, g, Less
<1>5. c \in Nat /\ c = trace[f[1].packet].cycle
  BY <1>1, <1>2 DEF c
<1>6. ASSUME NEW a \in 1 .. Len(f) PROVE c <= f[a].cycle
  <2>1. CASE a = 1
    <3>1. f[a].cycle = c /\ c \in Nat
      BY <1>2, <1>5, <2>1
    <3> QED
      BY <3>1
  <2>2. CASE a # 1
    <3>1. 1 < a
      BY <1>1, <2>2
    <3>2. f[1].packet < f[a].packet /\ f[1].packet \in 1 .. upto /\ f[a].packet \in 1 .. upto
      BY <1>1, <1>2, <3>1
    <3>3. f[1].packet <= f[a].packet
      BY <3>2
    <3> QED
      BY <1>2, <1>5, <3>2, <3>3
  <2> QED
    BY <2>1, <2>2
<1>7. ASSUME NEW a \in 1 .. Len(f)
      PROVE  /\ g[a] \in SplitTraceLine /\ g[a].packet = f[a].packet /\ g[a].cols = 3
             /\ g[a].last = f[a].cycle - c /\ g[a].cycle = f[a].cycle - c
  <2>1. g[a] = Less(f[a])
    BY <1>1, <1>2, <1>4
  <2>2. f[a] \in SplitTraceLine /\ c \in Nat /\ c <= f[a].cycle /\ f[a].last = f[a].cycle
        /\ f[a].cols = 3
    BY <1>1, <1>2, <1>5, <1>6
  <2>3. /\ Less(f[a]) \in SplitTraceLine /\ Less(f[a]).packet = f[a].packet
        /\ Less(f[a]).cols = f[a].cols
        /\ Less(f[a]).last = f[a].cycle - c /\ Less(f[a]).cycle = f[a].cycle - c
    BY <2>2, LineLess DEF Less
  <2> QED
    BY <2>1, <2>2, <2>3
<1>8. DOMAIN g = 1 .. Len(f) /\ DOMAIN g = DOMAIN f
  BY <1>1, <1>4
<1>9. g \in Seq(SplitTraceLine) /\ Len(g) = Len(f)
  <2>1. g \in [1 .. Len(f) -> SplitTraceLine]
    <3>1. g = [a \in 1 .. Len(f) |-> g[a]]
      BY <1>1, <1>4
    <3> QED
      BY <1>7, <3>1
  <2> QED
    BY <1>1, <2>1
<1>10. \A a \in 1 .. Len(f) :
         /\ g[a].packet = f[a].packet /\ g[a].cols = 3 /\ g[a].last = g[a].cycle
         /\ g[a].cycle = trace[f[a].packet].cycle - trace[f[1].packet].cycle
  BY <1>2, <1>5, <1>7
<1>11. f[1].packet \in 1 .. upto
  BY <1>1, <1>2
<1> QED
  BY <1>1, <1>8, <1>9, <1>10, <1>11 DEF f, g

\* Normalising a piece keeps the pieces as they should be.
LEMMA ZeroFileKeeps ==
  ASSUME SplitType, LogInv, ThreeColumns, TraceInv, CursorInv, FileInv,
         NEW t \in IterIds, ZeroFile(t)
  PROVE  CursorInv' /\ FileInv'
<1>1. /\ at = "zero" /\ t \notin zeroed
      /\ files' = [files EXCEPT ![t] = Normalised(t)] /\ zeroed' = zeroed \cup {t}
      /\ UNCHANGED <<job, at, iters, trace, pos, idx>>
  BY DEF ZeroFile
<1>2. packets' = packets
  BY <1>1, SameJob
<1>3. CursorInv'
  BY <1>1, <1>2 DEF CursorInv
<1>4. /\ Len(packets) \in Nat
      /\ \A i \in 1 .. Len(iters) : iters[i].t \in IterIds
      /\ \A k \in 1 .. Len(packets) : trace[k].cycle \in Nat
      /\ \A k, m \in 1 .. Len(packets) : k <= m => trace[k].cycle <= trace[m].cycle
      /\ pos \in Nat \ {0} /\ pos - 1 \in Nat /\ pos - 1 <= Len(packets)
  <2>1. pos \in 1 .. Len(packets) + 1 /\ pos \in Nat /\ Len(packets) \in Nat
    BY <1>1, CuttingFacts
  <2>2. pos \in Nat \ {0} /\ pos - 1 \in Nat /\ pos - 1 <= Len(packets)
    BY <2>1
  <2> QED
    BY <1>1, <2>2, CuttingFacts
<1>5. /\ files \in [IterIds -> Seq(SplitTraceLine)]
      /\ \A u \in IterIds :
           /\ Ascends(files[u])
           /\ \A a \in 1 .. Len(files[u]) :
                /\ files[u][a].packet \in 1 .. pos - 1
                /\ files[u][a].cols = 3 /\ files[u][a].last = files[u][a].cycle
                /\ files[u][a].cycle = trace[files[u][a].packet].cycle - TakenOff(u)
      /\ \A i \in 1 .. Len(iters), k \in 1 .. pos - 1 :
           k \in Packeted(files[iters[i].t]) <=> FirstHolds(i, k)
  BY <1>1 DEF FileInv
<1>6. \A u \in IterIds : \A a \in 1 .. Len(files[u]) :
        files[u][a].packet \in 1 .. Len(packets)
  <2>1. \A k \in 1 .. pos - 1 : k \in 1 .. Len(packets)
    BY <1>4
  <2> QED
    BY <1>5, <2>1
<1>7. \A u \in IterIds : u # t => files'[u] = files[u] /\ TakenOff(u)' = TakenOff(u)
  <2>1. \A u \in IterIds : u # t => files'[u] = files[u] /\ (u \in zeroed' <=> u \in zeroed)
    BY <1>1, <1>5
  <2> QED
    BY <1>1, <2>1 DEF TakenOff
<1>8. files'[t] = Normalised(t)
  BY <1>1, <1>5
<1>9. /\ files'[t] \in Seq(SplitTraceLine) /\ Packeted(files'[t]) = Packeted(files[t])
      /\ Ascends(files'[t])
      /\ \A a \in 1 .. Len(files'[t]) :
           /\ files'[t][a].packet \in 1 .. pos - 1
           /\ files'[t][a].cols = 3 /\ files'[t][a].last = files'[t][a].cycle
           /\ files'[t][a].cycle = trace[files'[t][a].packet].cycle - TakenOff(t)'
  <2>1. CASE files[t] = << >>
    <3>1. files'[t] = << >>
      BY <1>8, <2>1 DEF Normalised
    <3>2. Len(files'[t]) = 0 /\ Len(files[t]) = 0
      BY <2>1, <3>1
    <3> QED
      BY <1>5, <2>1, <3>1, <3>2
  <2>2. CASE files[t] # << >>
    <3> DEFINE f == files[t]
               g == Normalised(t)
    <3>1. PieceOk(f, pos - 1)
      <4>1. TakenOff(t) = 0
        BY <1>1 DEF TakenOff
      <4>2. \A a \in 1 .. Len(f) : f[a].cycle = trace[f[a].packet].cycle
        <5>1. \A a \in 1 .. Len(f) : trace[f[a].packet].cycle \in Nat
          BY <1>4, <1>6
        <5> QED
          BY <1>5, <4>1, <5>1
      <4> QED
        BY <1>5, <4>2 DEF PieceOk
    <3>2. /\ \A k \in 1 .. pos - 1 : trace[k].cycle \in Nat
          /\ \A k, m \in 1 .. pos - 1 : k <= m => trace[k].cycle <= trace[m].cycle
      <4>1. \A k \in 1 .. pos - 1 : k \in 1 .. Len(packets)
        BY <1>4
      <4> QED
        BY <1>4, <4>1
    <3>3. f \in Seq(SplitTraceLine) /\ DOMAIN f = 1 .. Len(f) /\ pos - 1 \in Nat
      BY <1>4, <1>5
    <3>4. /\ g \in Seq(SplitTraceLine) /\ Len(g) = Len(f) /\ Len(f) \in Nat \ {0}
          /\ DOMAIN g = DOMAIN f /\ f[1].packet \in 1 .. pos - 1
          /\ \A a \in 1 .. Len(f) :
               /\ g[a].packet = f[a].packet /\ g[a].cols = 3 /\ g[a].last = g[a].cycle
               /\ g[a].cycle = trace[f[a].packet].cycle - trace[f[1].packet].cycle
      BY <2>2, <3>1, <3>2, <3>3, NormalisedPiece
    <3> HIDE <3>1, <3>2
    <3>5. Ascends(f) /\ \A a \in 1 .. Len(f) : f[a].packet \in 1 .. pos - 1
      BY <1>5
    <3>6. TakenOff(t)' = trace[f[1].packet].cycle
      <4>1. t \in zeroed' /\ files'[t] = g /\ g # << >> /\ g[1].packet = f[1].packet
        <5> HIDE DEF f, g
        <5>1. 1 \in 1 .. Len(f) /\ 1 \in DOMAIN g
          BY <3>3, <3>4
        <5>2. g # << >>
          BY <5>1
        <5>3. g[1].packet = f[1].packet
          BY <3>4, <5>1
        <5>4. t \in zeroed' /\ files'[t] = g
          BY <1>1, <1>8 DEF g
        <5> QED
          BY <5>2, <5>3, <5>4
      <4> QED
        BY <1>1, <4>1 DEF TakenOff
    <3> HIDE DEF f, g
    <3>7. Ascends(g) /\ Packeted(g) = Packeted(f)
      <4>1. \A a \in 1 .. Len(f) : g[a].packet = f[a].packet
        BY <3>4
      <4>2. Ascends(g)
        BY <3>4, <3>5, <4>1 DEF Ascends
      <4>3. \A a \in DOMAIN f : g[a].packet = f[a].packet
        BY <3>4
      <4>4. Packeted(g) = Packeted(f)
        BY <3>4, <4>3 DEF Packeted
      <4> QED
        BY <4>2, <4>4
    <3>8. files'[t] = g /\ files[t] = f
      BY <1>8 DEF f, g
    <3> QED
      BY <3>4, <3>5, <3>6, <3>7, <3>8
  <2> QED
    BY <2>1, <2>2
<1>10. \A i, k : FirstHolds(i, k)' <=> FirstHolds(i, k)
  BY <1>1 DEF FirstHolds, Holds
<1>11. files' \in [IterIds -> Seq(SplitTraceLine)]
  BY <1>1, <1>5, <1>7, <1>8, <1>9
<1>12. ASSUME NEW u \in IterIds
       PROVE  /\ Ascends(files'[u]) /\ Packeted(files'[u]) = Packeted(files[u])
              /\ \A a \in 1 .. Len(files'[u]) :
                   /\ files'[u][a].packet \in 1 .. pos - 1
                   /\ files'[u][a].cols = 3 /\ files'[u][a].last = files'[u][a].cycle
                   /\ files'[u][a].cycle = trace[files'[u][a].packet].cycle - TakenOff(u)'
  <2>1. CASE u = t
    BY <1>9, <2>1
  <2>2. CASE u # t
    BY <1>5, <1>7, <2>2
  <2> QED
    BY <2>1, <2>2
<1>13. \A i \in 1 .. Len(iters), k \in 1 .. pos - 1 :
         k \in Packeted(files'[iters[i].t]) <=> FirstHolds(i, k)'
  BY <1>4, <1>5, <1>10, <1>12
<1>14. FileInv'
  <2>1. /\ pos' = pos /\ iters' = iters /\ trace' = trace
        /\ at' # "split"
    BY <1>1
  <2>2. ASSUME NEW u \in IterIds
        PROVE  /\ Ascends(files'[u])
               /\ \A a \in 1 .. Len(files'[u]) :
                    /\ files'[u][a].packet \in 1 .. pos' - 1
                    /\ files'[u][a].cols = 3 /\ files'[u][a].last = files'[u][a].cycle
                    /\ files'[u][a].cycle = trace'[files'[u][a].packet].cycle - TakenOff(u)'
    BY <1>12, <2>1
  <2>3. \A i \in 1 .. Len(iters'), k \in 1 .. pos' - 1 :
          k \in Packeted(files'[iters'[i].t]) <=> FirstHolds(i, k)'
    BY <1>13, <2>1
  <2> QED
    BY <1>11, <2>1, <2>2, <2>3 DEF FileInv
<1> QED
  BY <1>3, <1>14

\* Nothing is converted, cut or normalised yet.
LEMMA InitiallySplit ==
  ASSUME SplitInit
  PROVE  SplitInv
<1>1. job \in SplitJobs /\ at = "log" /\ pos = 1 /\ idx = 1 /\ zeroed = {}
      /\ files = [t \in IterIds |-> << >>]
  BY DEF SplitInit
<1> QED
  BY <1>1 DEF SplitInv, SplitType, LogInv, PiecesInv, StartInv, TraceInv, CursorInv, FileInv

\* Converting keeps every packet, in its place, and leaves the pieces empty.
LEMMA ConvertKeeps ==
  ASSUME SplitType, LogInv, ThreeColumns, StartInv, Convert
  PROVE  TraceInv' /\ CursorInv' /\ FileInv'
<1>1. /\ at = "convert" /\ at' = "split" /\ UNCHANGED <<job, iters, pos, idx, files, zeroed>>
      /\ trace' = [m \in DOMAIN Kept |-> Converted(Kept[m])] /\ Readable = DOMAIN packets
  BY DEF Convert, ThreeColumns
<1>2. /\ job \in SplitJobs /\ Len(packets) \in Nat /\ Len(iters) \in Nat
      /\ \A i \in 1 .. Len(iters) : iters[i].t \in IterIds
  BY <1>1, JobFacts, ItersFacts DEF SplitType, LogInv
<1>3. packets' = packets /\ \A k : Converted(k)' = Converted(k)
  BY <1>1, SameJob
<1>4. Kept = [m \in 1 .. Len(packets) |-> m]
  BY <1>1, <1>2, KeepsAll
<1>5. trace' = [m \in 1 .. Len(packets) |-> Converted(m)]
  BY <1>1, <1>4
<1>6. TraceInv'
  BY <1>3, <1>5 DEF TraceInv
<1>7. pos = 1 /\ idx = 1 /\ zeroed = {} /\ files = [t \in IterIds |-> << >>]
  BY <1>1 DEF StartInv
<1>8. CursorInv'
  BY <1>1, <1>2, <1>3, <1>7 DEF CursorInv
<1>9. /\ << >> \in Seq(SplitTraceLine) /\ Ascends(<< >>) /\ Len(<< >>) = 0
      /\ 1 .. 0 = {}
  BY DEF Ascends
<1>10. /\ files' \in [IterIds -> Seq(SplitTraceLine)]
       /\ \A t \in IterIds : files'[t] = << >>
       /\ pos' - 1 = 0 /\ zeroed' = {}
  BY <1>1, <1>7, <1>9
<1>11. FileInv'
  BY <1>9, <1>10 DEF FileInv
<1> QED
  BY <1>6, <1>8, <1>11

\* A step that leaves the trace, the cursor and the pieces alone.
LEMMA SamePieces ==
  ASSUME TraceInv, CursorInv, FileInv, UNCHANGED <<job, iters, trace, pos, idx, files, zeroed>>,
         at \in {"split", "zero", "done"}, at' = "split" => at = "split",
         at' # "split" => idx = Len(iters) + 1 \/ pos = Len(packets) + 1
  PROVE  TraceInv' /\ CursorInv' /\ FileInv'
<1>1. packets' = packets /\ \A k : Converted(k)' = Converted(k)
  BY SameJob
<1>2. /\ \A i, k : FirstHolds(i, k)' <=> FirstHolds(i, k)
      /\ \A t : TakenOff(t)' = TakenOff(t)
  BY DEF FirstHolds, Holds, TakenOff
<1>3. TraceInv'
  BY <1>1 DEF TraceInv
<1>4. CursorInv'
  BY <1>1 DEF CursorInv
<1>5. FileInv'
  BY <1>2 DEF FileInv
<1> QED
  BY <1>3, <1>4, <1>5

\* Every step keeps the invariant.
LEMMA SplitStep ==
  ASSUME SplitInv, [SplitNext]_splitVars
  PROVE  SplitInv'
<1>1. SplitType /\ LogInv /\ PiecesInv
  BY DEF SplitInv
<1>2. job' = job
  BY DEF SplitNext, splitVars, ReadLog, LogRefused, Convert, ConvertFails, Fail, SplitLine,
         SplitDone, ZeroFile, ZeroDone, SplitStopped
<1>3. at' \in {"log", "convert", "split", "zero", "done", "failed"}
  BY <1>1 DEF SplitType, SplitNext, splitVars, ReadLog, LogRefused, Convert, ConvertFails, Fail,
         SplitLine, SplitDone, ZeroFile, ZeroDone, SplitStopped
<1>4. SplitType'
  BY <1>1, <1>2, <1>3 DEF SplitType
<1>5. LogInv'
  <2>1. LogAccepted' = LogAccepted /\ SortedIters' = SortedIters
    BY <1>2, SameJob
  <2>2. CASE ReadLog
    BY <2>1, <2>2 DEF ReadLog, LogInv
  <2>3. CASE ~ ReadLog
    <3>1. iters' = iters /\ (at' \notin {"log", "failed"} => at \notin {"log", "failed"})
      BY <2>3 DEF SplitNext, splitVars, LogRefused, Convert, ConvertFails, Fail, SplitLine,
                  SplitDone, ZeroFile, ZeroDone, SplitStopped
    <3> QED
      BY <1>1, <2>1, <3>1 DEF LogInv
  <2> QED
    BY <2>2, <2>3
<1>6. PiecesInv'
  <2> SUFFICES ASSUME ThreeColumns'
               PROVE  StartInv' /\ TraceInv' /\ CursorInv' /\ FileInv'
    BY DEF PiecesInv
  <2>1. ThreeColumns /\ StartInv /\ TraceInv /\ CursorInv /\ FileInv
    BY <1>1, <1>2, SameJob DEF PiecesInv
  <2>2. CASE ReadLog \/ LogRefused \/ ConvertFails
    <3>1. /\ at \in {"log", "convert"} /\ at' \in {"convert", "failed"}
          /\ UNCHANGED <<pos, idx, files, zeroed>>
      BY <2>2 DEF ReadLog, LogRefused, ConvertFails, Fail
    <3> QED
      BY <2>1, <3>1 DEF StartInv, TraceInv, CursorInv, FileInv
  <2>3. CASE Convert
    <3>1. StartInv'
      BY <2>3 DEF Convert, StartInv
    <3> QED
      BY <1>1, <2>1, <2>3, <3>1, ConvertKeeps
  <2>4. CASE SplitLine
    <3>1. at = "split" /\ at' \in {"split", "zero"} /\ UNCHANGED <<job, iters, trace>>
      BY <2>4 DEF SplitLine
    <3>2. StartInv'
      BY <3>1 DEF StartInv
    <3>3. TraceInv'
      BY <2>1, <3>1, SameJob DEF TraceInv
    <3> QED
      BY <1>1, <2>1, <2>4, <3>2, <3>3, SplitLineKeeps
  <2>5. CASE \E t \in IterIds : ZeroFile(t)
    <3>1. PICK t \in IterIds : ZeroFile(t)
      BY <2>5
    <3>2. at = "zero" /\ UNCHANGED <<job, at, iters, trace>>
      BY <3>1 DEF ZeroFile
    <3>3. StartInv' /\ TraceInv'
      BY <2>1, <3>2, SameJob DEF StartInv, TraceInv
    <3> QED
      BY <1>1, <2>1, <3>1, <3>3, ZeroFileKeeps
  <2>6. CASE SplitDone \/ ZeroDone
    <3>1. /\ at \in {"split", "zero"} /\ at' \in {"zero", "done"}
          /\ UNCHANGED <<job, iters, trace, pos, idx, files, zeroed>>
          /\ at = "split" => pos = Len(trace) + 1
      BY <2>6 DEF SplitDone, ZeroDone
    <3>2. Len(trace) = Len(packets)
      BY <1>1, <2>1, <3>1, CuttingFacts
    <3>3. idx = Len(iters) + 1 \/ pos = Len(packets) + 1
      BY <2>1, <3>1, <3>2 DEF CursorInv
    <3>4. StartInv'
      BY <3>1 DEF StartInv
    <3> QED
      BY <2>1, <3>1, <3>3, <3>4, SamePieces
  <2>7. CASE UNCHANGED splitVars
    <3>1. /\ at' = at /\ UNCHANGED <<job, iters, trace, pos, idx, files, zeroed>>
      BY <2>7 DEF splitVars
    <3>2. StartInv'
      BY <2>1, <3>1 DEF StartInv
    <3>3. CASE at \in {"split", "zero", "done"}
      <4>1. at # "split" => idx = Len(iters) + 1 \/ pos = Len(packets) + 1
        BY <2>1, <3>3 DEF CursorInv
      <4> QED
        BY <2>1, <3>1, <3>2, <3>3, <4>1, SamePieces
    <3>4. CASE at \notin {"split", "zero", "done"}
      BY <3>1, <3>2, <3>4 DEF TraceInv, CursorInv, FileInv
    <3> QED
      BY <3>3, <3>4
  <2> QED
    BY <2>2, <2>3, <2>4, <2>5, <2>6, <2>7 DEF SplitNext, SplitStopped
<1> QED
  BY <1>4, <1>5, <1>6 DEF SplitInv

\* The invariant holds in every state.
THEOREM SplitInductive == SplitSpec => []SplitInv
<1>1. SplitInit => SplitInv
  BY InitiallySplit
<1>2. SplitInv /\ [SplitNext]_splitVars => SplitInv'
  BY SplitStep
<1> QED
  BY <1>1, <1>2, PTL DEF SplitSpec
-----------------------------------------------------------------------------
(***************************************************************************)
(* What follows from the invariant.                                        *)
(***************************************************************************)

\* The strict and the permissive reader of the log agree on every log that is accepted.
THEOREM ReadersAgree == SplitSpec => []LogReadersAgree
<1>1. ASSUME SplitInv PROVE LogReadersAgree
  <2> SUFFICES ASSUME at \notin {"log", "failed"}
               PROVE  {iters[i] : i \in DOMAIN iters} = ParsedWindows
    BY DEF LogReadersAgree
  <2>1. job \in SplitJobs /\ LogAccepted /\ iters \in SortedIters
    BY <1>1 DEF SplitInv, SplitType, LogInv
  <2>2. {iters[i] : i \in DOMAIN iters} = {IterationOf(t) : t \in Seen("begin")}
    BY <2>1, ItersFacts
  <2> DEFINE W(t) == [t |-> t, begin |-> LastTick("begin", t) \div div,
                      end |-> LastTick("end", t) \div div]
  <2>3. \A t \in Seen("begin") :
          /\ t \in Seen("end") /\ W(t) = IterationOf(t)
          /\ LastTick("begin", t) \div div <= LastTick("end", t) \div div
    BY <2>1, LogFacts DEF IterationOf
  <2>4. ParsedWindows = {W(t) : t \in {t \in Seen("begin") \cap Seen("end") :
                           LastTick("begin", t) \div div <= LastTick("end", t) \div div}}
    BY DEF ParsedWindows
  <2> HIDE DEF W
  <2>5. ParsedWindows = {IterationOf(t) : t \in Seen("begin")}
    BY <2>3, <2>4
  <2> QED
    BY <2>2, <2>5
<1> QED
  BY <1>1, SplitInductive, PTL

\* A piece has as many lines as packets.
LEMMA EachOnce ==
  ASSUME NEW f \in Seq(SplitTraceLine), Ascends(f)
  PROVE  Len(f) = Cardinality(Packeted(f))
<1>1. /\ Len(f) \in Nat /\ DOMAIN f = 1 .. Len(f)
      /\ \A a \in 1 .. Len(f) : f[a].packet \in Nat
  <2>1. \A a \in 1 .. Len(f) : f[a] \in SplitTraceLine
    OBVIOUS
  <2> QED
    BY <2>1 DEF SplitTraceLine
<1> DEFINE b == [a \in 1 .. Len(f) |-> f[a].packet]
<1>2. \A a, c \in 1 .. Len(f) : b[a] = b[c] => a = c
  <2> SUFFICES ASSUME NEW a \in 1 .. Len(f), NEW c \in 1 .. Len(f), a # c
               PROVE  f[a].packet # f[c].packet
    OBVIOUS
  <2>1. a < c \/ c < a
    BY <1>1
  <2> QED
    BY <1>1, <2>1 DEF Ascends
<1>3. b \in [1 .. Len(f) -> Packeted(f)] /\ \A p \in Packeted(f) : \E a \in 1 .. Len(f) : b[a] = p
  BY <1>1 DEF Packeted
<1> HIDE DEF b
<1>4. b \in Bijection(1 .. Len(f), Packeted(f))
  BY <1>2, <1>3 DEF Bijection, Injection, Surjection, IsInjective
<1>5. ExistsBijection(1 .. Len(f), Packeted(f))
  BY <1>4 DEF ExistsBijection
<1>6. IsFiniteSet(1 .. Len(f)) /\ Cardinality(1 .. Len(f)) = Len(f)
  BY <1>1, FS_Interval
<1> QED
  BY <1>5, <1>6, FS_Bijection

\* When the trace is cut, an iteration's piece has the lines it is the first to hold:
\* the lines that were not read come after all iterations.
LEMMA PieceHolds ==
  ASSUME SplitInv, ThreeColumns, at \in {"zero", "done"}, NEW i \in 1 .. Len(iters)
  PROVE  /\ files[iters[i].t] \in Seq(SplitTraceLine) /\ Ascends(files[iters[i].t])
         /\ \A k : k \in Packeted(files[iters[i].t]) <=>
                     k \in 1 .. Len(packets) /\ FirstHolds(i, k)
<1>1. SplitType /\ LogInv /\ TraceInv /\ CursorInv /\ FileInv
  BY DEF SplitInv, PiecesInv
<1>2. /\ Len(iters) \in Nat /\ Len(packets) \in Nat /\ iters[i].t \in IterIds
      /\ iters[i].end \in Nat /\ \A k \in 1 .. Len(packets) : trace[k].cycle \in Nat
      /\ pos \in 1 .. Len(packets) + 1 /\ pos \in Nat
  BY <1>1, CuttingFacts
<1> DEFINE f == files[iters[i].t]
<1>3. /\ f \in Seq(SplitTraceLine) /\ Ascends(f)
      /\ \A a \in 1 .. Len(f) : f[a].packet \in 1 .. pos - 1
      /\ \A k \in 1 .. pos - 1 : k \in Packeted(f) <=> FirstHolds(i, k)
  BY <1>1, <1>2 DEF FileInv
<1> HIDE DEF f
<1>4. ASSUME NEW k \in Packeted(f)
      PROVE  k \in 1 .. Len(packets) /\ FirstHolds(i, k)
  <2>1. PICK a \in 1 .. Len(f) : k = f[a].packet
    BY <1>3 DEF Packeted
  <2>2. k \in 1 .. pos - 1
    BY <1>3, <2>1
  <2> QED
    BY <1>2, <1>3, <2>2
<1>5. ASSUME NEW k \in 1 .. Len(packets), FirstHolds(i, k)
      PROVE  k \in Packeted(f)
  <2>1. trace[k].cycle <= iters[i].end /\ trace[k].cycle \in Nat
    BY <1>2, <1>5 DEF FirstHolds, Holds, InWindow
  <2>2. CASE k < pos
    <3>1. k \in 1 .. pos - 1
      BY <1>2, <2>2
    <3> QED
      BY <1>3, <1>5, <3>1
  <2>3. CASE ~ (k < pos)
    <3>1. k \in pos .. Len(packets) /\ pos # Len(packets) + 1
      BY <1>2, <2>3
    <3>2. idx = Len(iters) + 1
      BY <1>1, <3>1 DEF CursorInv
    <3>3. i \in 1 .. idx - 1
      BY <1>2, <3>2
    <3>4. iters[i].end < trace[k].cycle
      BY <1>1, <3>1, <3>3 DEF CursorInv
    <3> QED
      BY <1>2, <2>1, <3>4
  <2> QED
    BY <2>2, <2>3
<1> QED
  BY <1>3, <1>4, <1>5 DEF f

\* With the converter that writes three columns, each line whose cycle is within an
\* iteration is in the file of the first such iteration, once, and in no other file.
THEOREM PiecesByCycle == SplitSpec => [](ThreeColumns => SplitByCycle)
<1>1. ASSUME SplitInv PROVE ThreeColumns => SplitByCycle
  <2> SUFFICES ASSUME ThreeColumns, at = "zero", NEW i \in DOMAIN iters
               PROVE  /\ Lines(iters[i].t) = {trace[k].packet : k \in
                           {k \in DOMAIN trace : FirstHolds(i, k)}}
                      /\ Len(files[iters[i].t]) = Cardinality(Lines(iters[i].t))
    BY DEF SplitByCycle, FirstHolds
  <2>1. /\ DOMAIN iters = 1 .. Len(iters) /\ DOMAIN trace = 1 .. Len(packets)
        /\ \A k \in 1 .. Len(packets) : trace[k].packet = k
    <3>1. SplitType /\ LogInv /\ TraceInv /\ CursorInv
      BY <1>1 DEF SplitInv, PiecesInv
    <3>2. DOMAIN trace = 1 .. Len(packets)
      BY <3>1 DEF TraceInv
    <3> QED
      BY <3>1, <3>2, CuttingFacts
  <2>2. Lines(iters[i].t) = Packeted(files[iters[i].t])
    BY DEF Lines, Packeted
  <2>3. \A k : k \in Packeted(files[iters[i].t]) <=> k \in 1 .. Len(packets) /\ FirstHolds(i, k)
    BY <1>1, <2>1, PieceHolds
  <2>4. Lines(iters[i].t) = {k \in 1 .. Len(packets) : FirstHolds(i, k)}
    <3> DEFINE P == Packeted(files[iters[i].t])
               H(k) == FirstHolds(i, k)
    <3> HIDE DEF P, H
    <3>1. \A k : k \in P <=> k \in 1 .. Len(packets) /\ H(k)
      BY <2>3 DEF P, H
    <3>2. P = {k \in 1 .. Len(packets) : H(k)}
      BY <3>1
    <3> QED
      BY <2>2, <3>2 DEF P, H
  <2>5. {trace[k].packet : k \in {k \in DOMAIN trace : FirstHolds(i, k)}}
          = {k \in 1 .. Len(packets) : FirstHolds(i, k)}
    <3> DEFINE H(k) == FirstHolds(i, k)
    <3> HIDE DEF H
    <3>1. {trace[k].packet : k \in {k \in DOMAIN trace : H(k)}} = {k \in 1 .. Len(packets) : H(k)}
      BY <2>1
    <3> QED
      BY <3>1 DEF H
  <2>6. Len(files[iters[i].t]) = Cardinality(Lines(iters[i].t))
    <3>1. files[iters[i].t] \in Seq(SplitTraceLine) /\ Ascends(files[iters[i].t])
      BY <1>1, <2>1, PieceHolds
    <3> QED
      BY <2>2, <3>1, EachOnce
  <2> QED
    BY <2>4, <2>5, <2>6
<1> QED
  BY <1>1, SplitInductive, PTL

\* A set of naturals that is not empty has a least element.
LEMMA LeastNatural ==
  ASSUME NEW T \in SUBSET Nat, T # {}
  PROVE  \E n \in T : \A m \in T : n <= m
<1>1. PICK R : R = OpToRel(<, Nat)
  OBVIOUS
<1>2. IsWellFoundedOn(R, Nat)
  BY <1>1, NatLessThanWellFounded
<1>3. PICK n \in T : \A m \in T : ~ (<<m, n>> \in R)
  BY <1>2, WFMin
<1>4. ASSUME NEW m \in T, m < n
      PROVE  FALSE
  <2>1. <<m, n>> \in R
    BY <1>1, <1>4 DEF OpToRel
  <2> QED
    BY <1>3, <2>1
<1>5. \A m \in T : n <= m
  BY <1>4
<1> QED
  BY <1>5

\* If an iteration holds a line, one that is not behind it is the first to hold it.
LEMMA FirstHolder ==
  ASSUME Len(iters) \in Nat, NEW i \in 1 .. Len(iters), NEW k, Holds(i, trace[k])
  PROVE  \E j \in 1 .. Len(iters) : j <= i /\ FirstHolds(j, k)
<1> DEFINE T == {j \in 1 .. Len(iters) : Holds(j, trace[k])}
<1>1. T \in SUBSET Nat /\ i \in T
  OBVIOUS
<1>2. PICK j \in T : \A m \in T : j <= m
  BY <1>1, LeastNatural
<1>3. j \in 1 .. Len(iters) /\ Holds(j, trace[k]) /\ j <= i
  BY <1>1, <1>2
<1>4. ASSUME NEW m \in 1 .. j - 1 PROVE ~ Holds(m, trace[k])
  <2>1. m \in 1 .. Len(iters) /\ ~ (j <= m)
    BY <1>3
  <2> QED
    BY <1>2, <2>1
<1> QED
  BY <1>3, <1>4 DEF FirstHolds

\* A cycle rounded up, against the cycles the log's ticks are rounded down to: a tick
\* up to a multiple of d is rounded to no later cycle, and a tick is no later than the
\* cycle it is rounded to and less than a cycle before it.
LEMMA RoundedUp ==
  ASSUME NEW tick \in Nat, NEW d \in Nat \ {0}, NEW x \in Nat
  PROVE  LET c == (tick + d - 1) \div d
             q == x \div d
         IN  /\ x <= tick => q <= c
             /\ tick <= x - (x % d) => c <= q
             /\ c <= q => tick <= x
             /\ q <= c => x - (x % d) - d < tick
<1>1. PICK y \in Nat : y = tick + d - 1
  OBVIOUS
<1>2. PICK c \in Nat, r \in Nat : c = y \div d /\ r < d /\ y = d * c + r
  BY DivisionFacts
<1>3. PICK q \in Nat, s \in Nat : q = x \div d /\ s = x % d /\ s < d /\ x = d * q + s
  BY DivisionFacts
<1>4. d * c \in Nat /\ d * q \in Nat
  OBVIOUS
<1>5. x <= tick => q <= c
  <2>1. x <= tick => x <= y
    BY <1>1
  <2> QED
    BY <1>2, <1>3, <2>1, DivisionMonotone
<1>6. tick <= x - s => c <= q
  <2>1. ASSUME tick <= x - s PROVE d * c <= d * q + (d - 1) /\ d - 1 \in Nat /\ d - 1 < d
    <3> DEFINE C == d * c  Q == d * q
    <3> HIDE DEF C, Q
    <3>1. C \in Nat /\ Q \in Nat /\ y = C + r /\ x = Q + s
      BY <1>2, <1>3, <1>4 DEF C, Q
    <3>2. C <= Q + (d - 1)
      BY <1>1, <2>1, <3>1
    <3> QED
      BY <3>2 DEF C, Q
  <2> QED
    BY <2>1, Multiples
<1>7. c <= q => tick <= x
  <2>1. ASSUME c <= q PROVE tick <= x
    <3>1. d * c <= d * q
      <4>1. 0 \in Nat /\ 0 < d
        OBVIOUS
      <4> QED
        BY <2>1, <4>1, Multiples
    <3> DEFINE C == d * c  Q == d * q
    <3> HIDE DEF C, Q
    <3>2. C \in Nat /\ Q \in Nat /\ y = C + r /\ x = Q + s /\ C <= Q
      BY <1>2, <1>3, <1>4, <3>1 DEF C, Q
    <3> QED
      BY <1>1, <1>2, <3>2
  <2> QED
    BY <2>1
<1>8. q <= c => x - s - d < tick
  <2>1. ASSUME q <= c PROVE x - s - d < tick
    <3>1. d * q <= d * c
      <4>1. 0 \in Nat /\ 0 < d
        OBVIOUS
      <4> QED
        BY <2>1, <4>1, Multiples
    <3> DEFINE C == d * c  Q == d * q
    <3> HIDE DEF C, Q
    <3>2. C \in Nat /\ Q \in Nat /\ y = C + r /\ x = Q + s /\ Q <= C
      BY <1>2, <1>3, <1>4, <3>1 DEF C, Q
    <3> QED
      BY <1>1, <3>2
  <2> QED
    BY <2>1
<1> QED
  BY <1>1, <1>2, <1>3, <1>5, <1>6, <1>7, <1>8

\* With the converter that writes three columns, a packet sent during an iteration, but
\* not in its last incomplete cycle, is in its file or an earlier one's, and a packet in
\* its file was sent after the cycle before its first one began and before its end.
THEOREM PiecesByClock == SplitSpec => [](ThreeColumns => WithinACycle)
<1>1. ASSUME SplitInv PROVE ThreeColumns => WithinACycle
  <2> SUFFICES ASSUME ThreeColumns, at = "zero",
                      NEW t \in Seen("begin"), NEW k \in DOMAIN packets
               PROVE  LET b == FirstTick("begin", t)  e == FirstTick("end", t)
                          tick == packets[k].tick IN
                      /\ b <= tick /\ tick <= e - (e % div) =>
                           \E i \in DOMAIN iters : /\ k \in Lines(iters[i].t)
                                                   /\ ~ InBeginOrder(IterationOf(t), iters[i])
                      /\ k \in Lines(t) => b - (b % div) - div < tick /\ tick <= e
    BY DEF WithinACycle
  <2>1. job \in SplitJobs /\ LogAccepted /\ iters \in SortedIters /\ TraceInv
    BY <1>1 DEF SplitInv, SplitType, LogInv, PiecesInv
  <2>2. /\ Len(iters) \in Nat /\ DOMAIN iters = 1 .. Len(iters) /\ k \in 1 .. Len(packets)
        /\ packets[k].tick \in Nat /\ div \in Nat \ {0}
    BY <2>1, ItersFacts, JobFacts
  <2>3. /\ trace[k].cycle = (packets[k].tick + div - 1) \div div /\ trace[k].cycle \in Nat
    BY <2>1, <2>2, TraceFacts DEF TraceInv
  <2> DEFINE b == FirstTick("begin", t)
             e == FirstTick("end", t)
             tick == packets[k].tick
             c == trace[k].cycle
  <2>4. /\ b \in Nat /\ e \in Nat
        /\ IterationOf(t).t = t /\ IterationOf(t).begin = b \div div
        /\ IterationOf(t).end = e \div div
        /\ IterationOf(t).begin \in Nat /\ t \in Nat
    BY <2>1, LogFacts
  <2>5. PICK n \in 1 .. Len(iters) : iters[n] = IterationOf(t)
    BY <2>1, ItersFacts
  <2>6. \A i \in 1 .. Len(iters) : \A m : m \in Lines(iters[i].t) <=>
                                       m \in 1 .. Len(packets) /\ FirstHolds(i, m)
    <3>1. \A i \in 1 .. Len(iters) : Lines(iters[i].t) = Packeted(files[iters[i].t])
      BY DEF Lines, Packeted
    <3> QED
      BY <1>1, <3>1, PieceHolds
  <2>7. Holds(n, trace[k]) <=> b \div div <= c /\ c <= e \div div
    BY <2>4, <2>5 DEF Holds, InWindow
  <2> HIDE DEF b, e, tick, c
  <2>8. /\ tick \in Nat /\ c = (tick + div - 1) \div div /\ c \in Nat
        /\ b \div div \in Nat /\ e \div div \in Nat
    BY <2>2, <2>3, <2>4, DivisionFacts DEF tick, c
  <2>9. /\ b <= tick => b \div div <= c
        /\ b \div div <= c => b - (b % div) - div < tick
    BY <2>2, <2>4, <2>8, RoundedUp
  <2>10. /\ tick <= e - (e % div) => c <= e \div div
         /\ c <= e \div div => tick <= e
    BY <2>2, <2>4, <2>8, RoundedUp
  <2>11. ASSUME b <= tick, tick <= e - (e % div)
         PROVE  \E i \in DOMAIN iters : /\ k \in Lines(iters[i].t)
                                        /\ ~ InBeginOrder(IterationOf(t), iters[i])
    <3>1. Holds(n, trace[k])
      BY <2>7, <2>9, <2>10, <2>11
    <3>2. PICK i \in 1 .. Len(iters) : i <= n /\ FirstHolds(i, k)
      BY <2>2, <3>1, FirstHolder
    <3>3. k \in Lines(iters[i].t)
      BY <2>2, <2>6, <3>2
    <3>4. iters[i].begin \in Nat /\ iters[i].t \in Nat /\ iters[n].begin \in Nat /\ iters[n].t \in Nat
      BY <2>1, <2>4, <2>5, ItersFacts, JobFacts
    <3>5. i = n \/ InBeginOrder(iters[i], iters[n])
      <4>1. i = n \/ i < n
        BY <3>2
      <4> QED
        BY <2>1, <3>2, <4>1, ItersFacts
    <3>6. ~ InBeginOrder(iters[n], iters[i])
      BY <3>4, <3>5 DEF InBeginOrder
    <3> QED
      BY <2>2, <2>5, <3>3, <3>6
  <2>12. ASSUME k \in Lines(t)
         PROVE  b - (b % div) - div < tick /\ tick <= e
    <3>1. FirstHolds(n, k)
      BY <2>4, <2>5, <2>6, <2>12
    <3> QED
      BY <2>7, <2>9, <2>10, <3>1 DEF FirstHolds
  <2> QED
    BY <2>11, <2>12 DEF b, e, tick
<1> QED
  BY <1>1, SplitInductive, PTL

\* With the converter that writes three columns, a normalised piece starts at cycle 0,
\* keeps the distances of its lines, and ends within its iteration's length.
THEOREM PiecesFit == SplitSpec => [](ThreeColumns => ZeroedFits)
<1>1. ASSUME SplitInv PROVE ThreeColumns => ZeroedFits
  <2> DEFINE cyc(l) == Cycle(job.converter, packets[l.packet].tick)
  <2> SUFFICES ASSUME ThreeColumns, NEW i \in DOMAIN iters,
                      iters[i].t \in zeroed, files[iters[i].t] # << >>
               PROVE  LET f == files[iters[i].t] IN
                      /\ f[1].cycle = 0
                      /\ \A k \in DOMAIN f : f[k].cycle <= iters[i].end - iters[i].begin
                      /\ \A k, m \in DOMAIN f : f[m].cycle - f[k].cycle = cyc(f[m]) - cyc(f[k])
    BY DEF ZeroedFits
  <2>1. SplitType /\ LogInv /\ StartInv /\ TraceInv /\ CursorInv /\ FileInv
    BY <1>1 DEF SplitInv, PiecesInv
  <2>2. at \in {"zero", "done"}
    BY <2>1 DEF SplitType, StartInv, FileInv
  <2>3. /\ job \in SplitJobs /\ Len(iters) \in Nat /\ Len(packets) \in Nat
        /\ i \in 1 .. Len(iters) /\ iters[i].t \in IterIds
        /\ iters[i].begin \in Nat /\ iters[i].end \in Nat
        /\ \A k \in 1 .. Len(packets) : trace[k].cycle \in Nat
        /\ \A k \in 1 .. Len(packets) : trace[k].cycle = Cycle(job.converter, packets[k].tick)
    <3>1. \A k \in 1 .. Len(packets) : trace[k].cycle = Cycle(job.converter, packets[k].tick)
      BY <2>1, <2>2, TraceFacts DEF TraceInv, SplitType
    <3> QED
      BY <2>1, <2>2, <3>1, CuttingFacts
  <2> DEFINE f == files[iters[i].t]
             c == trace[f[1].packet].cycle
  <2>4. /\ f \in Seq(SplitTraceLine) /\ f # << >>
        /\ \A a \in 1 .. Len(f) : f[a].cycle = trace[f[a].packet].cycle - c
    BY <2>1, <2>2, <2>3 DEF FileInv, TakenOff
  <2>5. \A k : k \in Packeted(f) => k \in 1 .. Len(packets) /\ FirstHolds(i, k)
    BY <1>1, <2>2, <2>3, PieceHolds
  <2> HIDE DEF f
  <2>6. Len(f) \in Nat /\ DOMAIN f = 1 .. Len(f) /\ 1 \in DOMAIN f
    <3>1. Len(f) \in Nat /\ DOMAIN f = 1 .. Len(f) /\ Len(f) # 0
      BY <2>4, EmptySeq, LenProperties
    <3> QED
      BY <3>1
  <2>7. ASSUME NEW a \in DOMAIN f
        PROVE  /\ trace[f[a].packet].cycle \in Nat /\ trace[f[a].packet].cycle = cyc(f[a])
               /\ f[a].cycle = trace[f[a].packet].cycle - c
               /\ iters[i].begin <= trace[f[a].packet].cycle
               /\ trace[f[a].packet].cycle <= iters[i].end
    <3>1. f[a].packet \in 1 .. Len(packets) /\ FirstHolds(i, f[a].packet)
      BY <2>5 DEF Packeted
    <3>2. Holds(i, trace[f[a].packet])
      BY <3>1 DEF FirstHolds
    <3> QED
      BY <2>3, <2>4, <2>6, <3>1, <3>2 DEF Holds, InWindow
  <2> HIDE DEF cyc
  <2>8. c \in Nat /\ iters[i].begin <= c
    BY <2>6, <2>7
  <2>9. f[1].cycle = 0
    BY <2>6, <2>7, <2>8
  <2> HIDE DEF c
  <2>10. \A k \in DOMAIN f : f[k].cycle <= iters[i].end - iters[i].begin
    BY <2>3, <2>7, <2>8
  <2>11. ASSUME NEW k \in DOMAIN f, NEW m \in DOMAIN f
         PROVE  f[m].cycle - f[k].cycle = cyc(f[m]) - cyc(f[k])
    BY <2>7, <2>8
  <2> QED
    BY <2>9, <2>10, <2>11 DEF f
<1> QED
  BY <1>1, SplitInductive, PTL
=============================================================================

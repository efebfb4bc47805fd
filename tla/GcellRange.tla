----------------------------- MODULE GcellRange -----------------------------
(***************************************************************************)
(* Where the g_cells array lies in a trace.  The workload logs the virtual *)
(* address of every cell it touches; the trace has physical addresses, and *)
(* the offset between the two is given or guessed: of a few candidates the *)
(* one under which most entries of the trace fall into the array.  The two *)
(* rewriters search for it in two ways.                                    *)
(***************************************************************************)
EXTENDS TraceWindows

CONSTANT Deltas  \* the offsets tried before the negated start of the array

ASSUME DeltasAssumption == Deltas \in Seq(Int)

Greatest(S) == CHOOSE n \in S : \A k \in S : k <= n
Least(S) == CHOOSE n \in S : \A k \in S : n <= k

\* parse_gcell_range, on the GCELL lines of all logs: records of base, addr and
\* size.
VirtualStart(log) == log[1].base
VirtualEnd(log) == Greatest({0} \cup {log[k].addr + log[k].size : k \in DOMAIN log})
RangeFound(log) ==
  /\ log # << >>
  /\ \A k \in DOMAIN log : log[k].base = log[1].base
  /\ VirtualStart(log) < VirtualEnd(log)

\* explicit is --trace-address-delta: << >> or << delta >>.
Candidates(log, explicit) ==
  IF explicit = << >> THEN Append(Deltas, - VirtualStart(log)) ELSE explicit

\* The candidates that are tried: the array does not begin below address 0 (nor is
\* it empty).
Tried(log, delta) ==
  LET lo == VirtualStart(log) + delta
      hi == VirtualEnd(log) + delta
  IN lo >= 0 /\ lo < hi

InArray(log, delta, line) ==
  /\ VirtualStart(log) + delta <= line.addr
  /\ line.addr < VirtualEnd(log) + delta

\* choose_delta of the streaming rewriter.  It has a dictionary with a counter for
\* each offset that is tried, a repeated one once ...
Keys(log, candidates) ==
  {d \in {candidates[k] : k \in DOMAIN candidates} : Tried(log, d)}

\* ... reads the trace once, and with each line moves on every counter whose range
\* the address is in (after: the dictionary when n lines have been read) ...
Counters(trace, log, keys) ==
  LET after[n \in 0 .. Len(trace)] ==
        IF n = 0 THEN [d \in keys |-> 0]
        ELSE [d \in keys |->
                after[n - 1][d]
                + (IF IsEntry(trace[n]) /\ InArray(log, d, trace[n]) THEN 1 ELSE 0)]
  IN after[Len(trace)]

\* ... and takes Python's max: among the keys with the greatest counter the one that
\* was inserted first.  A key inserted again keeps its place.
Place(candidates, d) == Least({k \in DOMAIN candidates : candidates[k] = d})
MaxKey(counters, candidates) ==
  CHOOSE d \in DOMAIN counters : \A e \in DOMAIN counters :
    \/ counters[e] < counters[d]
    \/ counters[e] = counters[d] /\ Place(candidates, d) <= Place(candidates, e)

\* No key is an error.
StreamRefused(log, explicit) ==
  ~ (RangeFound(log) /\ Keys(log, Candidates(log, explicit)) # {})
StreamCounters(trace, log, explicit) ==
  Counters(trace, log, Keys(log, Candidates(log, explicit)))
StreamDelta(trace, log, explicit) ==
  MaxKey(StreamCounters(trace, log, explicit), Candidates(log, explicit))
StreamMatched(trace, log, explicit) ==
  StreamCounters(trace, log, explicit)[StreamDelta(trace, log, explicit)]

\* Fault: of candidates with the same count the last is taken.
BetterOrEqual(count, best) == count >= best.count

\* choose_delta of the batch rewriter.  For one candidate after the other it goes over
\* all entries, and keeps the candidate if it is better than the best before (best:
\* best_delta and best_count after k candidates).
Better(count, best) == count > best.count
BatchSearch(trace, log, candidates) ==
  LET best[k \in 0 .. Len(candidates)] ==
        IF k = 0 THEN [delta |-> candidates[1], count |-> -1]
        ELSE LET count == Cardinality({i \in Entries(trace) :
                                         InArray(log, candidates[k], trace[i])})
             IN IF Tried(log, candidates[k]) /\ Better(count, best[k - 1])
                THEN [delta |-> candidates[k], count |-> count]
                ELSE best[k - 1]
  IN best[Len(candidates)]

\* If none is tried it is the first one, with no hits.  A trace without entries is
\* refused before, in parse_trace.
BatchRefused(trace, log) == ~ (Entries(trace) # {} /\ RangeFound(log))
BatchDelta(trace, log, explicit) ==
  BatchSearch(trace, log, Candidates(log, explicit)).delta
BatchMatched(trace, log, explicit) ==
  Greatest({0, BatchSearch(trace, log, Candidates(log, explicit)).count})
=============================================================================

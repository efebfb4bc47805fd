--------------------------- MODULE BothRewriters ---------------------------
(***************************************************************************)
(* The two AMR rewriters on the same input, each from its main: find the   *)
(* g_cells array in the trace, then rewrite -- first the streaming one,    *)
(* then the batch one.  They are written for the same purpose, one for     *)
(* traces that do not fit in memory; this module says what they, and the   *)
(* tools used with them, agree on.                                         *)
(***************************************************************************)
EXTENDS BatchRewriter, GcellOnly

CONSTANTS
  Inputs,     \* a trace, its windows, the GCELL lines of the logs (log), and
              \* --trace-address-delta (explicit), << >> if not given
  WindowIds   \* the iteration ids that occur in Inputs

ASSUME IdsAssumption == WindowIds \subseteq Nat

ASSUME InputsAssumption ==
  \A in \in Inputs : /\ in.trace \in Seq(Line)
                     /\ in.windows \in Seq(Windows(WindowIds))
                     /\ SortedById(in.windows) /\ Successive(in.windows)
                     /\ in.log \in Seq([base : Nat, addr : Nat, size : Nat])
                     /\ in.explicit \in Seq(Int) /\ Len(in.explicit) <= 1

VARIABLES given, streamJob, run, pc, pos, cur, next, active, reads, writes, temp, out,
          counts, perWindow

streamVars == <<streamJob, run, pc, pos, cur, next, active, reads, writes, temp, out,
                counts, perWindow>>
bothVars == <<given, batchVars, streamVars>>

\* The parameters rewrite_streaming and rewrite_trace are called with.
Call(in, delta) == [trace |-> in.trace, windows |-> in.windows,
                    start |-> VirtualStart(in.log) + delta,
                    end |-> VirtualEnd(in.log) + delta]
NoCall(in) == [trace |-> in.trace, windows |-> in.windows, start |-> 0, end |-> 0]

StreamCall(in) ==
  IF StreamRefused(in.log, in.explicit) THEN NoCall(in)
  ELSE Call(in, StreamDelta(in.trace, in.log, in.explicit))
BatchCall(in) ==
  IF BatchRefused(in.trace, in.log) THEN NoCall(in)
  ELSE Call(in, BatchDelta(in.trace, in.log, in.explicit))

\* The streaming rewriter, not killed.
StreamCalls == {StreamCall(in) : in \in Inputs}
Stream == INSTANCE StreamRewriter WITH
  Jobs <- StreamCalls, MaxRuns <- 1, job <- streamJob

StreamRefuses == StreamRefused(given.log, given.explicit)
BatchRefuses == BatchRefused(given.trace, given.log)
StreamEnded == StreamRefuses \/ pc = "done"
BothEnded == StreamEnded /\ (BatchRefuses \/ step = "done")

BothInit ==
  /\ given \in Inputs
  /\ streamJob = StreamCall(given) /\ Stream!FirstStart
  /\ job = BatchCall(given) /\ BatchStart

StreamStep == ~ StreamRefuses /\ Stream!Step /\ UNCHANGED <<given, batchVars>>
BatchStep ==
  StreamEnded /\ ~ BatchRefuses /\ Step /\ UNCHANGED <<given, streamVars>>
BothStopped == BothEnded /\ UNCHANGED bothVars

BothNext == StreamStep \/ BatchStep \/ BothStopped

BothSpec == BothInit /\ [][BothNext]_bothVars
-----------------------------------------------------------------------------
BothDone == pc = "done" /\ step = "done"

\* On a trace in cycle order and without gaps the rewriters agree on every
\* entry: the same requests are buffered, they get the same cycle -- except that
\* the batch rewriter puts the writes of a window one cycle after its reads, if it
\* has any -- each phase of each window is in the same order, and the summaries
\* count the same requests as outside.  So they do not disagree on which of two
\* windows a line on their common cycle is in, although one has a cursor and the
\* other searches (lines 116-119 and 150-155).
Delay(i) ==
  IF \E w \in 1 .. NWindows : i \in Writes(w) /\ Reads(w) # {} THEN 1 ELSE 0
SamePhase(i, j) ==
  \E w \in 1 .. NWindows : {i, j} \subseteq Reads(w) \/ {i, j} \subseteq Writes(w)
RewritersAgree ==
  /\ BothDone /\ streamJob = job
  /\ InCycleOrder(trace) /\ gap = [issue |-> 0, phase |-> 0]
  => /\ \A k \in DOMAIN out, m \in DOMAIN output :
          out[k].idx = output[m].idx => output[m].cycle = out[k].cycle + Delay(out[k].idx)
     /\ \A k, l \in DOMAIN out, m, n \in DOMAIN output :
          /\ out[k].idx = output[m].idx /\ out[l].idx = output[n].idx
          /\ SamePhase(out[k].idx, out[l].idx)
          => (k < l <=> m < n)
     /\ counts.outside = outside

\* Whenever both rewriters run they take the same range.  One reads the trace once,
\* with a dictionary of counters, and takes the first of the greatest; the other reads
\* it once for each candidate, comparing as it goes: they must agree on ties, on
\* candidates that occur twice and on those that are not tried.  And the hits each puts
\* into its summary as candidate_matched_entries are the g_cells entries that its
\* rewriting then finds (lines 97-116 and 129-147).
RangesAgree ==
  BothDone =>
    /\ streamJob = job
    /\ StreamMatched(trace, given.log, given.explicit) = counts.gcell
    /\ BatchMatched(trace, given.log, given.explicit) = Cardinality(Bucketed) + outside

Original == GcellOriginal(trace, given.log, given.explicit)
Optimistic == GcellOptimistic(trace, given.log, given.explicit)

\* The g_cells-only tool, which finds its range on its own (gcell_only_traces.py 31-36),
\* next to the rewriters.  If the offset is given, as run_experiment.py does it (223 and
\* 253), its traces are of the entries that the rewriting counts.  If it is not, the
\* tool takes its default where the rewriters guess, and its range may be another one,
\* even one below address 0; but the guess is the better one: it never has more of them
\* than the rewriting.  In any case the trace as recorded has no negative cycle, and the
\* optimistic one has two requests of one burst in the burst's order.
GcellOnlyAgrees ==
  BothDone /\ InCycleOrder(trace) =>
    /\ given.explicit # << >> =>
         /\ GcellOnlyRefused(trace, given.log, given.explicit) <=> counts.gcell = 0
         /\ Len(Original) = counts.gcell /\ Len(Optimistic) = counts.gcell
    /\ Len(Original) <= counts.gcell
    /\ \A k \in DOMAIN Original : Original[k].cycle >= 0
    /\ \A k, l \in DOMAIN out, m, n \in DOMAIN Optimistic :
         /\ out[k].idx = Optimistic[m].idx /\ out[l].idx = Optimistic[n].idx
         /\ \E w \in 1 .. NWindows : {out[k].idx, out[l].idx} \subseteq bucket[w]
         => (k < l <=> m < n)

\* The number of cycles the AMR driver has DRAMsim3 simulate is read off the last
\* line of a trace, that of the PageRank driver off all lines.  It is the same for
\* the outputs, and the g_cells-only traces, of a trace in cycle order: no request
\* is cut off (run_experiment.py 51-65).
FinalCyclesAgree ==
  BothDone /\ InCycleOrder(trace) =>
    \A lines \in {out, output, Original, Optimistic} :
      lines # << >> => FinalCycleOfLast(lines) = FinalCycleOfAll(lines)
=============================================================================

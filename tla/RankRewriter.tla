---------------------------- MODULE RankRewriter ----------------------------
(***************************************************************************)
(* The two PageRank trace rewriters of buffering_experiment/               *)
(* run_experiment.py.  Both are one pass over the trace with a cursor into *)
(* the iteration windows.  rewrite_targeted absorbs the reads of the rank  *)
(* arrays and the writes of the array the window's iteration produces, and *)
(* spills the window's other lines to a file.  rewrite_blind absorbs every *)
(* read and write, and may space a burst's requests by issue_gap cycles.   *)
(***************************************************************************)
EXTENDS TraceWindows

CONSTANTS
  RankJobs, \* inputs of a run: a trace, its windows, and how to rewrite it
  Regions   \* parse_regions: the bounds of rank_a and of rank_b in the trace

ASSUME RankJobsAssumption ==
  \A j \in RankJobs : /\ j.trace \in Seq(Line)
                      /\ j.windows \in Seq(Windows(Nat)) /\ Successive(j.windows)
                      /\ j.how \in [method : {"targeted", "blind"}, gap : Nat]

VARIABLES
  trace, windows, \* the input
  how,            \* the rewriter ("targeted" or "blind") and its issue_gap
  pc,             \* "read", "line", "tail" or "done", as in StreamRewriter
  pos, cur, next, \* the line the loop is at; cur; nxt
  temp,           \* lines in the window's file, which is there if any
  reads, writes,  \* the line numbers in the lists of those names
  out,            \* out_f
  perWindow       \* per_window

input == <<trace, windows, how>>
rankVars == <<input, pc, pos, cur, next, temp, reads, writes, out, perWindow>>

NWindows == Len(windows)

\* A line of the output or of the file: its number in the trace, its cycle.
Emit(i, cycle) == [idx |-> i, cycle |-> cycle]
Copied(i) == Emit(i, trace[i].cycle)

-----------------------------------------------------------------------------
InRange(addr, range) == range.lo <= addr /\ addr < range.hi
InRank(addr) == InRange(addr, Regions.rank_a) \/ InRange(addr, Regions.rank_b)

\* Fault: the parity is the wrong way round.
OldRangeForIter(id) == IF id % 2 = 0 THEN Regions.rank_a ELSE Regions.rank_b

\* dest_range_for_iter: iteration 0 reads rank_a and writes rank_b.
DestRangeForIter(id) == IF id % 2 = 0 THEN Regions.rank_b ELSE Regions.rank_a

Absorbed(line) ==
  IF how.method = "blind" THEN line.op \in {"READ", "WRITE"}
  ELSE \/ line.op = "READ" /\ InRank(line.addr)
       \/ line.op = "WRITE" /\ InRange(line.addr, DestRangeForIter(windows[cur].id))

InCurrent(cycle) == cur <= NWindows /\ InWindow(windows[cur], cycle)

RewriterStart ==
  /\ pc = "read" /\ pos = 1 /\ cur = 1 /\ next = 1
  /\ temp = << >> /\ reads = << >> /\ writes = << >>
  /\ out = << >> /\ perWindow = << >>

Init ==
  /\ \E job \in RankJobs : trace = job.trace /\ windows = job.windows /\ how = job.how
  /\ RewriterStart

SkipBlank ==
  /\ pc = "read" /\ pos <= Len(trace)
  /\ ~ IsEntry(trace[pos])
  /\ pos' = pos + 1
  /\ UNCHANGED <<input, pc, cur, next, temp, reads, writes, out, perWindow>>

\* advance_window.
Advances(cycle, from, to) ==
  /\ \A k \in from .. to - 1 : cycle > windows[k].end
  /\ to <= NWindows => cycle <= windows[to].end

ReadEntry ==
  /\ pc = "read" /\ pos <= Len(trace)
  /\ IsEntry(trace[pos])
  /\ pc' = "line"
  /\ next' \in {n \in cur .. NWindows + 1 : Advances(trace[pos].cycle, cur, n)}
  /\ UNCHANGED <<input, pos, cur, temp, reads, writes, out, perWindow>>

ReadsThenWrites == SortedSeq(trace, reads) \o SortedSeq(trace, writes)

\* Fault: the burst is sent when the window ends.
BurstAtEnd ==
  LET p == ReadsThenWrites
  IN [k \in DOMAIN p |-> Emit(p[k], windows[cur].end + (k - 1) * how.gap)]

\* The burst of flush_targeted (all at the window's first cycle, as issue_gap is
\* 0 for it) and of flush_blind.
Burst ==
  LET p == ReadsThenWrites
  IN [k \in DOMAIN p |-> Emit(p[k], windows[cur].begin + (k - 1) * how.gap)]

\* Fault: the file of the window is not copied.
FlushBurstOnly ==
  /\ out' = out \o Burst
  /\ perWindow' = Append(perWindow, [id |-> windows[cur].id, reads |-> Len(reads),
                                     writes |-> Len(writes)])
  /\ temp' = << >> /\ reads' = << >> /\ writes' = << >>
  /\ cur' = cur + 1
  /\ UNCHANGED <<input, pc, pos, next>>

\* One round of a flush loop.  The blind rewriter has no file; its temp is empty.
Flush ==
  /\ out' = out \o Burst \o temp
  /\ perWindow' = Append(perWindow, [id |-> windows[cur].id, reads |-> Len(reads),
                                     writes |-> Len(writes)])
  /\ temp' = << >> /\ reads' = << >> /\ writes' = << >>
  /\ cur' = cur + 1
  /\ UNCHANGED <<input, pc, pos, next>>

FlushPassed == pc = "line" /\ cur < next /\ Flush

Spills(line) == how.method = "targeted" /\ InCurrent(line.cycle) /\ ~ Absorbed(line)

PlaceEntry ==
  LET line == trace[pos] IN
  /\ pc = "line" /\ cur = next
  /\ \/ /\ InCurrent(line.cycle) /\ Absorbed(line)
        /\ \/ line.op = "READ" /\ reads' = Append(reads, pos) /\ UNCHANGED writes
           \/ line.op = "WRITE" /\ writes' = Append(writes, pos) /\ UNCHANGED reads
        /\ UNCHANGED <<temp, out>>
     \/ /\ Spills(line)
        /\ temp' = Append(temp, Copied(pos))
        /\ UNCHANGED <<reads, writes, out>>
     \/ /\ ~ (InCurrent(line.cycle) /\ Absorbed(line)) /\ ~ Spills(line)
        /\ out' = Append(out, Copied(pos))
        /\ UNCHANGED <<reads, writes, temp>>
  /\ pc' = "read" /\ pos' = pos + 1
  /\ UNCHANGED <<input, cur, next, perWindow>>

EndOfTrace ==
  /\ pc = "read" /\ pos = Len(trace) + 1
  /\ pc' = "tail"
  /\ UNCHANGED <<input, pos, cur, next, temp, reads, writes, out, perWindow>>

FlushTail == pc = "tail" /\ cur <= NWindows /\ Flush

Finish ==
  /\ pc = "tail" /\ cur = NWindows + 1
  /\ pc' = "done"
  /\ UNCHANGED <<input, pos, cur, next, temp, reads, writes, out, perWindow>>

Step == SkipBlank \/ ReadEntry \/ FlushPassed \/ PlaceEntry
        \/ EndOfTrace \/ FlushTail \/ Finish
-----------------------------------------------------------------------------
(* What the rewriters promise. *)

\* What the promise of WindowBuffer is about.
Idxs(s) == {s[k] : k \in DOMAIN s}
Indices(lines) == [k \in DOMAIN lines |-> lines[k].idx]
Buffer == INSTANCE WindowBuffer WITH
  input <- Entries(trace),
  todo <- {i \in Entries(trace) : i >= pos},
  held <- Idxs(reads) \cup Idxs(writes) \cup Idxs(Indices(temp)),
  sent <- Indices(out)

\* The output of a trace in cycle order is in cycle order, if the burst is free and
\* the blind rewriter is given reads and writes only: although a window is written
\* in up to three parts, nothing passes a boundary (lines 117-124, 165-179,
\* 232-237).  With a gap a burst may end after its window; the blind rewriter sends
\* another command at once, before the burst of its window.
OnlyRequests == \A i \in Entries(trace) : trace[i].op \in {"READ", "WRITE"}
OutputInCycleOrder ==
  /\ how.gap = 0 /\ (how.method = "blind" => OnlyRequests)
  /\ InCycleOrder(trace)
  => InCycleOrder(out)
=============================================================================

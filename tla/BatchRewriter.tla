--------------------------- MODULE BatchRewriter ---------------------------
(***************************************************************************)
(* The batch AMR trace rewriter, rewrite_trace of                          *)
(* optimistic_buffer_trace.py: the whole trace is in memory; g_cells       *)
(* requests are put into one bucket per window, the buckets get new cycles *)
(* -- the reads from the window's first cycle on, issue_gap apart, the     *)
(* writes after them -- and everything is sorted by cycle.                 *)
(***************************************************************************)
EXTENDS TraceWindows

CONSTANT Gaps  \* the pairs of --issue-gap and --phase-gap a run may be given

ASSUME GapsAssumption == Gaps \subseteq [issue : Nat, phase : Nat]

VARIABLES
  job,       \* the input: a trace, its windows, and the bounds of the g_cells
             \* array in the trace; whoever starts the rewriter chooses it
  gap,       \* the options
  step,      \* "bucket" the entries, "emit" the buckets, "sort", "done"
  entry,     \* the line the first loop is at
  win,       \* the window the second loop is at
  bucket,    \* window_buckets: the numbers of the lines of each window
  output,    \* the list of entries to be written
  outside    \* outside_gcell

batchVars == <<job, gap, step, entry, win, bucket, output, outside>>

trace == job.trace
windows == job.windows
NWindows == Len(windows)

\* An entry of the output: its number in the trace and its present cycle.
OutEntry == [idx : Nat \ {0}, cycle : Int]
At(i, cycle) == [idx |-> i, cycle |-> cycle]

IsGcell(line) == job.start <= line.addr /\ line.addr < job.end

-----------------------------------------------------------------------------
\* What rewrite_trace starts from.
BatchStart ==
  /\ gap \in Gaps
  /\ step = "bucket" /\ entry = 1 /\ win = 1
  /\ bucket = [w \in 1 .. NWindows |-> {}]
  /\ output = << >> /\ outside = 0

\* Blank lines and comments are not entries.
SkipLine ==
  /\ step = "bucket" /\ entry <= Len(trace)
  /\ ~ IsEntry(trace[entry])
  /\ entry' = entry + 1
  /\ UNCHANGED <<job, gap, step, win, bucket, output, outside>>

\* Fault: a window's last cycle is not part of it.
GoesToHalfOpen(line, w) ==
  /\ IsGcell(line) /\ line.op \in {"READ", "WRITE"}
  /\ IsWindowForCycle(windows, line.cycle, w) /\ line.cycle < windows[w].end

GoesTo(line, w) ==
  /\ IsGcell(line) /\ line.op \in {"READ", "WRITE"}
  /\ IsWindowForCycle(windows, line.cycle, w)

BucketEntry ==
  /\ step = "bucket" /\ entry <= Len(trace)
  /\ IsEntry(trace[entry])
  /\ \/ \E w \in 1 .. NWindows :
          /\ GoesTo(trace[entry], w)
          /\ bucket' = [bucket EXCEPT ![w] = @ \cup {entry}]
          /\ UNCHANGED <<output, outside>>
     \/ /\ \A w \in 1 .. NWindows : ~ GoesTo(trace[entry], w)
        /\ output' = Append(output, At(entry, trace[entry].cycle))
        /\ outside' = IF IsGcell(trace[entry]) THEN outside + 1 ELSE outside
        /\ UNCHANGED bucket
  /\ entry' = entry + 1
  /\ UNCHANGED <<job, gap, step, win>>

BucketsFull ==
  /\ step = "bucket" /\ entry = Len(trace) + 1
  /\ step' = "emit"
  /\ UNCHANGED <<job, gap, entry, win, bucket, output, outside>>

Reads(w) == {i \in bucket[w] : trace[i].op = "READ"}
Writes(w) == {i \in bucket[w] : trace[i].op = "WRITE"}

\* assign_dense_cycles.
Dense(p, start) == [k \in DOMAIN p |-> At(p[k], start + (k - 1) * gap.issue)]

\* Fault: the write phase does not wait for the read phase.
WriteStartAtOnce(w) == windows[w].begin

\* The write phase starts after the last read: with both gaps 0, one cycle after.
WriteStart(w) ==
  IF Reads(w) = {} THEN windows[w].begin
  ELSE windows[w].begin + (Cardinality(Reads(w)) - 1) * gap.issue
       + gap.phase + (IF gap.issue > 1 THEN gap.issue ELSE 1)

\* Fault: a bucket without reads is skipped, and its writes with it.
EmitWindowWithReads ==
  /\ step = "emit" /\ win <= NWindows
  /\ \E r \in Sorted(trace, Reads(win)), w \in Sorted(trace, Writes(win)) :
       output' = IF r = << >> THEN output
                 ELSE output \o Dense(r, windows[win].begin) \o Dense(w, WriteStart(win))
  /\ win' = win + 1
  /\ UNCHANGED <<job, gap, step, entry, bucket, outside>>

EmitWindow ==
  /\ step = "emit" /\ win <= NWindows
  /\ \E r \in Sorted(trace, Reads(win)), w \in Sorted(trace, Writes(win)) :
       output' = output \o Dense(r, windows[win].begin) \o Dense(w, WriteStart(win))
  /\ win' = win + 1
  /\ UNCHANGED <<job, gap, step, entry, bucket, outside>>

BucketsEmitted ==
  /\ step = "emit" /\ win = NWindows + 1
  /\ step' = "sort"
  /\ UNCHANGED <<job, gap, entry, win, bucket, output, outside>>

\* The key of the last sort: cycle, reads first, address, line number.
Phase(i) == IF trace[i].op = "READ" THEN 0 ELSE 1
SortsBefore(a, b) ==
  \/ a.cycle < b.cycle
  \/ /\ a.cycle = b.cycle
     /\ \/ Phase(a.idx) < Phase(b.idx)
        \/ Phase(a.idx) = Phase(b.idx) /\ Before(trace, a.idx, b.idx)

\* The orders in which the sort may leave the output: one, as no two entries have
\* the same key.
SortedOutputs ==
  {[k \in DOMAIN output |-> output[p[k]]] :
     p \in {p \in Arrangements(DOMAIN output) :
             \A k, m \in DOMAIN p : k < m => ~ SortsBefore(output[p[m]], output[p[k]])}}

SortOutput ==
  /\ step = "sort"
  /\ output' \in SortedOutputs
  /\ step' = "done"
  /\ UNCHANGED <<job, gap, entry, win, bucket, outside>>

Step == SkipLine \/ BucketEntry \/ BucketsFull \/ EmitWindow \/ BucketsEmitted \/ SortOutput
-----------------------------------------------------------------------------
(* What the rewriter promises. *)

Bucketed == UNION {bucket[w] : w \in 1 .. NWindows}
Positions(i) == {k \in DOMAIN output : output[k].idx = i}

\* The output has every entry of the trace once, and the summary's counts of
\* g_cells requests are those of the output: what is not outside was given a
\* place in a window (lines 190-196, 228-236).
Conservation ==
  step = "done" =>
    /\ \A i \in Entries(trace) : Cardinality(Positions(i)) = 1
    /\ Len(output) = Cardinality(Entries(trace))
    /\ Cardinality(Bucketed)
         = Cardinality({i \in Entries(trace) : IsGcell(trace[i])}) - outside

\* Every burst is over when its window is.
BurstsFit ==
  \A w \in 1 .. NWindows, k \in DOMAIN output :
    output[k].idx \in bucket[w] => output[k].cycle <= windows[w].end

\* The dependences the batch rewriter keeps, among all requests to one address,
\* as long as the bursts fit in their windows: write after write, write after
\* read, and read after write unless both are in the same window or end up in the
\* same cycle (there the final sort puts the read first).
SameWindow(i, j) == \E w \in 1 .. NWindows : {i, j} \subseteq bucket[w]
DependencesKept ==
  step = "done" /\ InCycleOrder(trace) /\ BurstsFit =>
    \A k, m \in DOMAIN output :
      LET i == output[k].idx  j == output[m].idx IN
      /\ i < j /\ trace[i].addr = trace[j].addr
      /\ {trace[i].op, trace[j].op} \subseteq {"READ", "WRITE"}
      /\ "WRITE" \in {trace[i].op, trace[j].op}
      /\ trace[j].op = "READ" =>
           ~ SameWindow(i, j) /\ output[k].cycle # output[m].cycle
      => k < m
=============================================================================

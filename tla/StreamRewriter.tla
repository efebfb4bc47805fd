--------------------------- MODULE StreamRewriter ---------------------------
(***************************************************************************)
(* The streaming AMR trace rewriter, optimistic_buffer_trace_stream.py.    *)
(*                                                                         *)
(* One pass over the trace with a cursor `cur` into the iteration windows. *)
(* READs and WRITEs of the g_cells array that fall in the current window   *)
(* are buffered in memory; the window's other lines are spilled to a file  *)
(* in .tmp_windows, named after the window's id; everything else goes to   *)
(* the output at once.  When a line passes the end of the window, the      *)
(* window is flushed: its reads, then its writes, all at the window's      *)
(* first cycle, then a copy of the spill file, which is deleted.           *)
(*                                                                         *)
(* The process can be killed between any two steps.  Then memory is gone,  *)
(* but .tmp_windows is not: it is removed only at the end of a run, and    *)
(* the next run does not clear it.                                         *)
(***************************************************************************)
EXTENDS TraceWindows

CONSTANTS
  Jobs,       \* the inputs a run may be given: a trace, its windows, and the
              \* bounds of the g_cells array in the trace
  WindowIds,  \* the iteration ids that occur in Jobs
  MaxRuns     \* bound: how often the rewriter is started

ASSUME MaxRunsAssumption == MaxRuns \in Nat \ {0}

ASSUME WindowIdsAssumption == WindowIds \subseteq Nat

ASSUME JobsAssumption ==
  \A j \in Jobs : /\ DOMAIN j = {"trace", "windows", "start", "end"}
                  /\ j.trace \in Seq(Line)
                  /\ j.start \in Nat /\ j.end \in Nat
                  /\ j.windows \in Seq(Windows(WindowIds))
                  /\ SortedById(j.windows) /\ Successive(j.windows)

VARIABLES
  job,        \* the input of the current run
  run,        \* number of the current run
  pc,         \* where the run is: see Pcs
  pos,        \* the line the loop is at
  cur,        \* cur_win
  next,       \* next_win
  active,     \* active_temp is not None: the current window's file is open
  reads,      \* numbers of the buffered read lines of the current window
  writes,     \* ... and write lines
  temp,       \* .tmp_windows: the contents of each window's file
  out,        \* the output trace
  counts,     \* the counters of the summary
  perWindow   \* the summary's per_window list

files  == <<temp, out>>
buffer == <<active, reads, writes>>
vars == <<job, run, pc, pos, cur, next, buffer, files, counts, perWindow>>

trace == job.trace
windows == job.windows
NWindows == Len(windows)

Pcs == {"read",    \* at the head of the loop over the lines
        "line",    \* a line is parsed, next_win is computed
        "tail",    \* past the last line
        "done", "killed"}

\* A line of the output or of a file, by where it came from: the run that wrote
\* it, its number in that run's trace, and the cycle it is written with.
OutLine == [run : 1 .. MaxRuns, idx : Nat \ {0}, cycle : Nat]
Written(i, cycle) == [run |-> run, idx |-> i, cycle |-> cycle]

IsGcell(line) == job.start <= line.addr /\ line.addr < job.end
Buffered(line) == IsGcell(line) /\ line.op \in {"READ", "WRITE"}
InCurrent(cycle) == cur <= NWindows /\ InWindow(windows[cur], cycle)

NoCounts == [total |-> 0, gcell |-> 0, rewritten |-> 0, outside |-> 0]

TypeOK ==
  /\ job \in Jobs
  /\ run \in 1 .. MaxRuns
  /\ pc \in Pcs
  /\ pos \in 1 .. Len(trace) + 1
  /\ pc = "line" => pos \in Entries(trace)
  /\ cur \in 1 .. NWindows + 1
  /\ next \in 1 .. NWindows + 1
  /\ pc = "line" => cur <= next
  /\ active \in BOOLEAN /\ (active => cur <= NWindows)
  /\ reads \in SUBSET (1 .. Len(trace))
  /\ writes \in SUBSET (1 .. Len(trace))
  /\ temp \in [WindowIds -> Seq(OutLine)]
  /\ out \in Seq(OutLine)
  /\ counts \in [total : Nat, gcell : Nat, rewritten : Nat, outside : Nat]
  /\ perWindow \in Seq([id : WindowIds, reads : Nat, writes : Nat])
-----------------------------------------------------------------------------
\* What rewrite_streaming starts from: a truncated output, and the temporary
\* directory as it is.
FirstStart ==
  /\ run = 1
  /\ pc = "read" /\ pos = 1 /\ cur = 1 /\ next = 1
  /\ active = FALSE /\ reads = {} /\ writes = {}
  /\ out = << >> /\ counts = NoCounts /\ perWindow = << >>
  /\ temp = [id \in WindowIds |-> << >>]

Init == job \in Jobs /\ FirstStart

\* The run after one that was killed.
Start(j) ==
  /\ pc = "killed"
  /\ run < MaxRuns
  /\ job' = j
  /\ run' = run + 1
  /\ pc' = "read" /\ pos' = 1 /\ cur' = 1 /\ next' = 1
  /\ active' = FALSE /\ reads' = {} /\ writes' = {}
  /\ out' = << >> /\ counts' = NoCounts /\ perWindow' = << >>
  /\ UNCHANGED temp
-----------------------------------------------------------------------------
\* advance_window: to is the first window from `from` on whose end the cycle has
\* not passed, or one past the last window.
Advances(cycle, from, to) ==
  /\ \A k \in from .. to - 1 : cycle > windows[k].end
  /\ to <= NWindows => cycle <= windows[to].end

SkipBlank ==
  /\ pc = "read" /\ pos <= Len(trace)
  /\ ~ IsEntry(trace[pos])
  /\ pos' = pos + 1
  /\ UNCHANGED <<job, run, pc, cur, next, buffer, files, counts, perWindow>>

\* Fault: the search starts from the first window for every line.
ReadEntrySearchesAll ==
  /\ pc = "read" /\ pos <= Len(trace)
  /\ IsEntry(trace[pos])
  /\ pc' = "line"
  /\ counts' = [counts EXCEPT !.total = @ + 1]
  /\ \E n \in 1 .. NWindows + 1 : Advances(trace[pos].cycle, 1, n) /\ next' = n
  /\ UNCHANGED <<job, run, pos, cur, buffer, files, perWindow>>

ReadEntry ==
  /\ pc = "read" /\ pos <= Len(trace)
  /\ IsEntry(trace[pos])
  /\ pc' = "line"
  /\ counts' = [counts EXCEPT !.total = @ + 1]
  /\ \E n \in cur .. NWindows + 1 :
       Advances(trace[pos].cycle, cur, n) /\ next' = n
  /\ UNCHANGED <<job, run, pos, cur, buffer, files, perWindow>>

\* Fault: the burst is written at the window's last cycle.
PhaseAtEnd(p) == [k \in DOMAIN p |-> Written(p[k], windows[cur].end)]

\* A phase of a burst: the sorted lines of S, all at the window's first cycle.
Phase(p) == [k \in DOMAIN p |-> Written(p[k], windows[cur].begin)]

\* Fault: the writes are put first.
BurstWritesFirst(r, w) == Phase(w) \o Phase(r)

Burst(r, w) == Phase(r) \o Phase(w)

\* Fault: the read buffer survives the flush.
FlushKeepsReads ==
  /\ \E r \in Sorted(trace, reads), w \in Sorted(trace, writes) :
       out' = out \o Burst(r, w) \o temp[windows[cur].id]
  /\ temp' = [temp EXCEPT ![windows[cur].id] = << >>]
  /\ perWindow' = Append(perWindow, [id |-> windows[cur].id,
                                     reads |-> Cardinality(reads),
                                     writes |-> Cardinality(writes)])
  /\ active' = FALSE /\ writes' = {}
  /\ cur' = cur + 1
  /\ UNCHANGED <<job, run, pc, pos, next, counts, reads>>

\* Fault: the window's file is deleted without having been copied.
FlushWithoutCopy ==
  /\ \E r \in Sorted(trace, reads), w \in Sorted(trace, writes) :
       out' = out \o Burst(r, w)
  /\ temp' = [temp EXCEPT ![windows[cur].id] = << >>]
  /\ perWindow' = Append(perWindow, [id |-> windows[cur].id,
                                     reads |-> Cardinality(reads),
                                     writes |-> Cardinality(writes)])
  /\ active' = FALSE /\ reads' = {} /\ writes' = {}
  /\ cur' = cur + 1
  /\ UNCHANGED <<job, run, pc, pos, next, counts>>

\* One round of a flush loop: close the window's file, write the burst, append
\* the file and delete it, forget the buffers, move to the next window.
FlushWindow ==
  /\ \E r \in Sorted(trace, reads), w \in Sorted(trace, writes) :
       out' = out \o Burst(r, w) \o temp[windows[cur].id]
  /\ temp' = [temp EXCEPT ![windows[cur].id] = << >>]
  /\ perWindow' = Append(perWindow, [id |-> windows[cur].id,
                                     reads |-> Cardinality(reads),
                                     writes |-> Cardinality(writes)])
  /\ active' = FALSE /\ reads' = {} /\ writes' = {}
  /\ cur' = cur + 1
  /\ UNCHANGED <<job, run, pc, pos, next, counts>>

FlushPassed == pc = "line" /\ cur < next /\ FlushWindow

\* Fault: the loop after the last line stops one window early.
FlushTailButLast == pc = "tail" /\ cur < NWindows /\ FlushWindow

FlushTail == pc = "tail" /\ cur <= NWindows /\ FlushWindow
-----------------------------------------------------------------------------
\* The line at pos is dealt with, and the loop goes on to the next one.
Placing(line) ==
  /\ pc = "line" /\ cur = next
  /\ line = trace[pos]
  /\ pc' = "read" /\ pos' = pos + 1
  /\ UNCHANGED <<job, run, cur, next, perWindow>>

\* Fault: the file is opened for appending.
OpenTempAppend == temp[windows[cur].id]

\* The first line of a window opens its file for writing, which truncates it.
OpenTemp == IF active THEN temp[windows[cur].id] ELSE << >>

\* Fault: a g_cells line that is spilled, not buffered, is not counted.
TallyOutsideOnly(line, kept) ==
  [total |-> counts.total,
   gcell |-> counts.gcell + (IF IsGcell(line) THEN 1 ELSE 0),
   rewritten |-> counts.rewritten + (IF kept THEN 1 ELSE 0),
   outside |-> counts.outside
               + (IF IsGcell(line) /\ ~ InCurrent(line.cycle) THEN 1 ELSE 0)]

Tally(line, kept) ==
  [total |-> counts.total,
   gcell |-> counts.gcell + (IF IsGcell(line) THEN 1 ELSE 0),
   rewritten |-> counts.rewritten + (IF kept THEN 1 ELSE 0),
   outside |-> counts.outside + (IF IsGcell(line) /\ ~ kept THEN 1 ELSE 0)]

BufferEntry(line) ==
  /\ Placing(line)
  /\ InCurrent(line.cycle) /\ Buffered(line)
  /\ active' = TRUE
  /\ temp' = [temp EXCEPT ![windows[cur].id] = OpenTemp]
  /\ reads' = IF line.op = "READ" THEN reads \cup {pos} ELSE reads
  /\ writes' = IF line.op = "WRITE" THEN writes \cup {pos} ELSE writes
  /\ counts' = Tally(line, TRUE)
  /\ UNCHANGED out

SpillEntry(line) ==
  /\ Placing(line)
  /\ InCurrent(line.cycle) /\ ~ Buffered(line)
  /\ active' = TRUE
  /\ temp' = [temp EXCEPT ![windows[cur].id] =
                Append(OpenTemp, Written(pos, line.cycle))]
  /\ counts' = Tally(line, FALSE)
  /\ UNCHANGED <<out, reads, writes>>

PassEntry(line) ==
  /\ Placing(line)
  /\ ~ InCurrent(line.cycle)
  /\ out' = Append(out, Written(pos, line.cycle))
  /\ counts' = Tally(line, FALSE)
  /\ UNCHANGED <<temp, buffer>>

PlaceEntry ==
  /\ pc = "line"
  /\ \/ BufferEntry(trace[pos])
     \/ SpillEntry(trace[pos])
     \/ PassEntry(trace[pos])

EndOfTrace ==
  /\ pc = "read" /\ pos = Len(trace) + 1
  /\ pc' = "tail"
  /\ UNCHANGED <<job, run, pos, cur, next, buffer, files, counts, perWindow>>

\* rmtree of the temporary directory, and the summary is returned.
Finish ==
  /\ pc = "tail" /\ cur = NWindows + 1
  /\ pc' = "done"
  /\ temp' = [id \in WindowIds |-> << >>]
  /\ UNCHANGED <<job, run, pos, cur, next, buffer, out, counts, perWindow>>
-----------------------------------------------------------------------------
\* Memory is lost.  Writes to an open file are buffered by the process, so any
\* number of its last lines may be missing from the disk.  The output and the
\* summary of a killed run are never read: Start resets them.
Kill ==
  /\ pc \in {"read", "line", "tail"}
  /\ run < MaxRuns
  /\ pc' = "killed"
  /\ \/ ~ active /\ UNCHANGED temp
     \/ active /\ \E n \in 0 .. Len(temp[windows[cur].id]) :
          temp' = [temp EXCEPT ![windows[cur].id] = SubSeq(temp[windows[cur].id], 1, n)]
  /\ active' = FALSE /\ reads' = {} /\ writes' = {}
  /\ UNCHANGED <<job, run, pos, cur, next, out, counts, perWindow>>

Step == SkipBlank \/ ReadEntry \/ FlushPassed \/ PlaceEntry
        \/ EndOfTrace \/ FlushTail \/ Finish

\* A finished run leaves the directory as Init finds it, so a behaviour ends
\* with it.
Stopped == pc = "done" /\ UNCHANGED vars

\* A killed run is repeated with the same input ...
Next == Step \/ Kill \/ Start(job) \/ Stopped

\* ... or the experiment is changed first.
NextAnyInput == Step \/ Kill \/ (\E j \in Jobs : Start(j)) \/ Stopped

Spec == Init /\ [][Next]_vars
SpecAnyInput == Init /\ [][NextAnyInput]_vars

\* The process runs on until it is done or killed, and someone runs it again
\* after a kill.
FairSpec == Spec /\ WF_vars(Step) /\ WF_vars(Start(job))
-----------------------------------------------------------------------------
(* What the rewriter promises. *)

Running == pc # "killed"
Idxs(lines) == {lines[k].idx : k \in DOMAIN lines}
Spilled == IF active THEN Idxs(temp[windows[cur].id]) ELSE {}
Held == reads \cup writes \cup Spilled
Consumed == {i \in Entries(trace) : i < pos}
Positions(i) == {k \in DOMAIN out : out[k].idx = i}

\* No line of the trace is lost or written twice: what the loop has read is in
\* exactly one of the read buffer, the write buffer, the current window's file
\* and the output (lines 190-238), through every flush and every rerun.
Conservation ==
  Running =>
    /\ \A i \in Consumed :
         Cardinality(Positions(i)) = IF i \in Held THEN 0 ELSE 1
    /\ reads \cap writes = {} /\ (reads \cup writes) \cap Spilled = {}
    /\ Held \subseteq Consumed
    /\ Idxs(out) \subseteq Consumed
    /\ pc = "done" => Held = {}

\* A rerun with the same input writes nothing an earlier, killed run left in
\* .tmp_windows, although no run clears that directory: a file left behind is
\* truncated by the window's first line before the window is flushed.
OnlyOwnLines ==
  Running => \A k \in DOMAIN out : out[k].run = run

\* The output of a trace in cycle order is in cycle order, which is what
\* DRAMsim3 expects of a trace, although each window is written in three parts.
OutputInCycleOrder ==
  Running /\ InCycleOrder(trace) => InCycleOrder(out)

\* The dependences between requests to one g_cells address that the rewriter
\* keeps: write after write and write after read always, read after write
\* unless both are in the same window (there every read is put first; that is
\* the optimism of the model).
SameWindow(i, j) ==
  \E k \in 1 .. NWindows : /\ IsWindowForCycle(windows, trace[i].cycle, k)
                           /\ IsWindowForCycle(windows, trace[j].cycle, k)
DependencesKept ==
  Running /\ InCycleOrder(trace) =>
    \A k, m \in DOMAIN out :
      LET i == out[k].idx  j == out[m].idx IN
      /\ i < j /\ trace[i].addr = trace[j].addr
      /\ Buffered(trace[i]) /\ Buffered(trace[j])
      /\ "WRITE" \in {trace[i].op, trace[j].op}
      /\ trace[j].op = "READ" => ~ SameWindow(i, j)
      => k < m

\* The summary is true of the output file: it has output_entries lines, every
\* g_cells line is counted once, as rewritten or as outside, and the windows'
\* own counts add up to the rewritten ones.
WindowsAddUpTo(total) ==
  \E sum \in [0 .. Len(perWindow) -> 0 .. total] :
    /\ sum[0] = 0
    /\ \A k \in 1 .. Len(perWindow) :
         sum[k] = sum[k - 1] + perWindow[k].reads + perWindow[k].writes
    /\ sum[Len(perWindow)] = total
SummaryMatchesOutput ==
  pc = "done" =>
    /\ counts.total = Len(out)
    /\ counts.gcell = counts.rewritten + counts.outside
    /\ WindowsAddUpTo(counts.rewritten)

\* The rewriter implements WindowBuffer: a flush is the one step that sends
\* what is held, and a kill discards everything, whatever it leaves on disk.
Buffer == INSTANCE WindowBuffer WITH
  input <- Entries(trace),
  todo <- IF Running THEN {i \in Entries(trace) : i >= pos} ELSE Entries(trace),
  held <- IF Running THEN Held ELSE {},
  sent <- IF Running THEN [k \in DOMAIN out |-> out[k].idx] ELSE << >>
ImplementsWindowBuffer == Buffer!Spec

\* Run again after every kill, the rewriter gets to the end of its trace.
EventuallyDone == <>(pc = "done")
=============================================================================

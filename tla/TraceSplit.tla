----------------------------- MODULE TraceSplit -----------------------------
(***************************************************************************)
(* From a gem5 run to one trace per iteration: a converter turns packets   *)
(* with ticks into trace lines with cycles, divideDRAMSimtrace.py cuts the *)
(* trace at the iterations of the log, set_trace_cycle_zero.py makes every *)
(* piece start at cycle 0.                                                 *)
(*                                                                         *)
(* The tools agree on text files only.  What they have to agree on is how  *)
(* many columns a line has, which of them is the cycle, and how a tick is  *)
(* rounded to a cycle, so a line is just that.                             *)
(***************************************************************************)
EXTENDS TraceWindows

CONSTANTS
  SplitJobs, \* the inputs: a log, the packets, the converter, ticks per cycle
  IterIds    \* the iteration ids that occur in the logs

\* Lines of the log that mark an iteration, and packets, which are in tick order.
LogLine == [kind : {"begin", "end"}, t : IterIds, tick : Nat]
Packet == [tick : Nat, fields : Nat, flag : Nat]

ASSUME SplitAssumption ==
  /\ IterIds \in SUBSET Nat /\ IsFiniteSet(IterIds)
  /\ \A j \in SplitJobs :
       /\ j.log \in Seq(LogLine)
       /\ j.packets \in Seq(Packet)
       /\ \A k, m \in DOMAIN j.packets : k <= m => j.packets[k].tick <= j.packets[m].tick
       /\ j.converter \in {"parse_gem5_trace", "convert_trace", "parse_gem5"}
       /\ j.div \in Nat \ {0}

VARIABLES
  job,
  at,     \* the tool that is next: "log", "convert", "split", "zero"; or
          \* "done", or "failed"
  iters,  \* parse_gem5_iters, in the order split_trace_by_iters uses
  trace,  \* the converted trace
  pos,    \* the line the splitter is at, and
  idx,    \* its current iteration
  files,  \* the lines of each iteration's file
  zeroed  \* the files that have been normalised

splitVars == <<job, at, iters, trace, pos, idx, files, zeroed>>

log == job.log
packets == job.packets
div == job.div

Iteration == [t : IterIds, begin : Nat, end : Nat]

\* packet: the packet it was made from; last: the number in its last column.
SplitTraceLine == [packet : Nat \ {0}, cols : {3, 6}, cycle : Nat, last : Nat]
-----------------------------------------------------------------------------
(* Reading the log. *)

Marks(kind, t) == {k \in DOMAIN log : log[k].kind = kind /\ log[k].t = t}
Seen(kind) == {t \in IterIds : Marks(kind, t) # {}}
FirstTick(kind, t) == log[CHOOSE k \in Marks(kind, t) : \A m \in Marks(kind, t) : k <= m].tick
LastTick(kind, t) == log[CHOOSE k \in Marks(kind, t) : \A m \in Marks(kind, t) : m <= k].tick

\* Fault: an iteration that ends before it begins is let through.
LogAcceptedBackwards ==
  /\ Seen("begin") = Seen("end") /\ Seen("begin") # {}
  /\ \A t \in Seen("begin") :
       Cardinality(Marks("begin", t)) = 1 /\ Cardinality(Marks("end", t)) = 1

\* parse_gem5_iters does not raise, and finds something: no marker is repeated,
\* none is missing, no iteration ends before it begins.
LogAccepted ==
  /\ Seen("begin") = Seen("end") /\ Seen("begin") # {}
  /\ \A t \in Seen("begin") :
       /\ Cardinality(Marks("begin", t)) = 1 /\ Cardinality(Marks("end", t)) = 1
       /\ FirstTick("begin", t) <= FirstTick("end", t)

IterationOf(t) == [t |-> t, begin |-> FirstTick("begin", t) \div div,
                            end |-> FirstTick("end", t) \div div]

\* Sorted by begin_cycle; the sort is stable, and the list was sorted by t.
InBeginOrder(a, b) == a.begin < b.begin \/ (a.begin = b.begin /\ a.t < b.t)
SortedIters ==
  {p \in Arrangements({IterationOf(t) : t \in Seen("begin")}) :
     \A k, m \in DOMAIN p : k < m => InBeginOrder(p[k], p[m])}

\* parse_windows of the rewriters: the last marker of each kind counts, and what
\* has no partner is dropped.
ParsedWindows ==
  {[t |-> t, begin |-> LastTick("begin", t) \div div, end |-> LastTick("end", t) \div div]
     : t \in {t \in Seen("begin") \cap Seen("end") :
                LastTick("begin", t) \div div <= LastTick("end", t) \div div}}
-----------------------------------------------------------------------------
SplitInit ==
  /\ job \in SplitJobs
  /\ at = "log" /\ iters = << >> /\ trace = << >> /\ pos = 1 /\ idx = 1
  /\ files = [t \in IterIds |-> << >>] /\ zeroed = {}

Fail == at' = "failed" /\ UNCHANGED <<job, iters, trace, pos, idx, files, zeroed>>

ReadLog ==
  /\ at = "log" /\ LogAccepted
  /\ iters' \in SortedIters /\ at' = "convert"
  /\ UNCHANGED <<job, trace, pos, idx, files, zeroed>>

LogRefused == at = "log" /\ ~ LogAccepted /\ Fail

\* Fault: a tick on a cycle's edge is moved to the next cycle.
CycleAfter(converter, tick) == tick \div div + 1

\* The converters.  parse_gem5_trace.py is for decoded packets of 6 fields and
\* writes 3 columns; convert_trace.py and parse_gem5.py are for 8 or 9 fields and
\* write 6 columns, the last of which is opt_flag.  convert_trace.py rounds down.
Columns(converter) == IF converter = "parse_gem5_trace" THEN 3 ELSE 6
Reads(converter) == IF converter = "parse_gem5_trace" THEN {6} ELSE {8, 9}
Cycle(converter, tick) ==
  IF converter = "convert_trace" THEN tick \div div ELSE (tick + div - 1) \div div

\* Only a packet of 9 fields has a flag that is written.
Flag(packet) == IF packet.fields = 9 THEN packet.flag ELSE 0

Converted(k) ==
  LET c == Cycle(job.converter, packets[k].tick) IN
  [packet |-> k, cols |-> Columns(job.converter), cycle |-> c,
   last |-> IF Columns(job.converter) = 3 THEN c ELSE Flag(packets[k])]

Readable == {k \in DOMAIN packets : packets[k].fields \in Reads(job.converter)}

\* The packets that are read, in their order: the m-th has m - 1 of them before it.
Kept ==
  [m \in 1 .. Cardinality(Readable) |->
     CHOOSE k \in Readable : Cardinality({j \in Readable : j < k}) = m - 1]

\* convert_trace.py skips a packet it cannot read, the others raise.
Convert ==
  /\ at = "convert"
  /\ job.converter # "convert_trace" => Readable = DOMAIN packets
  /\ trace' = [m \in DOMAIN Kept |-> Converted(Kept[m])]
  /\ at' = "split"
  /\ UNCHANGED <<job, iters, pos, idx, files, zeroed>>

ConvertFails ==
  /\ at = "convert" /\ job.converter # "convert_trace" /\ Readable # DOMAIN packets
  /\ Fail
-----------------------------------------------------------------------------
\* Fault: an iteration is left at its last cycle.
PassesAtEnd(cycle, from, to) ==
  /\ \A k \in from .. to - 1 : cycle >= iters[k].end
  /\ to <= Len(iters) => cycle < iters[to].end

Passes(cycle, from, to) ==
  /\ \A k \in from .. to - 1 : cycle > iters[k].end
  /\ to <= Len(iters) => cycle <= iters[to].end

\* One line of split_trace_by_iters, which takes the last column for the cycle.
\* After the last iteration the loop is left.
SplitLine ==
  /\ at = "split" /\ pos <= Len(trace)
  /\ idx' \in {n \in idx .. Len(iters) + 1 : Passes(trace[pos].last, idx, n)}
  /\ IF idx' > Len(iters)
       THEN at' = "zero" /\ UNCHANGED <<pos, files>>
       ELSE /\ pos' = pos + 1 /\ UNCHANGED at
            /\ files' = IF InWindow(iters[idx'], trace[pos].last)
                          THEN [files EXCEPT ![iters[idx'].t] = Append(@, trace[pos])]
                          ELSE files
  /\ UNCHANGED <<job, iters, trace, zeroed>>

SplitDone ==
  /\ at = "split" /\ pos = Len(trace) + 1
  /\ at' = "zero"
  /\ UNCHANGED <<job, iters, trace, pos, idx, files, zeroed>>

\* Fault: all files are counted from the first iteration's first line.
FirstCycleOfAll(t) ==
  LET c == {files[u][1].cycle : u \in {u \in IterIds : files[u] # << >>}}
  IN CHOOSE x \in c : \A y \in c : x <= y

FirstCycle(t) == files[t][1].cycle

\* normalize_trace_file: only lines of three columns are changed.
Normalised(t) ==
  [k \in DOMAIN files[t] |->
     IF files[t][k].cols # 3 THEN files[t][k]
     ELSE [files[t][k] EXCEPT !.cycle = @ - FirstCycle(t), !.last = @ - FirstCycle(t)]]

ZeroFile(t) ==
  /\ at = "zero" /\ t \notin zeroed
  /\ files' = [files EXCEPT ![t] = Normalised(t)]
  /\ zeroed' = zeroed \cup {t}
  /\ UNCHANGED <<job, at, iters, trace, pos, idx>>

ZeroDone ==
  /\ at = "zero" /\ zeroed = IterIds
  /\ at' = "done"
  /\ UNCHANGED <<job, iters, trace, pos, idx, files, zeroed>>

SplitStopped == at \in {"done", "failed"} /\ UNCHANGED splitVars

SplitNext ==
  \/ ReadLog \/ LogRefused \/ Convert \/ ConvertFails
  \/ SplitLine \/ SplitDone \/ (\E t \in IterIds : ZeroFile(t)) \/ ZeroDone
  \/ SplitStopped

SplitSpec == SplitInit /\ [][SplitNext]_splitVars
-----------------------------------------------------------------------------
(* What the pieces should be. *)

Lines(t) == {files[t][k].packet : k \in DOMAIN files[t]}
Holds(i, line) == InWindow(iters[i], line.cycle)

\* Each line whose cycle is within [begin_cycle, end_cycle] of an iteration is in
\* that iteration's file -- the first of them, if two iterations share the cycle --
\* once, and there is no other line in it (divideDRAMSimtrace.py 93-139).
SplitByCycle ==
  at = "zero" =>
    \A i \in DOMAIN iters :
      /\ Lines(iters[i].t) = {trace[k].packet : k \in
           {k \in DOMAIN trace : Holds(i, trace[k]) /\ \A j \in 1 .. i - 1 : ~ Holds(j, trace[k])}}
      /\ Len(files[iters[i].t]) = Cardinality(Lines(iters[i].t))

\* The pieces against the clock they come from: a packet sent during an iteration is
\* in its file or in that of an earlier iteration, unless it was sent in the
\* iteration's last, incomplete cycle (the converter may round up, the log's ticks
\* are rounded down); and what is in the file was sent less than a cycle before the
\* cycle the iteration began in, and not after the iteration.
WithinACycle ==
  at = "zero" =>
    \A t \in Seen("begin"), k \in DOMAIN packets :
      LET b == FirstTick("begin", t)  e == FirstTick("end", t)  tick == packets[k].tick IN
      /\ b <= tick /\ tick <= e - (e % div) =>
           \E i \in DOMAIN iters : /\ k \in Lines(iters[i].t)
                                   /\ ~ InBeginOrder(IterationOf(t), iters[i])
      /\ k \in Lines(t) => b - (b % div) - div < tick /\ tick <= e

\* A normalised piece starts at cycle 0, keeps the distances of its lines, and has
\* none later than end_cycle - begin_cycle, the difference of the numbers in the
\* file's name, for which fft_workloads_run.sh means to simulate it: no request of
\* the piece would be cut off (set_trace_cycle_zero.py 40-49).
ZeroedFits ==
  \A i \in DOMAIN iters :
    LET f == files[iters[i].t] IN
    iters[i].t \in zeroed /\ f # << >> =>
      /\ f[1].cycle = 0
      /\ \A k \in DOMAIN f : f[k].cycle <= iters[i].end - iters[i].begin
      /\ \A k, m \in DOMAIN f :
           f[m].cycle - f[k].cycle = Cycle(job.converter, packets[f[m].packet].tick)
                                     - Cycle(job.converter, packets[f[k].packet].tick)

\* The two readers of the log find the same iterations and the same cycles in every
\* log the strict one accepts: the permissive one, of the rewriters, drops or
\* overwrites something only where the strict one raises
\* (divideDRAMSimtrace.py 11-72, optimistic_buffer_trace_stream.py 75-94).
LogReadersAgree ==
  at # "log" /\ at # "failed" =>
    {iters[i] : i \in DOMAIN iters} = ParsedWindows
=============================================================================

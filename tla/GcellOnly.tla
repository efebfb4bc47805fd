------------------------------ MODULE GcellOnly ------------------------------
(***************************************************************************)
(* gcell_only_traces.py: the g_cells entries of a trace, as they are and   *)
(* all at cycle 0, the reads first.  One pass without state, so operators. *)
(* The tool finds the array on its own: it has the rewriters' reader for   *)
(* the log and their option for the offset, but it does not guess.         *)
(***************************************************************************)
EXTENDS GcellRange

CONSTANT DefaultDelta  \* the offset if none is given; the rewriters would try it

ASSUME DefaultAssumption == DefaultDelta \in {Deltas[k] : k \in DOMAIN Deltas}

\* The offset it takes, which may put the array below address 0.
OnlyDelta(explicit) == IF explicit = << >> THEN DefaultDelta ELSE explicit[1]

WithGcell(trace, log, explicit) ==
  {i \in Entries(trace) : InArray(log, OnlyDelta(explicit), trace[i])}

\* Fault: other commands are left out, as the PageRank driver does it.
EntriesByPhase(trace, log, explicit) ==
  LET of(op) == {i \in WithGcell(trace, log, explicit) : trace[i].op = op}
  IN InTraceOrder(of("READ")) \o InTraceOrder(of("WRITE"))

\* The list entries, as line numbers.
GcellEntries(trace, log, explicit) == InTraceOrder(WithGcell(trace, log, explicit))

\* A log that parse_gcell_range refuses, or no entries: nothing is written.
GcellOnlyRefused(trace, log, explicit) ==
  ~ RangeFound(log) \/ GcellEntries(trace, log, explicit) = << >>

\* out_original: cycles count from the first entry's.
GcellOriginal(trace, log, explicit) ==
  LET entries == GcellEntries(trace, log, explicit)
  IN [k \in DOMAIN entries |->
        [idx |-> entries[k],
         cycle |-> trace[entries[k]].cycle - trace[entries[1]].cycle]]

\* out_optimistic: reads, writes, others, at cycle 0.
GcellOptimistic(trace, log, explicit) ==
  LET entries == GcellEntries(trace, log, explicit)
      of(ops) == {i \in {entries[k] : k \in DOMAIN entries} : trace[i].op \in ops}
      p == InKeyOrder(trace, of({"READ"})) \o InKeyOrder(trace, of({"WRITE"}))
           \o InTraceOrder(of(Ops \ {"READ", "WRITE"}))
  IN [k \in DOMAIN p |-> [idx |-> p[k], cycle |-> 0]]

\* The -c the AMR driver gives DRAMsim3: the last line's cycle.  Python's max and
\* int: a cycle of 0 stands for four cycles a line.
FinalCycleOfLast(lines) ==
  IF lines[Len(lines)].cycle > 0 THEN lines[Len(lines)].cycle
  ELSE IF Len(lines) * 4 > 1 THEN Len(lines) * 4 ELSE 1

\* The one the PageRank driver gives it: the greatest cycle.
FinalCycleOfAll(lines) ==
  LET last == CHOOSE c \in {lines[k].cycle : k \in DOMAIN lines} :
                \A k \in DOMAIN lines : lines[k].cycle <= c
  IN IF last = 0 THEN Len(lines) * 4 ELSE last
=============================================================================

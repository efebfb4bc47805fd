---------------------------- MODULE TraceWindows ----------------------------
(***************************************************************************)
(* DRAMsim3 trace lines, the iteration windows recovered from the gem5     *)
(* log, and the orders the trace rewriters are built on.                   *)
(*                                                                         *)
(* A trace line is "addr op cycle [opt_flag]".  The flag is copied through *)
(* unchanged everywhere and is left out.  A window is the closed interval  *)
(* of cycles between the ITER_BEGIN and ITER_END markers of an iteration.  *)
(***************************************************************************)
EXTENDS Integers, Sequences, FiniteSets

\* parse_trace_line: READ and WRITE are the requests a rewriter may buffer,
\* OTHER stands for any other command, BLANK for a line without fields, which
\* every rewriter skips.
Ops == {"READ", "WRITE", "OTHER", "BLANK"}
Line == [addr : Nat, op : Ops, cycle : Nat]

IsEntry(line) == line.op # "BLANK"
Entries(trace) == {i \in 1 .. Len(trace) : IsEntry(trace[i])}

\* parse_windows keeps an iteration only if both markers were seen and the end
\* is not before the begin, and sorts by iteration id.
Windows(Ids) ==
  {w \in [id : Ids, begin : Nat, end : Nat] : w.begin <= w.end}

SortedById(windows) ==
  \A k, m \in 1 .. Len(windows) : k < m => windows[k].id < windows[m].id

\* The windows of one gem5 run: the simulation logs iteration t+1's begin at
\* or after iteration t's end, and the division of ticks by tick_div is
\* monotone, so two neighbours share at most one cycle.
Successive(windows) ==
  \A k, m \in 1 .. Len(windows) : k < m => windows[k].end <= windows[m].begin

InWindow(w, cycle) == w.begin <= cycle /\ cycle <= w.end

\* window_for_cycle of the batch rewriter: index of the first window that
\* holds the cycle.
IsWindowForCycle(windows, cycle, k) ==
  /\ InWindow(windows[k], cycle)
  /\ \A m \in 1 .. k - 1 : ~ InWindow(windows[m], cycle)

InCycleOrder(s) ==
  \A i, j \in 1 .. Len(s) : i < j => s[i].cycle <= s[j].cycle

\* The key (addr, original_index) both rewriters sort a phase by.
Before(trace, i, j) ==
  \/ trace[i].addr < trace[j].addr
  \/ trace[i].addr = trace[j].addr /\ i < j

\* The orders in which a set S of line numbers may be written out ...
Arrangements(S) ==
  {p \in [1 .. Cardinality(S) -> S] : \A i \in S : \E k \in DOMAIN p : p[k] = i}

\* ... and the one that sorting by the key gives.
Sorted(trace, S) ==
  {p \in Arrangements(S) :
     \A k, m \in DOMAIN p : k < m => Before(trace, p[k], p[m])}

\* A set of line numbers as a list, in the order of the trace, and by the key.
InTraceOrder(S) ==
  CHOOSE p \in Arrangements(S) : \A k, m \in DOMAIN p : k < m => p[k] < p[m]
InKeyOrder(trace, S) == CHOOSE p \in Sorted(trace, S) : TRUE

\* A list of different lines sorted by the key: the k-th is the one that k - 1 of
\* them come before.
SortedSeq(trace, s) ==
  LET Earlier(m) == {l \in DOMAIN s : Before(trace, s[l], s[m])}
  IN [k \in DOMAIN s |-> s[CHOOSE m \in DOMAIN s : Cardinality(Earlier(m)) = k - 1]]
=============================================================================

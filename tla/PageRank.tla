------------------------------ MODULE PageRank ------------------------------
(***************************************************************************)
(* The pull PageRank workload, pagerank_pull.cpp, and what becomes of its  *)
(* trace: the workload runs under gem5, which records every access (there  *)
(* is no cache) and the tick of every iteration marker; ticks are divided  *)
(* into DRAM cycles; then run_experiment.py rewrites the trace with one of *)
(* the rewriters of RankRewriter, or cuts it down to the rank arrays.      *)
(*                                                                         *)
(* Compiled with -O0 the accumulator is in memory, and read and written    *)
(* for every edge.  An access takes one tick, a marker none.  Instruction  *)
(* fetches, which are in the real trace everywhere, are left out but for   *)
(* a few before an iteration begins and before the checksum.               *)
(***************************************************************************)
EXTENDS RankRewriter

CONSTANTS
  NODES, DEG, ITERS, \* as in the source, but small
  TickDivs,          \* the ticks per DRAM cycle, --tick-div
  Hows               \* the rewriters main runs

ASSUME PageRankAssumption ==
  /\ NODES \in Nat \ {0, 1} /\ DEG \in Nat \ {0} /\ ITERS \in Nat
  /\ TickDivs \subseteq Nat \ {0}
  /\ Hows \subseteq [method : {"targeted", "blind"}, gap : Nat]
  /\ Regions.rank_a.lo \in Nat /\ Regions.rank_b.lo \in Nat
  /\ Regions.rank_a.hi = Regions.rank_a.lo + NODES
  /\ Regions.rank_b.hi = Regions.rank_b.lo + NODES
  /\ Regions.rank_a.hi <= Regions.rank_b.lo \/ Regions.rank_b.hi <= Regions.rank_a.lo

VARIABLES
  at,      \* where workload_main is; "rewrite" when it has ended
  iter, v, e, \* its loop variables
  col_idx, \* the source of each edge
  div,     \* ticks per cycle
  tick,    \* gem5's clock: the tick of the next access
  begin,   \* the tick of the last m5_work_begin
  made     \* by line of the trace: the iteration that made it, -1 for init_graph

workVars == <<at, iter, v, e, col_idx, div, tick, begin, made>>
pageVars == <<rankVars, workVars>>

Nodes == 0 .. NODES - 1
Edges == 0 .. NODES * DEG - 1

\* row_ptr[v] and row_ptr[v + 1]: every node has DEG edges.
RowStart(n) == n * DEG
-----------------------------------------------------------------------------
\* Addresses: the arrays but for the ranks take one address each, behind the
\* ranks, as nothing depends on their elements.
RankA(n) == Regions.rank_a.lo + n
RankB(n) == Regions.rank_b.lo + n
Behind == IF RankA(NODES) > RankB(NODES) THEN RankA(NODES) ELSE RankB(NODES)
RowPtr == Behind
ColIdx == Behind + 1
OutDeg == Behind + 2
Acc == Behind + 3
Code == Behind + 4

OldRank(n) == IF iter % 2 = 1 THEN RankB(n) ELSE RankA(n)

\* Fault: the pull is done in place.
NewRankInPlace(n) == IF iter % 2 = 1 THEN RankB(n) ELSE RankA(n)

NewRank(n) == IF iter % 2 = 1 THEN RankA(n) ELSE RankB(n)

Read(addr) == <<addr, "READ">>
Write(addr) == <<addr, "WRITE">>

\* The accesses s are made, one after the other, by the iteration t (MemTraceProbe,
\* then convert_trace.py, of which this is the rounding; its six columns, which
\* parse_trace_line refuses, have been cut to the three it reads).
Access(s, t) ==
  /\ trace' = trace \o [k \in DOMAIN s |-> [addr |-> s[k][1], op |-> s[k][2],
                                            cycle |-> (tick + k - 1) \div div]]
  /\ made' = made \o [k \in DOMAIN s |-> t]
  /\ tick' = tick + Len(s)
  /\ UNCHANGED <<windows, how, pc, pos, cur, next, temp, reads, writes, out, perWindow>>

WorkloadInit ==
  /\ trace = << >> /\ windows = << >> /\ how \in Hows
  /\ RewriterStart
  /\ at = "init" /\ iter = 0 /\ v = 0 /\ e = 0
  /\ col_idx \in {c \in [Edges -> Nodes] : \A k \in Edges : c[k] # k \div DEG}
  /\ div \in TickDivs /\ tick \in 0 .. div - 1 /\ begin = 0
  /\ made = << >>

\* --skip-toolchain: the trace and the log are there, of whatever program.
JobInit ==
  /\ Init
  /\ at = "rewrite" /\ iter = 0 /\ v = 0 /\ e = 0 /\ col_idx = [k \in Edges |-> 0]
  /\ div = 1 /\ tick = 0 /\ begin = 0 /\ made = << >>

PageInit == WorkloadInit \/ JobInit

InitGraph ==
  /\ at = "init"
  /\ Access(<<Write(RowPtr), Write(OutDeg), Write(ColIdx)>>
            \o [n \in 1 .. 2 * NODES |->
                  IF n % 2 = 1 THEN Write(RankA(n \div 2))
                               ELSE Write(RankB(n \div 2 - 1))], -1)
  /\ at' = "begin"
  /\ UNCHANGED <<iter, v, e, col_idx, div, begin>>

\* Two of the fetches a call takes, and the marker.
WorkBegin ==
  /\ at = "begin" /\ iter < ITERS
  /\ Access(<<Read(Code), Read(Code)>>, iter)
  /\ begin' = tick' /\ v' = 0 /\ at' = "vertex"
  /\ UNCHANGED <<iter, e, col_idx, div>>

VertexStart ==
  /\ at = "vertex" /\ v < NODES
  /\ Access(<<Read(RowPtr), Read(RowPtr), Write(Acc)>>, iter)
  /\ e' = RowStart(v) /\ at' = "edges"
  /\ UNCHANGED <<iter, v, col_idx, div, begin>>

GatherEdge ==
  /\ at = "edges" /\ e < RowStart(v + 1)
  /\ Access(<<Read(ColIdx), Read(OutDeg), Read(OldRank(col_idx[e])),
              Read(Acc), Write(Acc)>>, iter)
  /\ e' = e + 1
  /\ UNCHANGED <<at, iter, v, col_idx, div, begin>>

StoreRank ==
  /\ at = "edges" /\ e = RowStart(v + 1)
  /\ Access(<<Read(Acc), Write(NewRank(v))>>, iter)
  /\ v' = v + 1 /\ at' = "vertex"
  /\ UNCHANGED <<iter, e, col_idx, div, begin>>

\* m5_work_end; se.py logs it, parse_windows divides both ticks.
WorkEnd ==
  /\ at = "vertex" /\ v = NODES
  /\ windows' = Append(windows, [id |-> iter, begin |-> begin \div div, end |-> tick \div div])
  /\ iter' = iter + 1 /\ at' = "begin"
  /\ UNCHANGED <<trace, how, pc, pos, cur, next, temp, reads, writes, out, perWindow,
                 v, e, col_idx, div, tick, begin, made>>

\* The loop ends (three of the fetches this takes) and final_rank is read, which is
\* what a next iteration would read.
Checksum ==
  /\ at = "begin" /\ iter = ITERS
  /\ Access(<<Read(Code), Read(Code), Read(Code)>>
            \o [n \in 1 .. NODES |-> Read(OldRank(n - 1))], ITERS)
  /\ at' = "rewrite"
  /\ UNCHANGED <<iter, v, e, col_idx, div, begin>>

Workload == InitGraph \/ WorkBegin \/ VertexStart \/ GatherEdge \/ StoreRank
            \/ WorkEnd \/ Checksum

Rewrite == at = "rewrite" /\ Step /\ UNCHANGED workVars

PageStopped == at = "rewrite" /\ pc = "done" /\ UNCHANGED pageVars

PageNext == Workload \/ Rewrite \/ PageStopped

PageSpec == PageInit /\ [][PageNext]_pageVars
-----------------------------------------------------------------------------
\* The entries make_region_only_traces collects, and the trace it writes for both
\* rewriters: all reads, then all writes, at cycle 0.
RankEntries == SelectSeq([i \in DOMAIN trace |-> i], LAMBDA i : InRank(trace[i].addr))
RankOnly ==
  LET of(op) == SelectSeq(RankEntries, LAMBDA i : trace[i].op = op)
      p == SortedSeq(trace, of("READ")) \o SortedSeq(trace, of("WRITE"))
  IN [k \in DOMAIN p |-> Emit(p[k], 0)]

-----------------------------------------------------------------------------
(* What the experiment is about. *)

Whole == [i \in DOMAIN trace |-> Copied(i)]

\* The number of the line that wrote what line k of lines reads, or 0.
Source(lines, k) ==
  LET W == {m \in 1 .. k - 1 : /\ trace[lines[m].idx].op = "WRITE"
                               /\ trace[lines[m].idx].addr = trace[lines[k].idx].addr}
  IN IF W = {} THEN 0 ELSE lines[CHOOSE m \in W : \A n \in W : n <= m].idx

\* The lines that are not of the rank arrays.
Traversal(lines) ==
  {lines[k] : k \in {m \in DOMAIN lines : ~ InRank(trace[lines[m].idx].addr)}}

FromWorkload == made # << >>

\* Every rank an iteration reads is the one the iteration before it wrote.
ReadsPrevious(lines) ==
  \A k \in DOMAIN lines :
    LET i == lines[k].idx IN
    trace[i].op = "READ" /\ InRank(trace[i].addr) =>
      Source(lines, k) # 0 /\ made[Source(lines, k)] = made[i] - 1

\* Double buffering makes every rewriter harmless for the ranks: in the rewritten
\* trace, in which an iteration's reads all come before its writes, each iteration,
\* and the checksum, still reads what the one before wrote (pagerank_pull.cpp
\* 105-126, run_experiment.py 106-242), although the trace is cut at cycles and an
\* iteration's first accesses share one with the last accesses of the one before.
RanksStillRight == FromWorkload /\ pc = "done" => ReadsPrevious(out)

\* The targeted rewriter leaves the traversal alone: the lines that are not of the
\* rank arrays keep their order and their cycles, and no read in the whole trace, of
\* whatever address, finds another value than before (run_experiment.py 165-179).
TraversalUntouched ==
  FromWorkload /\ pc = "done" /\ how.method = "targeted" =>
    /\ Traversal(out) = Traversal(Whole)
    /\ \A k, m \in DOMAIN out :
         k < m /\ {out[k], out[m]} \subseteq Traversal(out) => out[k].idx < out[m].idx
    /\ \A k \in DOMAIN out :
         trace[out[k].idx].op = "READ" => Source(out, k) = Source(Whole, out[k].idx)

\* What each burst of the targeted rewriter holds: every in-edge's old rank once,
\* every new rank once, and nothing else (the summary's per_window counts).
BurstPerIteration ==
  FromWorkload /\ pc = "done" /\ how.method = "targeted" =>
    /\ Len(perWindow) = ITERS
    /\ \A k \in 1 .. ITERS : /\ perWindow[k].reads = NODES * DEG
                             /\ perWindow[k].writes = NODES

\* Once there is a trace, both rewriters implement WindowBuffer: nothing is lost or
\* sent twice, and what is held is sent in one piece (run_experiment.py 113-124,
\* 149-188, 195-242).
ImplementsWindowBuffer ==
  [][at' = "rewrite" =>
       IF at = "rewrite" THEN [Buffer!Next]_Buffer!vars ELSE Buffer!Init']_pageVars

\* algo_explain.txt of the rank-only traces: the next rank buffer is not read until
\* the following iteration, so the reads may go first.  (make_region_only_traces
\* makes one burst of all iterations.)
RankOnlyReadsPrevious == at = "rewrite" => ReadsPrevious(RankOnly)
=============================================================================

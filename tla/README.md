# Verification of Ezh

Ezh studies DRAM optimisations for stencil-like workloads: freestanding
workloads run under gem5 (an external, modified simulator), gem5's packet trace
is turned into a DRAMsim3 trace, Python scripts rewrite that trace as an
optimistic memory controller would have reordered it, and DRAMsim3 (external
too) replays it. This directory holds TLA+ models of the parts that have logic
of their own, the TLC configurations that check them, and TLAPS proofs.
The repository has no tests; the models are read from the code.

## The system

    workload (C, C++) --m5 ops--> gem5 + se.py --log--> windows ---+
                                       |                           v
                                       +--packets--> converter --> rewriter --> DRAMsim3
                                                        |
                                                        +--> splitter --> bank shift

| Component | State it keeps | Operations | What is hard | What makes it correct |
|---|---|---|---|---|
| AMR streaming rewriter (`optimistic_buffer_trace_stream.py`) | cursor into the windows, two buffers, one spill file per window on disk, counters | place a line, flush a window, finish | a line passes several windows; kills leave files; order | each line once in the output; cycle order; only dependences the optimism gives up are lost; summary true |
| AMR batch rewriter (`optimistic_buffer_trace.py`) | all entries in memory | bucket, assign cycles, sort | cycles beyond the window, sort key | same promise as the streaming one |
| AMR workload (`amr_counts.cpp`) | pool of cells, count | alloc, split, merge, refine, coarsen, step | pool exhaustion inside a split, scan order, long sequences | leaves tile the domain; a step does all its merging |
| PageRank rewriters (`buffering_experiment/run_experiment.py`) | as the streaming rewriter; regions | targeted, blind, region-only | as above, plus which array an iteration writes | as above; the two methods differ |
| PageRank workload (`pagerank_pull.cpp`) | two rank arrays, CSR graph | iteration | double buffering | an iteration reads only the previous one's ranks |
| Graph coarsening (`graph_coarsening.cpp`) | levels of CSR graphs, matching | match, coarsen a level | numbering during the matching, markers on every exit | the matching is an involution; rows are consistent |
| FFT (`fft.c`) | array | bit reversal, stages | index arithmetic, markers | permutation; each element in one butterfly per stage |
| gem5 run loop (`se.py`) | none of its own; writes the log | marker and exit events | markers without partner | windows of one run follow one another |
| Converters (`parse_gem5.py`, `convert_trace.py`) | none | line to line | two roundings, column layouts | readers agree with writers |
| Splitter, cycle zeroing (`divideDRAMSimtrace.py`, `set_trace_cycle_zero.py`) | cursor, one file per iteration | split, normalise | which column is the cycle | each line in its iteration's file |
| Bank shift (`rewrite_dramsim3_bankshift.py`) | none | move a bit field in writes of i-1 and reads of i | aliasing, data used by a third iteration | injective on the addresses used |
| AMR region-only traces (`gcell_only_traces.py`) | none | filter, order | counts and order must fit the rewriter's | the same entries as the rewriting |
| AMR experiment driver (`aggressive_buffering/run_experiment.py`) | traces and results of earlier runs | rewrite, filter, simulate four times, plot | stopped runs leave files; reads the pipelines' files | a chart is of the trace the driver was given |
| Pipelines (`scripts/*.sh`, `scripts/riscv/*.sh`) | files of all stages | compile, simulate, decode, convert, replay | a stage fails, two pipelines share the binary and the log | an artefact comes from the run that claims it |
| Plots (`scrape_and_plot.py`), gem5 cache options, Clang tool | figures | parse, draw | little | not modelled |

`PROJECT.json` lists them all with their status, and under `hazards` what is
hard to test in them, each at its line.

## Modules

### TraceWindows

Trace lines, windows, which window holds a cycle (`InWindow`, and
`IsWindowForCycle`, the batch rewriter's search), and the order a phase is
sorted by. A line has an address, a command and a cycle; the fourth column is
copied unchanged everywhere and is left out, and so is the text of a line.

### WindowBuffer

What every buffering rewriter promises, stated without windows: entries are
taken in order, sent at once or held, everything held is sent together, a killed
run starts over. `StreamRewriter` is shown to implement it.

### StreamRewriter

One process, `rewrite_streaming`, with its loop as a program counter (`read`,
`line`, `tail`, `done`, `killed`). `cur`, `next`, `reads`, `writes` and
`active` are the code's `cur_win`, `next_win`, `reads`, `writes` and
`active_temp is not None`; a line is represented by its number. `temp` is the
directory `.tmp_windows` (a window without a file has the empty one, which the
code cannot tell apart: it copies it if it exists), `out` the output file.
A line of a file remembers the run that wrote it, which the properties need and
the code does not have.

| Action | Code |
|---|---|
| `SkipBlank`, `ReadEntry` | head of the loop, `advance_window` |
| `FlushPassed`, `FlushTail` | one round of each flush loop (`FlushWindow` is `flush_window`) |
| `PlaceEntry` | rest of the loop body: buffer, spill or pass through, with the counters |
| `EndOfTrace`, `Finish` | end of the loop; removal of the directory, summary |
| `Kill`, `Start` | the process dies between two steps; it is started again |

A kill drops memory, and any number of last lines of the open file, which the
process buffers. The file system is assumed to lose whole lines; a torn last
line would only add another foreign line to the ones discussed below.
A malformed line raises in `choose_delta`, before anything is written; that is
modelled in `Experiment`, where it matters what an earlier run left. `Spec` repeats a killed run with the same input, `SpecAnyInput`
lets the input change in between.

### GcellRange and GcellOnly

Both are operators: one value computed from the input, with no step of anything else in between. `GcellRange` is how the AMR
tools find the array: the virtual range from the GCELL lines of the logs
(`parse_gcell_range`: one base, the greatest end), and the offset to physical addresses,
given or guessed from a few candidates by the lines of the trace that fall into
the array. The two rewriters each have a `choose_delta` for that, and the module has both.

| Operator | Code |
|---|---|
| `Keys`, `Counters`, `MaxKey` | the streaming one's dictionary (a repeated candidate is one key, an untried one none), its one pass over the trace, Python's `max` (among the greatest the first inserted) |
| `BatchSearch`, `Better` | the batch one's loop over the candidates, a pass over the entries for each, `best_delta` and `best_count` from -1 on |

A loop is a recursive function, of the lines or of the candidates done so far. The two differ
in one case: if no candidate keeps the array above address 0, which needs a given
offset, the streaming rewriter raises and the batch one goes on with the first candidate
and no hits.

`GcellOnly` is `gcell_only_traces.py`. It shares the reader of the logs with the streaming rewriter but finds
the array on its own: at the offset given, else at a default (`OnlyDelta`, `DefaultDelta`), one of the constants
that the rewriters try, whether or not it puts the array below address 0. Then the lines of
the array, with cycles counted from
the first, and sorted by phase at cycle 0; and the two ways in which the drivers
read off a trace how many cycles DRAMsim3 shall simulate (`FinalCycleOfLast`,
`FinalCycleOfAll`). A list that the code filters or sorts is the set of its line numbers,
put in the order of the trace or of the key (`InTraceOrder`, `InKeyOrder`).

### BatchRewriter

`rewrite_trace` with the whole trace in memory. `bucket` is `window_buckets`, `output`
the list of entries with their present cycles, `gap` the options `--issue-gap` and
`--phase-gap`. The steps are the loops of the code: `SkipLine` and `BucketEntry` go
over the entries (the parser drops blank lines and comments), `EmitWindow` gives one
window's reads and then its writes their cycles (`Dense` is `assign_dense_cycles`,
`WriteStart` the start of the write phase), `SortOutput` is the last sort, whose key
is the cycle, then reads first, then the address. The order of entries that agree in
the whole key is the order of the trace, as the number is part of the key. The module
has steps and no specification of its own: it runs in `BothRewriters`.

### BothRewriters

The two AMR rewriters on one input, each from its `main`: find the array (or refuse), then
rewrite; first the streaming one (an instance of `StreamRewriter`, one run and no kill),
then the batch one; and on the same input, as operators, the g_cells-only tool. They share nothing but the input. The jobs of the instance are the calls
its `main` makes for the inputs (`StreamCalls`). The module states what the two, and the
tools used with them, agree on.

### Mesh and AmrTree

`Mesh` is the abstract adaptive mesh: a set of tiles in which one tile is
replaced by its quadrants, or four quadrants by their tile. `AmrTree` is
`amr_counts.cpp`: `cells` and `count` are `g_cells` and `g_cell_count`, the
loops of `adapt_refine` and `adapt_coarsen` run with the index `i`, and a step is
`BeginStep`, `RefineCell` for each cell, `RefineDone`, `CoarsenCell` for each cell
downwards, `EndStep`. `split_cell` is `Split` or, when the pool runs out, `GiveUp`,
which leaves up to three allocated cells behind: orphans, live leaves without
parent or area. The sampled field is left open: a cell's variation is any
element of `Variations`, but the same one whenever it is estimated in the same
step, since `estimate_variation` is a function of the cell and the step
(`variation` remembers it). A value is the step it was computed in, and
`None` for a slot that has only been allocated.

With the constants in the source, 64 by 64 roots in a pool of 4096 cells, the
pool is full before the first step: every split gives up with nothing allocated,
and the mesh never changes. The model takes pool and grid as parameters and
checks the interesting case, a pool that runs out later.

### RankRewriter

The two PageRank rewriters of `run_experiment.py`, one module with a `mode`. They
share the loop and the flush (windows passed by a line, the left-over windows at the
end) and differ in which lines they hold and in what a burst is: `targeted` holds the
reads of both rank arrays and the writes of the array this iteration writes
(`DestRangeForIter`) and sends them, reads first, at the window's first cycle; `blind` holds every
line of a window, sorts reads and writes by address (`SortedSeq`) and spaces them by
`issue_gap`. The targeted rewriter's file for the current window is `temp`. There are no
kills here: the files and their names follow the same code as in `StreamRewriter`,
where kills are checked.

### PageRank

`pagerank_pull.cpp` from `init_graph` to the checksum, as a program that issues one
access after another and takes ticks to do so; then `RankRewriter` on its trace. It may
also begin with any trace (`JobInit`, `--skip-toolchain`), as nothing ties the
rewriters to this workload. A
rank's value is the iteration that wrote it, so "reads the ranks of the iteration
before" can be asked of any order of the accesses: `RanksStillRight` asks it of the
last write in front of each read. The work markers are the workload's, and the
cycles and windows are computed from its ticks as `convert_trace.py` and `parse_windows`
do it, both rounding down. Of the converter only that is modelled: the six columns it writes are
refused by `parse_trace_line` (`run_experiment.py` 43-44), so the trace has to be brought to
three or four columns first, which leaves address, command and cycle as they are. `RankOnly` is
`make_region_only_traces`, which forgets the windows.

### TraceSplit

The older pipeline: a converter turns decoded packets into lines
(`parse_gem5_trace.py` into three columns, `convert_trace.py` and `parse_gem5.py` into
six, each with the fields it accepts), `divideDRAMSimtrace.py` reads the log (`ReadLog`, or `LogRefused` where it
raises) and cuts the trace at its iterations (`SplitLine`, with its cursor `idx`), and
`set_trace_cycle_zero.py` makes each piece start at cycle 0 (`ZeroFile`, in any order:
`os.walk` promises none). A line is the packet it came from, its number of columns, its cycle and
the number in its last column, which the splitter takes for the cycle. `ParsedWindows`
is the rewriters' own, more permissive reading of the same log.

### GraphCoarsen

`graph_coarsening.cpp`, one action per round of its loops: `GenerateRow`; `LevelBegin`;
`MatchNode` (`greedy_matching`); `NumberNode` and `CoarseRow` (`coarsen_once`);
`LevelEnd`, or `LevelsUsedUp` when the loop over the levels ends by its bound. Graphs
are kept in compressed rows as in the code, so that an edge too many for the array can
do its harm. Random neighbours may be any. `coarse_id` is uninitialised memory in the
code; here it is `None` until written, and `EveryNodeNumbered` shows it is never
read before. The markers are recorded in `marks`.

### FFT

`fft.c`: `Reverse` is a round of `bit_reverse`, `StageBegin`, `Block`, `Butterfly`,
`BlockEnd`, `StageEnd` are the three loops of `fft`. The transform needs nothing of
complex numbers but that they are a field with a root of unity of order `FFT_N`, so the
model computes modulo a prime that has one. That makes it exact: a wrong index or a
wrong twiddle factor gives a wrong number.

### BankShift and ShiftedFFT

`BankShift` is `rewrite_dramsim3_bankshift.py` on a directory of one trace per iteration:
`Collect` makes `main`'s checks, `RewriteFile` loads, rewrites and writes one file, or
ends the script where the code raises: an unreadable line, a field below bit 0, before or after the move, of a request to be moved.
`ApplyMap` is the plan (the reads of an affected iteration, the writes of the one before),
`Moved` the move of the field, as arithmetic on the address. `ShiftedFFT` composes it
with the FFT: every butterfly's four accesses are traced into the piece of their
stage, and the pieces go through the rewriter; or the rewriter gets any other directory
(`AnyFiles`).

That composition is what `fft_workloads_run.sh` does, with two differences in its numbers:
it takes a field of 16 banks from bit 0, and moving it overwrites bits in which addresses
differ (no `StayApart`, see the `fft` run), and an iteration set of 10, of which it simulates no later piece than that of iteration 9, so of the
moved requests it sees only the writes.

### Experiment

The AMR experiment across processes: the pipelines of `scripts/`, any number of them at a
time, and `aggressive_buffering/run_experiment.py`. A file's content is the program version and
machine it comes from.

| Variable | Code |
|---|---|
| `source`, `bin` | `amr_counts.cpp`, and the one binary all pipelines compile to |
| `log` | `amr_log_baseline.txt`, and `amr_log.txt` of the buffered pipelines: whose lines, and whether to the end |
| `pipe` | by pipeline: the script's stage, and the simulation in its `m5out` directory |
| `raw`, `trace` | the x86 baseline's decoded packets and DRAMsim3 trace, which the driver reads |
| `step`, `skip` | where the driver is, `--skip-dramsim` |
| `derived`, `results` | its `results/traces` and `results/dramsim` |
| `behind`, `quiet` | history, for the properties: what the trace lacks since the last simulation, and whether a baseline file was written since the driver began |

A pipeline's steps are `Compile`, `SimStart` (the shell empties the log, gem5 takes the
binary or refuses it), `SimEnd`, `Decode`, `Convert`; `PipelineStops` is `set -e`, or an
interrupt, after any of them. `ConvertByHand` is the user who makes the
three columns the driver can read: the pipelines' converter writes six, and `Readable`
refuses them as `parse_trace_line` does. The driver's steps are those of `main`, each with the
files it reads and replaces; `DriverStops` leaves what a step had begun. Files of the other
pipelines that no one here reads are left out. `OneBase` is the check on the GCELL lines, which
are in the log and in `m5out`: the two machines' binaries have the array at
different addresses, so a mixture of both is refused; it is the only thing that
tells two simulations apart.

The scripts for the other workloads repeat this shape, and so does the driver of the PageRank
experiment, which runs its own toolchain first. `riscv/buffer_workloads_run_fft.sh` converts
the trace of the baseline pipeline, as its own simulation is commented out.

## Runs

| Run | Checks | Bounds | States |
|---|---|---|---|
| `stream` | `StreamRewriter` under `FairSpec`: type invariant, five invariants, refinement of `WindowBuffer`, termination | 3 lines from 5 kinds at 4 cycles (or blank), 2 window layouts, 3 runs (2 kills) | 1.07 million |
| `stream_stale` | `SummaryMatchesOutput` under `SpecAnyInput`: violated | 1 line, 2 runs | |
| `rewriters` | `BothRewriters`: six invariants | 3 lines from 6 kinds at 3 cycles (or blank), 2 window layouts, 2 pairs of gaps, offset given; 2 lines, 6 logs, 2 offsets given or none | 575 000 |
| `pagerank` | `PageRank`: four invariants, refinement of `WindowBuffer` | all graphs of 3 nodes with 1 in-edge each, 3 iterations, 1 to 3 ticks per cycle; all traces of 3 lines from 5 kinds at 3 cycles (or blank), targeted, and blind with gaps 0 and 1 | 316 000 |
| `rank_only` | `RankOnlyReadsPrevious`: violated | as `pagerank`, 2 iterations | |
| `split` | `TraceSplit`: four invariants | 2 iterations in either order and 3 packets at ticks 0 to 6, 3 ticks per cycle; all logs of up to 4 markers | 464 000 |
| `split_new` | `SplitByCycle` for `convert_trace.py`'s lines: violated | 2 iterations, 1 packet | |
| `coarsen` | `GraphCoarsen`: four invariants | 4 nodes, 2 draws each, room for 7 edges, 3 levels, smallest size 1 | 618 000 |
| `fft` | `ShiftedFFT`: four invariants | 8 elements modulo 17, all 0/1 arrays; 20 command lines; all directories of 2 traces of 2 lines | 66 000 |
| `amr_tree` | `AmrTree`: six invariants, refinement of `Mesh` | 2 roots, 17 cells, depth 2, 4 steps, 4 variations, domain 5 by 5 | 39 000 |
| `experiment` | `Experiment`: two invariants | the x86 and the RISC-V baseline pipeline, 2 versions of the program | 8.6 million |
| `experiment_torn` | `AtEachIterationBegin`: violated | as `experiment` | |

**stream.** Three lines suffice for every pair of requests with one in between,
and for one line that passes both windows with something held in the first.
Cycles 0, 2, 3, 5 lie before, inside, on the shared boundary of and after the
windows of the first layout, and in the gap of the second, whose last window no
line reaches. Traces need not be in cycle order; the properties that presuppose
it say so. Two kills show that what a run leaves can survive a run that is itself
killed. The invariants say: every line read is held or once in the output
(`Conservation`); a rerun with the same input never writes what an earlier run
left, though nothing clears the directory (`OnlyOwnLines`); the output is in cycle
order (`OutputInCycleOrder`); the only dependence given up is a read after a write
in one window (`DependencesKept`); the summary is true of the file
(`SummaryMatchesOutput`).

**stream_stale.** If the trace or log changes between a killed run and the next
one, the next run may copy a file the killed one left: `flush_window` copies
whatever exists under the window's name, and only the first line in a window
opens, and so truncates, that file. The output then has more lines than
`output_entries` says. With an unchanged input this cannot happen, which is what
`OnlyOwnLines` says, and is proved.

**rewriters.** Cycles 1, 3 and 4 are the boundaries of the first layout, whose windows
share cycle 3; the second has a window of one cycle and leaves cycle 4 outside, right
behind it. Gaps of 1 and 1 move every term of `WriteStart`.
Of the batch rewriter: every entry is in the output once and the count of what is outside is right
(`Conservation`), and `DependencesKept` says which orders among requests to one address
survive. It has a premise: every burst ends before its window does
(`BurstsFit`). Without it TLC refutes it: in the window of cycle 3 a read and
a write, with a phase gap of 1, put the write at cycle 5, behind a read of the same
address at cycle 4 that came after it. Nothing in the code checks that bursts fit.
The batch rewriter also gives up one dependence the streaming one keeps: of two
windows that share a cycle, the final sort puts the second one's read before the
first one's write if both have that cycle.

Of the two together: for traces in cycle order and without gaps they buffer the same
requests, a cursor and a search agree on the window of a shared cycle,
each phase of a window has the same order, and the cycles are the same but
for the one cycle the batch rewriter puts between a window's reads and its writes
(`RewritersAgree`; the streaming rewriter has no gaps, so there is nothing
to compare with gaps). The two searches end at the same range, and the hits each reports
are the entries its rewriting finds (`RangesAgree`). The candidate ranges of the second
group of inputs overlap, so lines lie under none, one or two of them and two candidates may tie;
one log makes two candidates the same, and under another one is not tried. With `>=` in place of `>` in
the comparison TLC finds a tie on which the two part.

The g_cells-only tool has the entries that the rewriters count if all are given the offset, as the
driver does (`run_experiment.py` 223 and 253). Without it the tool takes its default and they guess,
and the ranges may differ: `Len(Original) = counts.gcell` is then false (a line at address 5,
under candidate 0 only). What holds is an inequality: it never has more. The default is one of the
candidates; or it is not tried, and then its array, cut off at address 0, lies inside that
of the last candidate, which begins there. In both cases an optimistic trace has a burst's
requests in the burst's order (`GcellOnlyAgrees`). The two ways to
compute the simulated cycles agree on every file of this experiment
(`FinalCyclesAgree`).

**pagerank.** On any trace, both rewriters are the abstract buffer (`ImplementsWindowBuffer`).
The output is in cycle order (`OutputInCycleOrder`) under two premises, and TLC refutes
it without either: the gap is 0 (with a gap a blind burst ends after its window, and
the lines that follow have earlier cycles), and there are only reads and writes in the
trace (the blind rewriter spills other commands behind the burst).
On the workload's trace, every iteration of the rewritten trace still reads the ranks of the
iteration before (`RanksStillRight`), row pointers, columns and out-degrees are still
read as they were (`TraversalUntouched`), and a targeted burst holds each in-edge's
old rank and each node's new rank, and nothing else (`BurstPerIteration`).
The interesting case is the shared cycle: two iterations with one cycle in common put
the first accesses of the later one into the earlier one's window and so to its
front. What decides is how much fits into a cycle. The pipelines divide ticks by 630,
and at gem5's 250 ticks per CPU clock a cycle is 2.5 clocks, in which an in-order CPU
also fetches instructions. The model makes one access per tick and only a few fetches,
so its 1 to 3 ticks per cycle are denser than the real trace; up to 3 the three properties are
theorems for every graph. Beyond that `RanksStillRight`
fails: with 4 ticks per cycle, as a run with other bounds shows, the checksum's
first read falls into the last iteration's last cycle and is moved before the write it
should see. What keeps the real traces right is that ratio; no code checks it.

**rank_only.** The rank-only trace, from which the script derives the cycles it
reports for the targeted method, puts the reads of all iterations before the writes of
any; the script's explanation says the buffered array is read in the following iteration.

**split.** Two iterations over seven ticks at three ticks per cycle can share a cycle,
touch, be empty or lie in the reverse order of their ids; three packets can fall
before, in, between and after them. `SplitByCycle`: each line is in the piece of the
first iteration that has its cycle, once, and nothing else is there. `WithinACycle`
holds that against the ticks: the converter rounds up and the log is rounded down, so
a packet sent in an iteration's last, incomplete cycle may be missing from its piece,
and one sent less than a cycle before it may be in it, but no more than that.
`ZeroedFits`: a normalised piece keeps its distances and has no cycle beyond the number
its name gives. `LogReadersAgree`: on every log the splitter accepts, the rewriters
read the same windows. Logs of up to four markers, most of which no run writes, include every
repeated, missing or reversed marker.

**split_new.** `convert_trace.py`, which the workload notes use before splitting,
writes six columns with the cycle in the third. The splitter takes the last, `opt_flag`,
for the cycle. (The rewriters' `parse_trace_line` refuses six columns instead.)

**coarsen.** With four nodes and two draws each a graph may have eight edges, one more
than there is room for, and the last row of `generate_graph` is cut; later no edge is
ever dropped (`Quotient`), since a coarse graph has no more edges than the finer one.
Four nodes can be halved twice, lose one node at a time, or not shrink at all, and
three levels are used up by the slow ones: all three ways out of the loop occur. The
third, the bound, leaves a `work_end` without `work_begin` (`LevelMarkers`), for which
`divideDRAMSimtrace.py` raises; the graph of the source stops earlier, by its size.
`GreedyMatching` says what greedy guarantees on a directed graph: an edge between two
nodes left alone leads back to an earlier one, so the matching need not be maximal.
The comment at line 144 calls the returned level the last one; after either `break`
there is a coarser graph one level on. Nothing uses the value.

**fft.** `ComputesDFT` compares with the definition of the transform. It is linear in
its input, so the arrays with a single one would do; all 256 arrays of zeros and ones
are taken. The property is stated for every stage, bit reversal included, and
for the last one it is the transform of the whole array. `ReadsBeforeWrites` is what makes a stage a work item the rewriters can treat:
all its reads may go before all its writes.
`FieldMoved` holds the arithmetic of the bank shift against sets of bits, for moves up and down,
overlapping and not, of fields of no, one and two bits. `FlowKept`: each read finds the same write as
before, if no two addresses have become one (`StayApart`) and data only flows from one iteration to
the next (`FromPrevious`), as the stages' does. Both premises are needed: with the array at
address 8, moving bit 3 by one keeps elements apart and moving two bits from bit 0 does not; and
in other directories a read may find a write of its own iteration. Three command
lines are refused, one field has nowhere to go.

**amr_tree.** Two roots of unequal width (the last takes the remainder), of
which one has a child that can be split again and children that are too narrow;
17 cells are used up by three splits with three slots left over, so a fourth
gives up in the middle. Four steps allow a split, a split of a child, a merge of
both levels in one scan and a new split. The variations lie below, on and above
both thresholds.

**experiment.** Two pipelines that share the binary and the log, and a driver, all
running at once and stopped anywhere; with two versions an old file can be told from a
new one. The third and fourth pipeline, the buffered ones, share only the binary with these, which
the RISC-V one already replaces at every moment.
`ResultsOfThisRun`: whatever earlier, stopped runs left, a run of the driver that
simulates plots results of the trace it was given, since every step replaces its files and
a failing step ends the run. `WindowsOfTheTrace`: once the pipeline has got as far as its
trace, the trace is rewritten by its own simulation's iterations or not at all, even
with the other machine's pipeline at work. Both presuppose that no baseline file
is written while the driver runs, as it reads the trace and the log several times, and
nothing locks them.

**experiment_torn.** A pipeline stopped between simulation and conversion, on a changed program, leaves the new log
and the old trace, and the driver takes both. The GCELL check does not see it: both
programs have the array at the same address.

## Fairness

`FairSpec` has weak fairness of the process's own steps: it is one sequential
program and nothing blocks it. It also has weak fairness of `Start`: someone runs
the script again after a kill. Without it a killed run simply stays killed.
The number of runs is bounded, and `Kill` keeps within the bound, so the last run
is not killed: `EventuallyDone` says that finitely many kills do no harm.
The AMR workload is a nest of bounded loops, and no liveness is claimed of it, nor of the
other workloads and tools, which are the same.

## Proofs

What is proved holds for every value of the constants, from the named assumptions.

**`StreamRewriterProofs`**: for every set of jobs, every trace length, window
list, address range and number of runs, from the assumptions in
`StreamRewriter` (jobs are well typed; windows are sorted by id and follow one
another; ids are numbers; there is at least one run):

- `TypeCorrect`: `Spec => []TypeOK`.
- `Invariance`: `Spec => []Inv`, the inductive invariant.
- `NothingLost`: `Spec => []Conservation`.
- `RerunIsClean`: `Spec => []OnlyOwnLines`.

`Conservation` and `OnlyOwnLines` are not inductive: whether a file left by an
earlier run is flushed depends on where the cursor is. `Inv` adds
three parts to `TypeOK`. `CursorInv`: a window that some line read so far falls in
has not been passed without one, so the cursor is a function of the lines read.
`LeftInv`: a file that holds another run's lines belongs to a window at or ahead of
the cursor whose own lines are still to come, and then that window's first line
truncates it before it is flushed (`LeftNotFlushed`). `PlaceInv`: the held lines,
the current file and the output partition the lines read, without repetition and
with this run's stamp. Each part has a lemma that the steps preserve it, with one
case per action.

The summary, `SummaryIsTrue`: `Spec => []SummaryMatchesOutput`. `CountInv`
has them in every state: an entry is counted when it is placed and
written when its window is flushed, so the counters run ahead of the output by what is held and
spilled. The sum over the windows, for which recursion would be needed, is stated as the existence
of a function that adds them up (`WindowsAddUpTo`); each flush extends that function by one window.

The refinement, `Implementation`: `Spec => ImplementsWindowBuffer`. Under
the mapping in `StreamRewriter` a placed line is the next entry, sent or held (`PlaceTakes`); a flush
appends the numbers of exactly the held lines (`FlushDrains`, from `PlaceInv` and `LeftNotFlushed`: no
foreign line, none twice); a kill and the start after it start the buffer over; every
other step stutters.

The order, for every job whose trace is in cycle order:

- `CyclesInOrder`: `Spec => []OutputInCycleOrder`.
- `DependencesHold`: `Spec => []DependencesKept`.

Neither property is inductive: a flush writes lines that were held while others were passed
through. `Ordered` says how the two lie. What is written is not after the current window's
begin, nor after all lines read (`Past`), because a line passed while the cursor is at a
window comes before it; a spilled line lies in the window and is no buffered request
(`Aside`); a held request falls in the window and has a higher number than every line
written. So a flush, whose burst is at the window's begin and whose spilled lines are at or
after it, keeps the cycle order, and `Sorted`'s key keeps the requests to one address in order
within a phase. `ReadsFirst` is why the reads may go first: a read and a write held together
are in the same window (`FallsInWindow`), which is the one case the property leaves out.
`FlushOrder` and `PlaceOrder` have the two steps that matter.

The bursts, `BurstInvariance`: `Spec => []BurstInv`. For the same jobs it says of the output what a
reader of the trace and the log alone could say: a buffered line belongs to the first window
that holds its cycle (`InBurst`) and has that window's first cycle; all other lines keep their own; the
lines of a burst are in the order of `Precedes`; and `counts.outside` is the number of g_cells
lines in no burst. The cursor is at that first window because the lines come in cycle order.
`SortExists`: every finite set of lines has a sorted list, so a flush always has one to write; by
`ListInOrder`, which lists a set in any linear order by counting predecessors.

**`BatchRewriterProofs`**: for every input `InputsAssumption` admits (windows by id, one
after the other; any trace and log), every pair of gaps, and whichever of the sorted lists `SortOutput` takes:

- `BatchInvariance`: `BothSpec => []BatchInv`.
- `BatchKeepsAll`: `BothSpec => []Conservation`.
- `BatchDependencesHold`: `BothSpec => []DependencesKept`.
- `SameRange`: `BothSpec => []RangesAgree`.
- `StreamRuns`: `BothSpec => SP!Spec`, where `SP` is `StreamRewriterProofs` for the calls made here.
- `SameRewriting`: `BothSpec => []RewritersAgree`.
- `SameRegion`: `BothSpec => []GcellOnlyAgrees`.
- `SameFinalCycle`: `BothSpec => []FinalCyclesAgree`.

`BatchInv` has a part for each question. `BucketInv`: each bucket is exactly the entries
read so far that go to it, which makes the buckets disjoint. `PlaceInv`: the output and the buckets
still to be emitted partition the entries read. `CycleInv`: an entry outside keeps its cycle, an entry of a
window is given one from the window's first on, its reads all before its writes, and each phase in
its key's order. `SortedInv`: the last sort leaves no two entries the wrong way round. A dependence
between windows is then kept because a burst that fits ends before the next window begins, and
one within a window because of `CycleInv`.

`SameRange` compares the two searches. That the recursive functions exist and are those of their
equations is `TableExists`: by `UpTo`, an induction in the form of a statement about sets of
numbers, which the least counterexample gives. `CountersFacts` is what the one pass leaves in the
dictionary, for each key the number of lines in its array; `SearchFacts` what the running comparison has
after each candidate: the first of the greatest among those tried so far. `SameSearch` puts the two together:
the first key with the greatest counter is the candidate the comparison stops at, whatever the ties and
repetitions. The rest is that the two rewrite with what they found. `CallInv`: each runs with what its own preparation of the one
input gives it, and only if that did not refuse. `HitInv`: the streaming rewriter's count is of the
entries of the array it has placed so far. For the batch rewriter the same count is `Conservation`.

The last three need both rewriters' invariants at once. `StreamJobs` shows that what the streaming one is
called with fulfils the assumptions of `StreamRewriter` (the offset chosen keeps the array at or above
address 0, `SameDelta`; the ids are numbers, `IdsAssumption`); with `StreamRuns` all its theorems hold
here. `DenseInv` says of the batch rewriter that without an issue gap a phase is in
one cycle. `BothInv` is everything proved of the two. In it a burst of the one is a bucket of the other
(`SameBurst`: `InBurst` is `GoesTo`), which gives the cycles (`CyclesAgree`), and the order of a phase,
which in the one is that of `Precedes` and in the other that of the last sort (`OrdersAgree`). The
g_cells-only tool has its own range, so `RegionCounted` compares it with the rewriters': the lines in it are hits of
the offset given, or no more than those of the guess (for the reason given under the run). Its
traces are three lists without repetition (`TraceOrderFacts`, `KeyOrderFacts`: the lists
`InTraceOrder` and `InKeyOrder` choose exist), whose order is again that of `Precedes` (`OptimisticFacts`).
`LastIsGreatest` needs only that a trace is in cycle order and has no negative cycle.

**`PageRankProofs`**: for every graph, iteration count and tick division, and every trace
and log given instead (`PageRankAssumption`, `RankJobsAssumption`):

- `PageInvariance`: `PageSpec => []PageInv`.
- `RankCyclesInOrder`: `PageSpec => []OutputInCycleOrder`.
- `RankImplementation`: `PageSpec => ImplementsWindowBuffer`.
- `RanksSurvive`, `TraversalKept`, `BurstsWhole`: `PageSpec => [](FewTicks => P)` for `RanksStillRight`,
  `TraversalUntouched` and `BurstPerIteration`.
- `TraceInvariance` and `RewriteInvariance`: `PageSpec => []TraceInv` and `[]RewriteInv`, which these rest on.

`WorkInv` shows that the windows of the workload's own log follow one another, which the rewriter
relies on and the given logs are assumed to do: an iteration begins no earlier than the last
ended, and rounding down keeps that. `RankType` and `CursorInv` place the rewriter's cursor; `PlaceInv`:
what is held has been read, each line once, in one place. `OrderInv` is for the traces whose order is kept:
what is written ends before the current window and before one of the lines read, and
a spilled line lies in its window. `SortedSeq` gives each line the place of its rank, the number of lines before it in the
key's order, so that `SortedSeqFacts` can show it a permutation, by counting.

The three about the workload's own trace say first what that trace looks like. `TraceInv` gives each line the
iteration that made it: that only grows along the trace (`MadeInv`), decides which array a rank
access is to (`LineInv`), and each iteration reads a rank per edge and writes each once (`WroteInv`, `CountInv`).
`CycleInv` is where `FewTicks` is used: an access of the ranks is at least three ticks from the markers
on its other side, so in no cycle of another iteration's window. `FewTicks`, at most 3 ticks per cycle, is a
premise because the code has no such check; with 4, `RanksStillRight` is false. `RewriteInv` then says which lines
may come after which (`Follows`): rank accesses in the order of their iterations, and no read of an iteration after its
writes; for the targeted rewriter also the other lines, and a write and another access of one address, in
the order of the trace. That the output is so ordered (`SentInv`) is kept by a flush because what is held is of the current
iteration and all that is written of an earlier one (`HeldInv`, `PassedInv`), and because an iteration reads one array
and writes the other, which is why the two must be disjoint (`PageRankAssumption`). From it the last write in front of a
read is found without following the trace any further (`SourceFacts`).

**`TraceSplitProofs`**: for every log, every list of packets in the order of their ticks and
every number of ticks per cycle (`SplitAssumption`):

- `SplitInductive`: `SplitSpec => []SplitInv`.
- `ReadersAgree`: `SplitSpec => []LogReadersAgree`.
- `PiecesByCycle`, `PiecesByClock`, `PiecesFit`: `SplitSpec => [](ThreeColumns => P)` for
  `SplitByCycle`, `WithinACycle` and `ZeroedFits`.

`ThreeColumns` says that the converter is `parse_gem5_trace.py`; with the others the splitter takes the wrong
column, as `split_new` shows. `CursorInv`: an iteration that the cursor has left is over
before all lines still to come. That needs the lines' cycles in order, which they are because the ticks are and
both roundings are monotone. `FileInv`: a piece has those lines, of the ones read,
that its iteration is the first to hold, in order, and from what is normalised its first line's
cycle has been taken off. `SplitLineKeeps` and `ZeroFileKeeps` are the two steps that matter; `GoesToFirst`: the
iteration the cursor stops at is the first that holds the line, if one does. `RoundedUp` relates the two roundings. `ReadLog` takes
a list of the iterations in begin order, of which there is just one; that there is one
is left to TLC, for which a log without one would be a deadlock.

**`GraphCoarsenProofs`**: for every number of nodes and edges, every room for edges, bound on the levels and smallest size,
and every graph drawn (`CoarsenAssumption`):

- `CoarsenInductive`: `CoarsenSpec => []CoarsenInv`.
- `MatchingIsGreedy`, `AllNumbered`, `CoarseIsQuotient`, `MarkersPaired`: the four
  properties of the run.

`CoarsenInv` is `ShapeInv` (well-formed rows, array sizes by level, no loops), `LoopInv` (which rows are
still empty), `MatchInv` (the partial matching pairs along edges, and a node left alone
has been passed), `NumberInv` (the pairs whose smaller node has been passed have the numbers so far, each pair
one), `RowsInv` (the rows finished are the quotient's, counting edges) and `MarksInv` (four markers per level).
No edge is dropped for want of room because the edges written so far are as many as fine edges
leaving the nodes of these rows, and so never more than there are. `CoarseRow` collects a row's
edges by a recursive function over the fine edges; that the function exists and how many it has collected is
proved by the least counterexample.

**`AmrTreeProofs`**: for every pool, grid, depth, number of steps, pair of thresholds
(the lower first) and set of variations (`SizesAssumption`, `ThresholdsAssumption`):

- `AmrInductive`: `Spec => []IInv`.
- `Tree`, `SlotsLost`, `Values`, `ScanIsEnough`, `CreatedStay`: `TreeWellFormed`,
  `OrphansOnlyWhenFull`, `FreshValues`, `CoarsenExhaustive` and `CreatedCellsStay`.
- `Tiles`: `Spec => []LeavesTileDomain`, if the pool has room for the root grid. Otherwise
  some roots are never allocated and part of the domain has no cell.
- `KeepsMesh`: `Spec => ImplementsMesh`.

The links of the tree keep each other: `TreeWellFormed` is inductive with `TypeOK`. `RootedInv`: a live cell without a parent
is a root, or one of the last three slots of a full pool and a leaf without area. `CreatedInv`: a cell
created in this step is a leaf whose parent varies more than the refinement threshold, and the estimate is kept, so
the scan cannot merge it. `ScannedInv`: what the scan has passed and could be merged varies too much; a merge
makes a new leaf of the cell at hand only, whose parent has a lower slot and is still to come, so one scan is
enough. `ValueInv` is `FreshValues` during a step. For the mesh, the quadrants of a box
partition it point by point (`Quadrant` rounds down), so a split and a merge keep the tiling, and
the leaves without the orphans are `Mesh`'s tiles.

**`FFTProofs`**: for every size that is a power of two (`PowerOfTwoAssumption`), every
field and array, and every directory and option of the bank shift:

- `ReadsComeFirst`: `Spec => []ReadsBeforeWrites`.
- `FlowStays`: `Spec => []FlowKept`.

The first has an inductive invariant of its own, `StageInv`: the elements written are the blocks before `i` and
the first `j` of each half of the block at `i`. That a block never crosses the end of the array is where the size
must be a power of two, stated as a set closed under halving. The second is about one
moment, when the rewritten directory is complete: a request is moved if it reads in
an affected iteration or writes in the one before, and the writes a read can see are, by `FromPrevious`, moved
exactly if the read is; `StayApart` does the rest.

**`ExperimentProofs`**: for every set of pipelines that has the x86 baseline in it, and
any number of versions (`PipelinesAssumption`, `VersionsAssumption`):

- `Invariance`: `Spec => []IInv`.
- `ChartsAreOfThisRun`: `Spec => []ResultsOfThisRun`.
- `WindowsAreOfTheTrace`: `Spec => []WindowsOfTheTrace`.

The invariant has a part for the pipelines and one for the driver. The pipelines: a simulation is of its
own machine's binary (`OwnMachine`); every line in the baseline log is RISC-V's or of the last x86
simulation (`LogOfLast`); the decoded packets and the trace are of that simulation as
`behind` says (`CaughtUp`). Hence a log in which all bases agree with `m5out`'s is all of one
simulation (`RewrittenRight`). The driver: what the steps so far have made is of the trace
it was given (`RewrittenNow`, `FilteredNow`, `SimulatedNow`), so each step needs
only that the one before it ran in this run.

Where an induction over numbers is needed it is by the least counterexample (`LeastNatural`, from the
library's theorem that `<` is well-founded), as the library's induction theorems take an operator.

Model-checked only:

- `ComputesDFT`, whose sums and powers are recursive functions, and which rests on the algebra
  of the field;
- `FieldMoved`, arithmetic with powers of two, which the provers do not do;
- the existence of the lists that `ReadLog` and `SortOutput` choose from (`SortedIters`,
  `SortedOutputs`; of `Sorted` it is proved): a step without one would be a deadlock, which TLC looks for;
- liveness (`EventuallyDone`) and `ENABLED`, which TLAPS cannot prove.

## What is left

Worth proving next: `FieldMoved`, once the provers do powers of two. Worth modelling: the pieces an earlier split leaves in its directory, which
zeroing would change a second time.

## Not modelled

- The external simulators, gem5 and DRAMsim3: their sources are not in the repository. What the
  simulator does with the range of `m5_dram_opt_enter` is therefore open, too.
- gem5's configuration (`CacheConfig.py`, most of `se.py`): gem5's own code with small edits, which builds
  a system and has no state of its own.
- `scrape_and_plot.py`, the plots of the drivers, and the Clang tool, whose list of comments nothing
  reads.
- Text formats beyond the columns a reader depends on. In particular the last line of a
  trace without a newline, to which a flush at the end would append its first line.
- Floating point arithmetic: FFT values are modulo a prime, cell variations are open, ranks are
  the iteration that wrote them.
- The buffered pipelines' and older pipelines' DRAMsim3 runs, whose results no program in the repository
  reads but the plots.

Code outside `src/` is not modelled.

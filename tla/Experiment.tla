------------------------------ MODULE Experiment ------------------------------
(***************************************************************************)
(* The AMR experiment across its processes: the pipelines of scripts/,     *)
(* which compile, simulate, decode and convert, and aggressive_buffering/  *)
(* run_experiment.py, which reads the files they leave.  A file's content  *)
(* is the program it comes from; the program is deterministic, so two      *)
(* simulations of one binary leave the same content.                       *)
(***************************************************************************)
EXTENDS Naturals

CONSTANTS
  Pipelines,   \* the scripts in use, [isa, kind]
  Versions     \* bound: versions of amr_counts.cpp

\* The one whose files the driver reads.
Baseline == [isa |-> "x86", kind |-> "baseline"]

ASSUME PipelinesAssumption ==
  /\ Pipelines \subseteq [isa : {"x86", "riscv"}, kind : {"baseline", "buffered"}]
  /\ Baseline \in Pipelines
ASSUME VersionsAssumption == Versions \in Nat \ {0}

VARIABLES
  source,    \* the version of amr_counts.cpp
  bin,       \* amr_counts, one file for all pipelines
  log,       \* by kind: whose lines it holds, and whether to the end
  pipe,      \* each pipeline's stage, and the simulation in its m5out
  raw,       \* the baseline's decoded packets
  trace,     \* the baseline's trace and its columns
  behind,    \* history: steps the baseline trace lacks since its last simulation
  step,      \* the driver's step
  skip,      \* --skip-dramsim
  quiet,     \* history: no baseline file was written since the driver began
  derived,   \* results/traces: the rewritten trace, and the two g_cells-only ones
  results    \* results/dramsim: the trace of each simulation

driver == <<step, skip, derived, results>>
vars == <<source, bin, log, pipe, raw, trace, behind, quiet, driver>>

None == [isa |-> "none", version |-> 0]

(***************************************************************************)
(* The pipelines.  set -e: a step that fails ends the script.  Of a         *)
(* pipeline's own files only the x86 baseline's are read by the driver.     *)
(***************************************************************************)
Written(p) == quiet' = (quiet /\ p.kind # "baseline")

Enters(p, stage) == pipe' = [pipe EXCEPT ![p] = [stage |-> stage, m5out |-> @.m5out]]

Compile(p) ==
  /\ pipe[p].stage = "idle"
  /\ bin' = [isa |-> p.isa, version |-> source]
  /\ Enters(p, "compiled")
  /\ UNCHANGED <<source, log, raw, trace, behind, quiet, driver>>

\* gem5 has been started: the shell has emptied the log.  gem5 refuses a binary
\* of the other machine; otherwise it starts m5out over, and the program prints its
\* GCELL lines.
SimStart(p) ==
  /\ pipe[p].stage = "compiled"
  /\ Written(p)
  /\ LET runs == bin.isa = p.isa
     IN /\ log' = [log EXCEPT ![p.kind] = [of |-> IF runs THEN {bin} ELSE {}, whole |-> FALSE]]
        /\ pipe' = [pipe EXCEPT ![p] = [stage |-> IF runs THEN "running" ELSE "idle",
                                        m5out |-> IF runs THEN bin ELSE @.m5out]]
        /\ behind' = IF p = Baseline /\ runs THEN 2 ELSE behind
  /\ UNCHANGED <<source, bin, raw, trace, driver>>

\* Another script may have emptied the log meanwhile: the rest is written into it.
SimEnd(p) ==
  /\ pipe[p].stage = "running"
  /\ Written(p)
  /\ log' = [log EXCEPT ![p.kind] = [of |-> @.of \cup {pipe[p].m5out},
                                      whole |-> @.of = {pipe[p].m5out}]]
  /\ Enters(p, "simulated")
  /\ UNCHANGED <<source, bin, raw, trace, behind, driver>>

Decode(p) ==
  /\ pipe[p].stage = "simulated"
  /\ Written(p)
  /\ Enters(p, "decoded")
  /\ IF p = Baseline THEN raw' = pipe[p].m5out /\ behind' = 1 ELSE UNCHANGED <<raw, behind>>
  /\ UNCHANGED <<source, bin, log, trace, driver>>

ConvertTo(columns) ==
  /\ trace' = [of |-> raw, columns |-> columns]
  /\ behind' = IF behind = 1 THEN 0 ELSE behind

\* parse_gem5.py writes six columns.  What is left of the script, DRAMsim3 on the
\* trace, changes no file the driver reads.
Convert(p) ==
  /\ pipe[p].stage = "decoded"
  /\ Written(p)
  /\ Enters(p, "idle")
  /\ IF p = Baseline THEN ConvertTo(6) ELSE UNCHANGED <<trace, behind>>
  /\ UNCHANGED <<source, bin, log, raw, driver>>

\* parse_gem5_trace.py or convert_trace.py, by hand: three columns.
ConvertByHand ==
  /\ raw # None
  /\ Written(Baseline)
  /\ ConvertTo(3)
  /\ UNCHANGED <<source, bin, log, pipe, raw, driver>>

PipelineStops(p) ==
  /\ pipe[p].stage # "idle"
  /\ Enters(p, "idle")
  /\ UNCHANGED <<source, bin, log, raw, trace, behind, quiet, driver>>

Edit ==
  /\ source < Versions
  /\ source' = source + 1
  /\ UNCHANGED <<bin, log, pipe, raw, trace, behind, quiet, driver>>

(***************************************************************************)
(* The driver.  A file it makes is what it was made from.                  *)
(***************************************************************************)
Partial == [trace |-> None, windows |-> {}]

\* The simulations, and the step after each.
Simulated == {"baseline", "optimistic", "only_original", "only_optimistic"}
After == [baseline |-> "optimistic", optimistic |-> "only_original",
          only_original |-> "only_optimistic", only_optimistic |-> "plot"]

\* Fault: only the log's lines are compared.
OneBaseInLog == \A s, t \in log["baseline"].of : s.isa = t.isa

\* Every GCELL line, of the log and of m5out's workload.stdout, has the same base;
\* the two machines place g_cells differently.
OneBase == \A s \in log["baseline"].of : s.isa = pipe[Baseline].m5out.isa

\* The range, the windows and every trace line can be read.
Readable ==
  /\ log["baseline"].of # {}
  /\ OneBase
  /\ trace.of # None
  /\ trace.columns = 3

Start ==
  /\ step \in {"idle", "plotted"}
  /\ skip' \in BOOLEAN
  /\ step' = "rewrite"
  /\ quiet' = TRUE
  /\ UNCHANGED <<source, bin, log, pipe, raw, trace, behind, derived, results>>

Rewriting == [derived EXCEPT !.optimistic =
                [trace |-> trace.of, windows |-> log["baseline"].of]]

\* A log that is still written, or was never finished, may hold no window yet.  A
\* rewriting that fails may leave a part of its output; check=True ends the driver.
Rewrite ==
  /\ step = "rewrite"
  /\ \/ Readable /\ derived' = Rewriting /\ step' = "filter"
     \/ /\ ~(Readable /\ log["baseline"].whole)
        /\ derived' \in {derived, [derived EXCEPT !.optimistic = Partial]}
        /\ step' = "idle"
  /\ UNCHANGED <<source, bin, log, pipe, raw, trace, behind, skip, quiet, results>>

\* gcell_only_traces.py needs the range, not the windows.
Filter ==
  /\ step = "filter"
  /\ IF Readable
     THEN /\ derived' = [derived EXCEPT !.only = trace.of]
          /\ step' = IF skip THEN "plot" ELSE "baseline"
     ELSE step' = "idle" /\ UNCHANGED derived
  /\ UNCHANGED <<source, bin, log, pipe, raw, trace, behind, skip, quiet, results>>

Input(r) ==
  CASE r = "baseline"   -> trace.of
    [] r = "optimistic" -> derived.optimistic.trace
    [] OTHER            -> derived.only

\* Fault: a result that is there is kept.
SimulateMissing ==
  /\ step \in Simulated
  /\ results' = [results EXCEPT ![step] = IF @ = None THEN Input(step) ELSE @]
  /\ step' = After[step]
  /\ UNCHANGED <<source, bin, log, pipe, raw, trace, behind, skip, quiet, derived>>

\* run_dramsim: the directory is removed and filled again.
Simulate ==
  /\ step \in Simulated
  /\ results' = [results EXCEPT ![step] = Input(step)]
  /\ step' = After[step]
  /\ UNCHANGED <<source, bin, log, pipe, raw, trace, behind, skip, quiet, derived>>

\* parse_dramsim_txt raises for a file that is not there.
Plot ==
  /\ step = "plot"
  /\ step' = IF \E r \in Simulated : results[r] = None THEN "idle" ELSE "plotted"
  /\ UNCHANGED <<source, bin, log, pipe, raw, trace, behind, skip, quiet, derived, results>>

\* The driver, or the process it waits for, is stopped: a half-written trace or an
\* empty directory may stay.
DriverStops ==
  /\ step \notin {"idle", "plotted"}
  /\ step' = "idle"
  /\ derived' \in {derived} \cup
       CASE step = "rewrite" -> {[derived EXCEPT !.optimistic = Partial]}
         [] step = "filter"  -> {[derived EXCEPT !.only = None]}
         [] OTHER            -> {}
  /\ results' \in {results} \cup
       {[results EXCEPT ![r] = None] : r \in Simulated \cap {step}}
  /\ UNCHANGED <<source, bin, log, pipe, raw, trace, behind, skip, quiet>>

-----------------------------------------------------------------------------
Init ==
  /\ source = 1
  /\ bin = None
  /\ log = [k \in {"baseline", "buffered"} |-> [of |-> {}, whole |-> FALSE]]
  /\ pipe = [p \in Pipelines |-> [stage |-> "idle", m5out |-> None]]
  /\ raw = None
  /\ trace = [of |-> None, columns |-> 3]
  /\ behind = 0
  /\ step = "idle"
  /\ skip = FALSE
  /\ quiet = TRUE
  /\ derived = [optimistic |-> Partial, only |-> None]
  /\ results = [r \in Simulated |-> None]

Pipeline(p) ==
  \/ Compile(p)
  \/ SimStart(p)
  \/ SimEnd(p)
  \/ Decode(p)
  \/ Convert(p)
  \/ PipelineStops(p)

Driver == Start \/ Rewrite \/ Filter \/ Simulate \/ Plot \/ DriverStops

Next == Edit \/ ConvertByHand \/ (\E p \in Pipelines : Pipeline(p)) \/ Driver

Spec == Init /\ [][Next]_vars

(***************************************************************************)
(* Properties                                                              *)
(***************************************************************************)
\* Whatever earlier, interrupted runs of the driver left in its directories, charts
\* plotted by a run that simulates are of the trace that run was given, all four of
\* them, as long as no baseline pipeline writes meanwhile (main, run_dramsim).
ResultsOfThisRun ==
  step = "plotted" /\ quiet /\ ~skip =>
    \A r \in Simulated : results[r] = trace.of

\* A trace is rewritten by the iterations of its own simulation, whichever pipelines
\* shared the binary and the log with it, once the trace of the last baseline
\* simulation has been made (main's --trace, --gcell-log and --iter-log).
WindowsOfTheTrace ==
  step = "plotted" /\ quiet /\ behind = 0 =>
    derived.optimistic.windows = {derived.optimistic.trace}

\* The same of every chart, for the summary says of the rewritten trace "same-cycle
\* read phase followed by same-cycle write phase at each iteration begin"
\* (optimistic_buffer_trace_stream.py).  Does not hold.
AtEachIterationBegin ==
  step = "plotted" /\ quiet =>
    derived.optimistic.windows = {derived.optimistic.trace}
===============================================================================

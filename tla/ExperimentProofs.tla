--------------------------- MODULE ExperimentProofs ---------------------------
(***************************************************************************)
(* For every set of pipelines and any number of versions: the charts are   *)
(* of the trace the driver was given, and of its own iterations.           *)
(***************************************************************************)
EXTENDS Experiment, TLAPS

Subjects == [isa : {"x86", "riscv", "none"}, version : Nat]
Stages == {"idle", "compiled", "running", "simulated", "decoded"}

TypeOK ==
  /\ source \in Nat /\ bin \in Subjects /\ raw \in Subjects
  /\ log \in [{"baseline", "buffered"} -> [of : SUBSET Subjects, whole : BOOLEAN]]
  /\ pipe \in [Pipelines -> [stage : Stages, m5out : Subjects]]
  /\ trace \in [of : Subjects, columns : {3, 6}]
  /\ behind \in {0, 1, 2} /\ quiet \in BOOLEAN /\ skip \in BOOLEAN
  /\ step \in {"idle", "rewrite", "filter", "plot", "plotted"} \cup Simulated
  /\ derived \in [optimistic : [trace : Subjects, windows : SUBSET Subjects],
                  only : Subjects]
  /\ results \in [Simulated -> Subjects]

(***************************************************************************)
(* The files of the x86 baseline.  A simulation is of a binary of its      *)
(* machine; the log has at most one of the two machines' lines besides     *)
(* those of its last x86 simulation; behind counts what the trace lacks.   *)
(***************************************************************************)
OwnMachine ==
  \A p \in Pipelines :
    /\ pipe[p].m5out = None \/ pipe[p].m5out.isa = p.isa
    /\ pipe[p].stage \in {"running", "simulated", "decoded"} => pipe[p].m5out.isa = p.isa

LogOfLast ==
  \A s \in log["baseline"].of :
    s.isa = "riscv" \/ (s.isa = "x86" /\ s = pipe[Baseline].m5out)

CaughtUp ==
  /\ behind < 2 => raw = pipe[Baseline].m5out
  /\ behind = 0 => trace.of = raw

(***************************************************************************)
(* What the driver has made in this run.                                   *)
(***************************************************************************)
Rewrote == Simulated \cup {"filter", "plot", "plotted"}
Filtered == Simulated \cup {"plot", "plotted"}

RewrittenNow ==
  quiet /\ step \in Rewrote =>
    /\ derived.optimistic.trace = trace.of
    /\ behind = 0 => derived.optimistic.windows = {trace.of}
FilteredNow == quiet /\ step \in Filtered => derived.only = trace.of

Done(r) ==
  \/ step \in {"plot", "plotted"}
  \/ r = "baseline" /\ step \in {"optimistic", "only_original", "only_optimistic"}
  \/ r = "optimistic" /\ step \in {"only_original", "only_optimistic"}
  \/ r = "only_original" /\ step = "only_optimistic"
SimulatedNow ==
  quiet /\ ~skip => \A r \in Simulated : Done(r) => results[r] = trace.of

IInv ==
  /\ TypeOK
  /\ OwnMachine
  /\ LogOfLast
  /\ CaughtUp
  /\ RewrittenNow
  /\ FilteredNow
  /\ SimulatedNow

\* The first state is well typed.
LEMMA InitType == Init => TypeOK
<1> SUFFICES ASSUME Init PROVE TypeOK
  OBVIOUS
<1> USE DEF Init, Subjects, None
<1>1. pipe \in [Pipelines -> [stage : Stages, m5out : Subjects]]
  BY DEF Stages
<1>2. log \in [{"baseline", "buffered"} -> [of : SUBSET Subjects, whole : BOOLEAN]]
  OBVIOUS
<1>3. derived \in [optimistic : [trace : Subjects, windows : SUBSET Subjects], only : Subjects]
  BY DEF Partial
<1>4. results \in [Simulated -> Subjects]
  OBVIOUS
<1> QED
  BY <1>1, <1>2, <1>3, <1>4 DEF TypeOK

\* Every step of a pipeline or of the driver keeps the types.
LEMMA StepType == TypeOK /\ [Next]_vars => TypeOK'
<1> SUFFICES ASSUME TypeOK, [Next]_vars PROVE TypeOK'
  OBVIOUS
<1> USE PipelinesAssumption DEF TypeOK, Subjects, Stages
<1>1. CASE UNCHANGED vars
  BY <1>1 DEF vars, driver
<1>2. CASE Edit
  BY <1>2, VersionsAssumption DEF Edit, driver
<1>3. CASE ConvertByHand
  BY <1>3 DEF ConvertByHand, ConvertTo, Written, driver
<1>4. ASSUME NEW p \in Pipelines, Pipeline(p) PROVE TypeOK'
  <2>0. pipe[p] \in [stage : Stages, m5out : Subjects]
    OBVIOUS
  <2>1. CASE Compile(p)
    BY <2>0, <2>1 DEF Compile, Enters, Written, ConvertTo, driver, Baseline
  <2>2. CASE SimStart(p)
    <3>1. /\ p.kind \in {"baseline", "buffered"}
          /\ log[p.kind] \in [of : SUBSET Subjects, whole : BOOLEAN]
          /\ pipe[p] \in [stage : Stages, m5out : Subjects]
      OBVIOUS
    <3>2. log' \in [{"baseline", "buffered"} -> [of : SUBSET Subjects, whole : BOOLEAN]]
      BY <2>2, <3>1 DEF SimStart
    <3>3. pipe' \in [Pipelines -> [stage : Stages, m5out : Subjects]]
      BY <2>2, <3>1 DEF SimStart
    <3>4. behind' \in {0, 1, 2} /\ quiet' \in BOOLEAN
      BY <2>2 DEF SimStart, Written
    <3> QED
      BY <2>2, <3>2, <3>3, <3>4 DEF SimStart, driver
  <2>3. CASE SimEnd(p)
    <3>1. /\ p.kind \in {"baseline", "buffered"}
          /\ log[p.kind] \in [of : SUBSET Subjects, whole : BOOLEAN]
          /\ pipe[p] \in [stage : Stages, m5out : Subjects]
      OBVIOUS
    <3>2. log' \in [{"baseline", "buffered"} -> [of : SUBSET Subjects, whole : BOOLEAN]]
      BY <2>3, <3>1 DEF SimEnd
    <3>3. pipe' \in [Pipelines -> [stage : Stages, m5out : Subjects]]
      BY <2>3, <3>1 DEF SimEnd, Enters
    <3>4. quiet' \in BOOLEAN
      BY <2>3 DEF SimEnd, Written
    <3> QED
      BY <2>3, <3>2, <3>3, <3>4 DEF SimEnd, driver
  <2>4. CASE Decode(p)
    BY <2>0, <2>4 DEF Decode, Enters, Written, ConvertTo, driver, Baseline
  <2>5. CASE Convert(p)
    BY <2>0, <2>5 DEF Convert, Enters, Written, ConvertTo, driver, Baseline
  <2>6. CASE PipelineStops(p)
    BY <2>0, <2>6 DEF PipelineStops, Enters, Written, ConvertTo, driver, Baseline
  <2> QED
    BY <1>4, <2>1, <2>2, <2>3, <2>4, <2>5, <2>6 DEF Pipeline
<1>5. CASE Start
  BY <1>5 DEF Start
<1>6. CASE Rewrite
  BY <1>6 DEF Rewrite, Rewriting, Readable, OneBase, Partial, None
<1>7. CASE Filter
  BY <1>7 DEF Filter, Readable, Simulated
<1>8. CASE Simulate
  BY <1>8 DEF Simulate, Input, After, Simulated
<1>9. CASE Plot
  BY <1>9 DEF Plot, Simulated
<1>10. CASE DriverStops
  <2>1. \/ derived' = derived
        \/ derived' = [derived EXCEPT !.optimistic = Partial]
        \/ derived' = [derived EXCEPT !.only = None]
    <3>1. CASE step = "rewrite"
      BY <1>10, <3>1 DEF DriverStops
    <3>2. CASE step = "filter"
      BY <1>10, <3>2 DEF DriverStops
    <3>3. CASE step \notin {"rewrite", "filter"}
      BY <1>10, <3>3 DEF DriverStops
    <3> QED
      BY <3>1, <3>2, <3>3
  <2>2. derived' \in [optimistic : [trace : Subjects, windows : SUBSET Subjects],
                      only : Subjects]
    <3>1. Partial \in [trace : Subjects, windows : SUBSET Subjects] /\ None \in Subjects
      BY DEF Partial, None
    <3> QED
      BY <2>1, <3>1
  <2>3. results' = results \/ \E r \in Simulated : results' = [results EXCEPT ![r] = None]
    BY <1>10 DEF DriverStops
  <2>4. results' \in [Simulated -> Subjects]
    BY <2>3 DEF None
  <2> QED
    BY <1>10, <2>2, <2>4 DEF DriverStops
<1> QED
  BY <1>1, <1>2, <1>3, <1>4, <1>5, <1>6, <1>7, <1>8, <1>9, <1>10 DEF Next, Driver

\* No file has been made, so none is in the wrong place.
LEMMA InitFiles == Init => OwnMachine /\ LogOfLast /\ CaughtUp
BY PipelinesAssumption DEF Init, OwnMachine, LogOfLast, CaughtUp, None

\* The pipelines' files stay consistent, whatever runs at the same time: only the
\* baseline script writes its own files, and the log says whose lines it holds.
LEMMA StepFiles ==
  TypeOK /\ OwnMachine /\ LogOfLast /\ CaughtUp /\ [Next]_vars
    => (OwnMachine /\ LogOfLast /\ CaughtUp)'
<1> SUFFICES ASSUME TypeOK, OwnMachine, LogOfLast, CaughtUp, [Next]_vars
             PROVE  (OwnMachine /\ LogOfLast /\ CaughtUp)'
  OBVIOUS
<1>a. /\ pipe \in [Pipelines -> [stage : Stages, m5out : Subjects]]
      /\ log \in [{"baseline", "buffered"} -> [of : SUBSET Subjects, whole : BOOLEAN]]
      /\ behind \in {0, 1, 2}
  BY DEF TypeOK
<1>1. CASE UNCHANGED <<log, pipe, raw, trace, behind>>
  BY <1>1 DEF OwnMachine, LogOfLast, CaughtUp
<1>2. CASE ConvertByHand
  BY <1>2, <1>a DEF ConvertByHand, ConvertTo, OwnMachine, LogOfLast, CaughtUp
<1>3. ASSUME NEW p \in Pipelines, Compile(p) \/ PipelineStops(p)
      PROVE  (OwnMachine /\ LogOfLast /\ CaughtUp)'
  <2>1. UNCHANGED <<log, raw, trace, behind>> /\ \E st \in {"idle", "compiled"} : Enters(p, st)
    BY <1>3 DEF Compile, PipelineStops
  <2>2. \A q \in Pipelines : pipe'[q].m5out = pipe[q].m5out
                             /\ (q = p \/ pipe'[q].stage = pipe[q].stage)
    BY <2>1, <1>a DEF Enters
  <2>3. pipe'[p].stage \in {"idle", "compiled"}
    BY <2>1, <1>a DEF Enters
  <2> QED
    BY <2>1, <2>2, <2>3, PipelinesAssumption DEF OwnMachine, LogOfLast, CaughtUp
<1>4. ASSUME NEW p \in Pipelines, SimStart(p)
      PROVE  (OwnMachine /\ LogOfLast /\ CaughtUp)'
  <2>1. CASE bin.isa = p.isa
    <3>1. /\ pipe'[p] = [stage |-> "running", m5out |-> bin]
          /\ \A q \in Pipelines : q # p => pipe'[q] = pipe[q]
          /\ log' = [log EXCEPT ![p.kind] = [of |-> {bin}, whole |-> FALSE]]
          /\ behind' = IF p = Baseline THEN 2 ELSE behind
          /\ UNCHANGED <<raw, trace>>
      BY <1>4, <2>1, <1>a DEF SimStart
    <3>2. OwnMachine'
      BY <3>1, <2>1 DEF OwnMachine
    <3>3. CaughtUp'
      BY <3>1, <1>a, PipelinesAssumption DEF CaughtUp
    <3>4. CASE p.kind = "baseline"
      <4>1. log'["baseline"].of = {bin}
        BY <3>1, <3>4, <1>a
      <4>2. CASE p = Baseline
        BY <4>1, <4>2, <3>1, <3>2, <3>3, <2>1 DEF LogOfLast, Baseline
      <4>3. CASE p # Baseline
        <5>1. p.isa = "riscv"
          BY <4>3, <3>4, PipelinesAssumption DEF Baseline
        <5> QED
          BY <5>1, <4>1, <2>1, <3>2, <3>3 DEF LogOfLast
      <4> QED
        BY <4>2, <4>3, <3>2, <3>3
    <3>5. CASE p.kind # "baseline"
      <4>1. log'["baseline"] = log["baseline"] /\ pipe'[Baseline] = pipe[Baseline]
        BY <3>1, <3>5, <1>a, PipelinesAssumption DEF Baseline
      <4> QED
        BY <4>1, <3>2, <3>3 DEF LogOfLast
    <3> QED
      BY <3>2, <3>3, <3>4, <3>5
  <2>2. CASE bin.isa # p.isa
    <3>1. /\ pipe'[p] = [stage |-> "idle", m5out |-> pipe[p].m5out]
          /\ \A q \in Pipelines : q # p => pipe'[q] = pipe[q]
          /\ log' = [log EXCEPT ![p.kind] = [of |-> {}, whole |-> FALSE]]
          /\ UNCHANGED <<raw, trace, behind>>
      BY <1>4, <2>2, <1>a DEF SimStart
    <3>2. \A q \in Pipelines : pipe'[q].m5out = pipe[q].m5out
      BY <3>1
    <3>3. log'["baseline"].of \subseteq log["baseline"].of
      BY <3>1, <1>a
    <3>4. OwnMachine'
      BY <3>1, <3>2 DEF OwnMachine
    <3> QED
      BY <3>1, <3>2, <3>3, <3>4, PipelinesAssumption DEF LogOfLast, CaughtUp
  <2> QED
    BY <2>1, <2>2
<1>5. ASSUME NEW p \in Pipelines, SimEnd(p)
      PROVE  (OwnMachine /\ LogOfLast /\ CaughtUp)'
  <2>1. /\ pipe'[p] = [stage |-> "simulated", m5out |-> pipe[p].m5out]
        /\ pipe[p].stage = "running"
        /\ \A q \in Pipelines : q # p => pipe'[q] = pipe[q]
        /\ UNCHANGED <<raw, trace, behind>>
    BY <1>5, <1>a DEF SimEnd, Enters
  <2>2. \A q \in Pipelines : pipe'[q].m5out = pipe[q].m5out
    BY <2>1
  <2>3. OwnMachine'
    BY <2>1, <2>2 DEF OwnMachine
  <2>4. pipe[p].m5out.isa = p.isa
    BY <2>1 DEF OwnMachine
  <2>5. log'["baseline"].of = log["baseline"].of
          \cup (IF p.kind = "baseline" THEN {pipe[p].m5out} ELSE {})
    BY <1>5, <1>a DEF SimEnd
  <2>6. LogOfLast'
    <3>1. CASE p.kind = "baseline"
      <4>1. p = Baseline \/ p.isa = "riscv"
        BY <3>1, PipelinesAssumption DEF Baseline
      <4> QED
        BY <4>1, <3>1, <2>2, <2>4, <2>5, PipelinesAssumption DEF LogOfLast, Baseline
    <3>2. CASE p.kind # "baseline"
      BY <3>2, <2>2, <2>5, PipelinesAssumption DEF LogOfLast
    <3> QED
      BY <3>1, <3>2
  <2> QED
    BY <2>1, <2>2, <2>3, <2>6, PipelinesAssumption DEF CaughtUp
<1>6. ASSUME NEW p \in Pipelines, Decode(p) \/ Convert(p)
      PROVE  (OwnMachine /\ LogOfLast /\ CaughtUp)'
  <2>1. /\ \A q \in Pipelines : pipe'[q].m5out = pipe[q].m5out
        /\ \A q \in Pipelines : q # p => pipe'[q].stage = pipe[q].stage
        /\ pipe'[p].stage \in {"decoded", "idle"}
        /\ pipe[p].stage \in {"simulated", "decoded"}
        /\ UNCHANGED log
    BY <1>6, <1>a DEF Decode, Convert, Enters
  <2>2. OwnMachine'
    BY <2>1 DEF OwnMachine
  <2>3. LogOfLast'
    BY <2>1, PipelinesAssumption DEF LogOfLast
  <2>4. CaughtUp'
    <3>1. CASE Decode(p) /\ p = Baseline
      BY <3>1, <2>1 DEF Decode, CaughtUp
    <3>2. CASE Convert(p) /\ p = Baseline
      BY <3>2, <2>1, <1>a DEF Convert, ConvertTo, CaughtUp
    <3>3. CASE p # Baseline
      BY <3>3, <1>6, <2>1, PipelinesAssumption DEF Decode, Convert, CaughtUp
    <3> QED
      BY <3>1, <3>2, <3>3, <1>6
  <2> QED
    BY <2>2, <2>3, <2>4
<1>7. CASE Edit \/ Driver
  BY <1>7, <1>1 DEF Edit, Driver, Start, Rewrite, Filter, Simulate, Plot, DriverStops
<1> QED
  BY <1>1, <1>2, <1>3, <1>4, <1>5, <1>6, <1>7 DEF Next, Pipeline, vars

(***************************************************************************)
(* The driver.                                                             *)
(***************************************************************************)
Made == RewrittenNow /\ FilteredNow /\ SimulatedNow

\* Nothing has been made by a driver that has not begun.
LEMMA InitMade == Init => Made
BY DEF Init, Made, RewrittenNow, FilteredNow, SimulatedNow, Rewrote, Filtered, Simulated, Done

\* A rewriting that succeeds has the last simulation's iterations.
LEMMA RewrittenRight ==
  ASSUME TypeOK, OwnMachine, LogOfLast, CaughtUp, Readable, behind = 0
  PROVE  log["baseline"].of = {trace.of}
<1>1. log["baseline"].of # {} /\ \A s \in log["baseline"].of : s.isa = pipe[Baseline].m5out.isa
  BY DEF Readable, OneBase
<1>2. pipe[Baseline].m5out = None \/ pipe[Baseline].m5out.isa = "x86"
  BY PipelinesAssumption DEF OwnMachine, Baseline
<1>3. \A s \in log["baseline"].of : s = pipe[Baseline].m5out
  BY <1>1, <1>2 DEF LogOfLast, None
<1>4. trace.of = pipe[Baseline].m5out
  BY DEF CaughtUp
<1> QED
  BY <1>1, <1>3, <1>4

\* What the driver has made since it began stays what it was made from, until a
\* baseline file is written.
LEMMA StepMade == IInv /\ [Next]_vars => Made'
<1> SUFFICES ASSUME IInv, [Next]_vars PROVE Made'
  OBVIOUS
<1>a. Made /\ TypeOK
  BY DEF IInv, Made
<1> USE DEF Made, RewrittenNow, FilteredNow, SimulatedNow, Rewrote, Filtered, Simulated
<1>1. CASE UNCHANGED <<trace, behind, step, skip, quiet, derived, results>>
  BY <1>1, <1>a DEF Done
<1>2. CASE ~ quiet'
  BY <1>2
<1>3. CASE ConvertByHand
  BY <1>2, <1>3 DEF ConvertByHand, Written, Baseline
<1>4. ASSUME NEW p \in Pipelines, Pipeline(p) PROVE Made'
  <2>1. CASE p = Baseline /\ ~ (Compile(p) \/ PipelineStops(p))
    BY <2>1, <1>2, <1>4 DEF Pipeline, SimStart, SimEnd, Decode, Convert, Written, Baseline
  <2>2. CASE p # Baseline \/ Compile(p) \/ PipelineStops(p)
    <3>1. UNCHANGED <<trace, behind, driver>> /\ (quiet' = quiet \/ ~ quiet')
      BY <2>2, <1>4, <1>a DEF Pipeline, Compile, PipelineStops, SimStart, SimEnd, Decode,
                              Convert, Written, TypeOK
    <3> QED
      BY <3>1, <1>1, <1>2 DEF driver
  <2> QED
    BY <2>1, <2>2
<1>5. CASE Start
  BY <1>5 DEF Start, Done
<1>6. CASE Rewrite
  <2>1. CASE Readable /\ derived' = Rewriting /\ step' = "filter"
    <3>1. /\ derived'.optimistic = [trace |-> trace.of, windows |-> log["baseline"].of]
          /\ UNCHANGED <<trace, behind>>
      BY <1>6, <2>1, <1>a DEF Rewrite, Rewriting, TypeOK
    <3>2. behind = 0 => log["baseline"].of = {trace.of}
      BY <2>1, RewrittenRight DEF IInv
    <3> QED
      BY <3>1, <3>2, <2>1 DEF Done
  <2>2. CASE step' = "idle"
    BY <2>2 DEF Done
  <2> QED
    BY <1>6, <2>1, <2>2 DEF Rewrite
<1>7. CASE Filter
  <2>1. CASE step' = "idle"
    BY <2>1 DEF Done
  <2>2. CASE Readable
    <3>1. /\ derived'.only = trace.of /\ derived'.optimistic = derived.optimistic
          /\ step = "filter" /\ step' = (IF skip THEN "plot" ELSE "baseline")
          /\ UNCHANGED <<trace, behind, skip, quiet>>
      BY <1>7, <2>2, <1>a DEF Filter, TypeOK
    <3> QED
      BY <3>1, <1>a DEF Done
  <2> QED
    BY <1>7, <2>1, <2>2 DEF Filter
<1>8. CASE Simulate
  <2>1. /\ step \in Simulated /\ step' = After[step]
        /\ results' = [results EXCEPT ![step] = Input(step)]
        /\ UNCHANGED <<trace, behind, skip, quiet, derived>>
    BY <1>8 DEF Simulate
  <2>2. quiet => Input(step) = trace.of
    BY <2>1, <1>a DEF Input
  <2>3. \A r \in Simulated : results'[r] = IF r = step THEN Input(step) ELSE results[r]
    BY <2>1, <1>a DEF TypeOK
  <2>4. step' \in Filtered
    BY <2>1 DEF After
  <2>5. \A r \in Simulated : Done(r)' => r = step \/ Done(r)
    BY <2>1 DEF After, Done
  <2>6. RewrittenNow' /\ FilteredNow'
    BY <2>1, <2>4, <1>a
  <2>7. SimulatedNow'
    BY <2>1, <2>2, <2>3, <2>5, <1>a
  <2> QED
    BY <2>6, <2>7
<1>9. CASE Plot
  <2>1. /\ step = "plot" /\ step' \in {"idle", "plotted"}
        /\ UNCHANGED <<trace, behind, skip, quiet, derived, results>>
    BY <1>9 DEF Plot
  <2> QED
    BY <2>1, <1>a DEF Done
<1>10. CASE DriverStops
  BY <1>10 DEF DriverStops, Done
<1>11. CASE Edit
  BY <1>11, <1>1 DEF Edit, driver
<1> QED
  BY <1>1, <1>3, <1>4, <1>5, <1>6, <1>7, <1>8, <1>9, <1>10, <1>11 DEF Next, Driver, vars, driver

\* The inductive invariant.
THEOREM Invariance == Spec => []IInv
<1>1. Init => IInv
  BY InitType, InitFiles, InitMade DEF IInv, Made
<1>2. IInv /\ [Next]_vars => IInv'
  BY StepType, StepFiles, StepMade DEF IInv, Made
<1> QED
  BY <1>1, <1>2, PTL DEF Spec

\* A plotted chart shows no result of an earlier run.
THEOREM ChartsAreOfThisRun == Spec => []ResultsOfThisRun
<1>1. IInv => ResultsOfThisRun
  BY DEF IInv, SimulatedNow, ResultsOfThisRun, Done
<1> QED
  BY <1>1, Invariance, PTL

\* Nor iterations of another simulation, once the pipeline has made its trace.
THEOREM WindowsAreOfTheTrace == Spec => []WindowsOfTheTrace
<1>1. IInv => WindowsOfTheTrace
  BY DEF IInv, RewrittenNow, Rewrote, WindowsOfTheTrace
<1> QED
  BY <1>1, Invariance, PTL
===============================================================================

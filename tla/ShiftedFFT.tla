----------------------------- MODULE ShiftedFFT -----------------------------
(***************************************************************************)
(* The FFT workload and what fft_workloads_run.sh makes of it: the trace   *)
(* of the butterflies, cut into one piece for each stage, goes through the *)
(* bank shift rewriter.                                                    *)
(***************************************************************************)
EXTENDS FFT, BankShift

CONSTANTS
  Buf,    \* the address of buf[0]; an element takes one address
  AnyFiles  \* other directories the rewriter may be given

ASSUME TracesAssumption == Buf \in Nat /\ AnyFiles \subseteq Seq(Seq(TraceLine))

vars == <<fftVars, shiftVars>>

\* fft.c is run under gem5 ...
WorkloadInit == FFTInit /\ main = "workload" /\ files = << >>

\* ... or a directory is there.
FilesInit ==
  /\ pc = "done" /\ x = [k \in Index |-> 0] /\ a = x
  /\ i = 0 /\ j = 0 /\ len = 2 /\ stage = 0 /\ w = 1 /\ written = {}
  /\ main = "collect" /\ files \in AnyFiles

Init == (WorkloadInit \/ FilesInit) /\ outdir = << >> /\ opt \in {CHOOSE o \in Options : TRUE}

\* The accesses of a butterfly, in the work item of its stage.
ButterflyAccesses == <<Access(Buf + Low, "READ"), Access(Buf + High, "READ"),
                       Access(Buf + Low, "WRITE"), Access(Buf + High, "WRITE")>>

Untraced == Reverse \/ ReverseEnd \/ Block \/ BlockEnd \/ StageEnd
Workload ==
  /\ main = "workload"
  /\ \/ StageBegin /\ files' = Append(files, << >>) /\ UNCHANGED main
     \/ /\ Butterfly
        /\ files' = [files EXCEPT ![Len(files)] = @ \o ButterflyAccesses]
        /\ UNCHANGED main
     \/ Untraced /\ UNCHANGED <<files, main>>
     \/ Transformed /\ main' = "collect" /\ UNCHANGED files
  /\ UNCHANGED <<opt, outdir>>

Stopped == main \in {"refused", "failed", "done"} /\ UNCHANGED vars

Next == Workload \/ (ShiftStep /\ UNCHANGED fftVars) \/ Stopped

Spec == Init /\ [][Next]_vars
=============================================================================

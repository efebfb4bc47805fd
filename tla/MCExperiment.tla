----------------------------- MODULE MCExperiment -----------------------------
(***************************************************************************)
(* Small runs for Experiment: the two baseline pipelines, which share the  *)
(* binary and the log, and two versions of the program.                    *)
(***************************************************************************)
EXTENDS Experiment

BaselinePipelines == [isa : {"x86", "riscv"}, kind : {"baseline"}]
===============================================================================

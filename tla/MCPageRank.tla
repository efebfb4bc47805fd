----------------------------- MODULE MCPageRank -----------------------------
(***************************************************************************)
(* A small PageRank, three nodes and all graphs with DEG in-edges per      *)
(* node; and, for the rewriters alone, every trace of TraceLen lines of a  *)
(* read and writes of the two rank arrays, a read elsewhere and another    *)
(* command, over windows that share a cycle or leave a gap.                *)
(***************************************************************************)
EXTENDS PageRank

CONSTANT TraceLen \* bound: lines in a trace that is not the workload's

MCRegions == [rank_a |-> [lo |-> 0, hi |-> NODES],
              rank_b |-> [lo |-> NODES, hi |-> 2 * NODES]]

\* As main calls the rewriters.
MCHows == {[method |-> "targeted", gap |-> 0], [method |-> "blind", gap |-> 0],
           [method |-> "blind", gap |-> 1]}

NoJobs == {}

Kinds == {<<1, "READ">>, <<1, "WRITE">>, <<4, "WRITE">>, <<9, "READ">>, <<1, "OTHER">>}
MCLines == {[addr |-> k[1], op |-> k[2], cycle |-> c] : k \in Kinds, c \in {1, 3, 4}}
           \cup {[addr |-> 0, op |-> "BLANK", cycle |-> 0]}

Window(id, from, to) == [id |-> id, begin |-> from, end |-> to]
MCWindows == {<<Window(0, 1, 3), Window(1, 3, 4)>>,
              <<Window(0, 1, 2), Window(1, 3, 3), Window(2, 5, 6)>>}

MCJobs == [trace : [1 .. TraceLen -> MCLines], windows : MCWindows, how : MCHows]
=============================================================================

-------------------------- MODULE MCStreamRewriter --------------------------
(***************************************************************************)
(* Small inputs for StreamRewriter: every trace of TraceLen lines drawn    *)
(* from a read and a write of one g_cells address, a read of another,      *)
(* another command, a read elsewhere, and a blank line, in any order of    *)
(* cycles, with windows that share a cycle, that leave a gap, and that see *)
(* no request.                                                             *)
(***************************************************************************)
EXTENDS StreamRewriter

CONSTANT TraceLen \* bound: lines in a trace

Kinds == {<<2, "READ">>, <<2, "WRITE">>, <<1, "READ">>, <<2, "OTHER">>, <<7, "READ">>}
Cycles == {0, 2, 3, 5}
MCLines == {[addr |-> k[1], op |-> k[2], cycle |-> c] : k \in Kinds, c \in Cycles}
           \cup {[addr |-> 0, op |-> "BLANK", cycle |-> 0]}

Window(id, begin, end) == [id |-> id, begin |-> begin, end |-> end]
MCWindows == {<<Window(0, 1, 2), Window(1, 2, 3)>>,
              <<Window(0, 1, 3), Window(2, 4, 4)>>}

\* For the run in which the experiment changes after a kill: one line, no blanks.
MCOneLineJobs == [trace : {<<l>> : l \in {m \in MCLines : IsEntry(m)}}, windows : MCWindows,
                  start : {1}, end : {5}]

MCJobs == [trace : [1 .. TraceLen -> MCLines], windows : MCWindows,
           start : {1}, end : {5}]
=============================================================================

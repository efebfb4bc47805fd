-------------------------- MODULE MCBothRewriters --------------------------
(***************************************************************************)
(* Small inputs for BothRewriters.  Every trace of TraceLen lines of reads *)
(* and writes of a g_cells address, a read of another, another command,    *)
(* and a read and a write elsewhere, over two windows that share a cycle   *)
(* or leave a gap, with the offset given; and every trace of two lines     *)
(* with the offset guessed or given wrong, and with any log.               *)
(***************************************************************************)
EXTENDS BothRewriters

CONSTANT TraceLen \* bound: lines in a trace

Kinds == {<<2, "READ">>, <<2, "WRITE">>, <<1, "READ">>, <<1, "OTHER">>,
          <<7, "READ">>, <<7, "WRITE">>}
MCLines == {[addr |-> k[1], op |-> k[2], cycle |-> c] : k \in Kinds, c \in {1, 3, 4}}
           \cup {[addr |-> 0, op |-> "BLANK", cycle |-> 0]}

Window(id, begin, end) == [id |-> id, begin |-> begin, end |-> end]
MCWindows == {<<Window(0, 1, 3), Window(1, 3, 4)>>,
              <<Window(0, 1, 2), Window(2, 3, 3)>>}

Cell(base, addr, size) == [base |-> base, addr |-> addr, size |-> size]
MCLog == <<Cell(5, 5, 2), Cell(5, 7, 2)>>
MCDeltas == <<0, -4>>
MCDefault == -4

\* Addresses under none, one or two of the candidates [5,9), [1,5), [0,4), which a
\* line each makes a tie.  In the log of base 4 the third candidate is the second once
\* more; in that of base 2 the second is not tried, but it is the default.
AnyLines == {[addr |-> a, op |-> "READ", cycle |-> c] : a \in {0, 2, 4, 5, 9}, c \in {0, 3}}
            \cup {[addr |-> 0, op |-> "BLANK", cycle |-> 0]}
AnyLogs == {MCLog, << >>, <<Cell(5, 3, 2)>>, <<Cell(5, 5, 2), Cell(6, 6, 2)>>,
            <<Cell(4, 6, 2)>>, <<Cell(2, 5, 2)>>}

MCInputs ==
  [trace : [1 .. TraceLen -> MCLines], windows : MCWindows, log : {MCLog},
   explicit : {<<-4>>}]
  \cup [trace : [1 .. 2 -> AnyLines], windows : MCWindows, log : AnyLogs,
        explicit : {<< >>, <<-4>>, <<-6>>}]

MCGaps == {[issue |-> 0, phase |-> 0], [issue |-> 1, phase |-> 1]}
=============================================================================

---------------------------- MODULE WindowBuffer ----------------------------
(***************************************************************************)
(* What a buffering trace rewriter promises, whatever it does inside: it   *)
(* reads its input once and in order; an entry is either sent at once or   *)
(* held; everything held is sent together, in an order of the rewriter's   *)
(* choosing; a run that is killed starts over from nothing, and leaves     *)
(* nothing behind.                                                         *)
(***************************************************************************)
EXTENDS TraceWindows

VARIABLES
  input,  \* the numbers of the entries of the trace being rewritten
  todo,   \* those not yet taken
  held,   \* those taken and not yet sent
  sent    \* those sent, in the order of the output

vars == <<input, todo, held, sent>>

Fresh == todo = input /\ held = {} /\ sent = << >>

Init == input \in SUBSET Nat /\ Fresh

\* The next entry is the first of those that remain.
Take(i) ==
  /\ i \in todo
  /\ \A j \in todo : i <= j
  /\ todo' = todo \ {i}
  /\ UNCHANGED input

Send(i) == Take(i) /\ sent' = Append(sent, i) /\ UNCHANGED held
Hold(i) == Take(i) /\ held' = held \cup {i} /\ UNCHANGED sent

\* s has every element of S once.
Arranges(s, S) ==
  /\ {s[k] : k \in DOMAIN s} = S
  /\ \A k, m \in DOMAIN s : s[k] = s[m] => k = m

\* All that is held is sent, in any order.
Drain ==
  /\ Len(sent') >= Len(sent) /\ SubSeq(sent', 1, Len(sent)) = sent
  /\ Arranges(SubSeq(sent', Len(sent) + 1, Len(sent')), held)
  /\ held' = {}
  /\ UNCHANGED <<input, todo>>

StartOver ==
  /\ todo' = input /\ held' = {} /\ sent' = << >>
  /\ UNCHANGED input

Next == (\E i \in todo : Send(i) \/ Hold(i)) \/ Drain \/ StartOver

Spec == Init /\ [][Next]_vars
=============================================================================

------------------------------- MODULE MCFFT -------------------------------
(***************************************************************************)
(* Eight elements modulo 17, in which 2 has order 8.  The transform is     *)
(* linear, so arrays of zeros and ones cover a basis and more.  The array  *)
(* begins at address 8, so that a field of one bit at bit 3 can be moved   *)
(* without two elements becoming one, and other moves make them one; and   *)
(* every directory of two traces of two lines.                             *)
(***************************************************************************)
EXTENDS ShiftedFFT

MCInputs == [0 .. FFT_N - 1 -> {0, 1}]

Move(count, lsb, shift, iters) ==
  [count |-> count, lsb |-> lsb, shift |-> shift, iters |-> iters,
   clobber |-> FALSE, exists |-> FALSE]
MCOptions ==
  {Move(2, 3, shift, iters) : shift \in {1, -1}, iters \in {{}, {1}, {2}, {0, 1, 2, 3}}}
  \cup {Move(4, lsb, shift, {1}) : lsb \in {0, 2}, shift \in {0, 1, -1}}
  \cup {Move(1, 3, -4, {1}), Move(3, 3, 1, {1}), Move(0, 3, 1, {1}), Move(2, -1, 4, {1})}
  \cup {[Move(2, 3, 1, {1}) EXCEPT !.exists = TRUE, !.clobber = c] : c \in BOOLEAN}

Lines == {Access(addr, op) : addr \in {5, 8}, op \in {"READ", "WRITE"}}
         \cup {Access(0, "BAD")}
MCFiles == {<< >>} \cup [1 .. 2 -> [1 .. 2 -> Lines]]
=============================================================================

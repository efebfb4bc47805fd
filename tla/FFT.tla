-------------------------------- MODULE FFT --------------------------------
(***************************************************************************)
(* The FFT workload, fft.c: bit reversal, then log2(FFT_N) stages of       *)
(* butterflies in place, each stage one work item.                         *)
(*                                                                         *)
(* The transform needs a field with a root of unity.  The code computes in *)
(* complex doubles, and whether its sines are accurate is not the question *)
(* here; the model computes modulo a prime P in which Root has order       *)
(* FFT_N, exactly, so that a wrong index or a wrong twiddle shows.         *)
(***************************************************************************)
EXTENDS Integers, Sequences, FiniteSets, Folds

CONSTANTS
  FFT_N,  \* as in the source, but small
  P, Root,
  Inputs  \* the arrays generate_input may make

ASSUME FFTAssumption ==
  /\ FFT_N \in Nat \ {0, 1} /\ P \in Nat \ {0, 1} /\ Root \in 1 .. P - 1
  /\ Inputs \subseteq [0 .. FFT_N - 1 -> 0 .. P - 1]

\* fft.c 13: "Must be a power of two"; halved again and again it comes to 1.
ASSUME PowerOfTwoAssumption ==
  \E E \in SUBSET (1 .. FFT_N) :
    FFT_N \in E /\ \A n \in E : n = 1 \/ \E h \in E : n = 2 * h

VARIABLES
  pc,         \* "reverse", "stage" (the head of the loop over len), "block" (of the
              \* loop over i), "butterfly" (of the loop over j), or "done"
  x,          \* the input, which the code overwrites
  a,
  i, j, len, stage,
  w,          \* the twiddle factor
  written     \* the elements this stage has written

fftVars == <<pc, x, a, i, j, len, stage, w, written>>

Index == 0 .. FFT_N - 1
Element == 0 .. P - 1

half == len \div 2
-----------------------------------------------------------------------------
Add(u, v) == (u + v) % P
Sub(u, v) == (u - v) % P
Mul(u, v) == (u * v) % P
Power(b, n) == LET p[k \in 0 .. n] == IF k = 0 THEN 1 ELSE Mul(b, p[k - 1]) IN p[n]

\* wlen: the root of unity of order len.
Wlen == Power(Root, FFT_N \div len)

\* The number of halvings that take n to 1.
Bits(n) == CHOOSE b \in 0 .. n : 2 ^ b <= n /\ n < 2 ^ (b + 1)

\* rev: what the loop over the bits of n leaves.
Rev(n) ==
  LET r[b \in 0 .. Bits(FFT_N)] ==
        IF b = 0 THEN 0 ELSE (2 * r[b - 1]) + ((n \div (2 ^ (b - 1))) % 2)
  IN r[Bits(FFT_N)]
-----------------------------------------------------------------------------
FFTInit ==
  /\ pc = "reverse" /\ x \in Inputs /\ a = x
  /\ i = 0 /\ j = 0 /\ len = 2 /\ stage = 0 /\ w = 1 /\ written = {}

Reverse ==
  /\ pc = "reverse" /\ i < FFT_N
  /\ a' = IF Rev(i) > i THEN [a EXCEPT ![i] = a[Rev(i)], ![Rev(i)] = a[i]] ELSE a
  /\ i' = i + 1
  /\ UNCHANGED <<pc, x, j, len, stage, w, written>>

ReverseEnd ==
  /\ pc = "reverse" /\ i = FFT_N
  /\ pc' = "stage"
  /\ UNCHANGED <<x, a, i, j, len, stage, w, written>>

\* The work item of the stage begins.
StageBegin ==
  /\ pc = "stage" /\ len <= FFT_N
  /\ pc' = "block" /\ i' = 0 /\ written' = {}
  /\ UNCHANGED <<x, a, j, len, stage, w>>

Block ==
  /\ pc = "block" /\ i < FFT_N
  /\ pc' = "butterfly" /\ j' = 0 /\ w' = 1
  /\ UNCHANGED <<x, a, i, len, stage, written>>

Low == i + j
High == i + j + half

\* Fault: the twiddle factor is stepped before it is used.
ButterflyStepsFirst ==
  /\ pc = "butterfly" /\ j < half
  /\ LET v == Mul(a[High], Mul(w, Wlen))
     IN a' = [a EXCEPT ![Low] = Add(@, v), ![High] = Sub(a[Low], v)]
  /\ w' = Mul(w, Wlen)
  /\ written' = written \cup {Low, High}
  /\ j' = j + 1
  /\ UNCHANGED <<pc, x, i, len, stage>>

Butterfly ==
  /\ pc = "butterfly" /\ j < half
  /\ LET v == Mul(a[High], w)
     IN a' = [a EXCEPT ![Low] = Add(@, v), ![High] = Sub(a[Low], v)]
  /\ w' = Mul(w, Wlen)
  /\ written' = written \cup {Low, High}
  /\ j' = j + 1
  /\ UNCHANGED <<pc, x, i, len, stage>>

\* Fault: blocks overlap by half.
BlockEndOverlap ==
  /\ pc = "butterfly" /\ j = half
  /\ pc' = "block" /\ i' = IF i + len + half < FFT_N THEN i + half ELSE i + len
  /\ UNCHANGED <<x, a, j, len, stage, w, written>>

BlockEnd ==
  /\ pc = "butterfly" /\ j = half
  /\ pc' = "block" /\ i' = i + len
  /\ UNCHANGED <<x, a, j, len, stage, w, written>>

\* The work item ends.
StageEnd ==
  /\ pc = "block" /\ i = FFT_N
  /\ pc' = "stage" /\ len' = 2 * len /\ stage' = stage + 1 /\ j' = 0
  /\ UNCHANGED <<x, a, i, w, written>>

Transformed ==
  /\ pc = "stage" /\ len > FFT_N
  /\ pc' = "done"
  /\ UNCHANGED <<x, a, i, j, len, stage, w, written>>
-----------------------------------------------------------------------------
(* What it computes. *)

\* The k-th value of the transform of the n values s(0), ..., s(n - 1), by definition.
DFT(s(_), n, k) ==
  LET root == Power(Root, FFT_N \div n)
  IN MapThenFoldSet(Add, 0, LAMBDA m : Mul(s(m), Power(root, m * k)),
                    LAMBDA S : CHOOSE m \in S : TRUE, 0 .. n - 1)

\* fft is the transform, stage by stage: between stages every block of len / 2
\* elements holds the transform of the inputs that are FFT_N / (len / 2) apart,
\* beginning at the block's first index reversed.  Before the first stage this says
\* that bit_reverse is the permutation it should be, after the last that the one
\* block, the array, is the transform of the input (fft.c 82-139).
ComputesDFT ==
  pc \in {"stage", "done"} =>
    \A b \in 0 .. (FFT_N \div half) - 1, k \in 0 .. half - 1 :
      a[b * half + k] = DFT(LAMBDA m : x[Rev(b * half) + m * (FFT_N \div half)], half, k)

\* What a buffer that sends a stage's reads before its writes relies on: in one work
\* item no element is read after it has been written, and all are written.
ReadsBeforeWrites ==
  /\ pc = "butterfly" /\ j < half => {Low, High} \cap written = {}
  /\ pc = "stage" /\ stage > 0 => written = Index
=============================================================================

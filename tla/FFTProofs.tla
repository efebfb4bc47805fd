------------------------------ MODULE FFTProofs ------------------------------
(***************************************************************************)
(* Proofs about the FFT workload and its shifted traces, for every size    *)
(* of transform, every field and every input.                              *)
(***************************************************************************)
EXTENDS ShiftedFFT, WellFoundedInduction, FiniteSetTheorems, TLAPS

(***************************************************************************)
(* Within a stage.  No element is read after it has been written because   *)
(* the stage has written exactly the blocks before i and, of the block at  *)
(* i, the first j elements of each half.  That the last block ends at the  *)
(* end of the array, and not in the middle of a block, is where FFT_N must *)
(* be a power of two: the number of blocks of the next stage is half the   *)
(* number of this one.                                                     *)
(***************************************************************************)
Halvings(E) ==
  /\ E \subseteq 1 .. FFT_N /\ FFT_N \in E
  /\ \A n \in E : n = 1 \/ \E h \in E : n = 2 * h

LoopInv ==
  /\ pc \in {"reverse", "stage", "block", "butterfly", "done"}
  /\ i \in Nat /\ j \in Nat /\ stage \in Nat /\ half \in Nat \ {0} /\ len = 2 * half
  /\ pc = "reverse" => len = 2 /\ stage = 0 /\ i <= FFT_N

\* A stage is made of some number of whole blocks, and i is where one begins.
BlocksInv ==
  /\ len > FFT_N \/ \E E \in SUBSET (1 .. FFT_N), blocks \in 1 .. FFT_N :
                      Halvings(E) /\ blocks \in E /\ FFT_N = blocks * len
  /\ pc \in {"block", "butterfly"} => len <= FFT_N /\ \E c \in Nat : i = c * len
  /\ pc = "block" => i <= FFT_N
  /\ pc = "butterfly" => i < FFT_N /\ j <= half

WrittenInv ==
  /\ pc = "block" => written = 0 .. i - 1
  /\ pc = "butterfly" =>
       written = (0 .. i - 1) \cup (i .. i + j - 1) \cup (i + half .. i + half + j - 1)
  /\ pc = "stage" /\ stage > 0 => written = Index

StageInv == LoopInv /\ BlocksInv /\ WrittenInv

\* Of two products by a positive number the larger has the larger factor.
LEMMA ProductOrder ==
  ASSUME NEW b \in Nat, NEW c \in Nat, NEW n \in Nat
  PROVE  b <= c => b * n <= c * n
<1> SUFFICES ASSUME b <= c PROVE b * n <= c * n
  OBVIOUS
<1>1. PICK d \in Nat : c = b + d
  <2>1. c - b \in Nat /\ c = b + (c - b)
    OBVIOUS
  <2> QED
    BY <2>1
<1>2. c * n = b * n + d * n
  BY <1>1
<1>3. d * n \in Nat /\ b * n \in Nat
  BY <1>1
<1> QED
  BY <1>2, <1>3

\* A block that begins before the end of the array ends in it.
LEMMA BlockFits ==
  ASSUME NEW blocks \in Nat, NEW c \in Nat, NEW n \in Nat \ {0}, c * n < blocks * n
  PROVE  c * n + n <= blocks * n /\ c * n + n = (c + 1) * n
<1>1. c < blocks
  BY ProductOrder
<1>2. (c + 1) * n <= blocks * n
  BY <1>1, ProductOrder
<1>3. c * n + n = (c + 1) * n
  OBVIOUS
<1> QED
  BY <1>2, <1>3

\* The transform's part of a step.
FFTStep ==
  \/ Reverse \/ ReverseEnd \/ StageBegin \/ Block \/ Butterfly
  \/ BlockEnd \/ StageEnd \/ Transformed

\* Whatever the stage does, it keeps to its loops.
LEMMA StageNext == StageInv /\ (FFTStep \/ UNCHANGED fftVars) => StageInv'
<1> SUFFICES ASSUME StageInv, FFTStep \/ UNCHANGED fftVars PROVE StageInv'
  OBVIOUS
<1>1. FFT_N \in Nat \ {0, 1}
  BY FFTAssumption
<1>2. /\ pc \in {"reverse", "stage", "block", "butterfly", "done"}
      /\ i \in Nat /\ j \in Nat /\ stage \in Nat /\ half \in Nat \ {0} /\ len = 2 * half
      /\ len \in Nat \ {0}
  BY DEF StageInv, LoopInv
<1>3. len' = len => half' = half
  BY DEF half
<1>4. ASSUME len' = len
      PROVE  (\E E \in SUBSET (1 .. FFT_N), blocks \in 1 .. FFT_N :
                Halvings(E) /\ blocks \in E /\ FFT_N = blocks * len)'
             <=> \E E \in SUBSET (1 .. FFT_N), blocks \in 1 .. FFT_N :
                   Halvings(E) /\ blocks \in E /\ FFT_N = blocks * len
  BY <1>4 DEF Halvings
<1>5. CASE Reverse
  BY <1>1, <1>2, <1>3, <1>4, <1>5 DEF Reverse, StageInv, LoopInv, BlocksInv, WrittenInv
<1>6. CASE ReverseEnd
  BY <1>2, <1>3, <1>4, <1>6 DEF ReverseEnd, StageInv, LoopInv, BlocksInv, WrittenInv
<1>7. CASE StageBegin
  <2>1. /\ pc' = "block" /\ i' = 0 /\ written' = {} /\ len' = len /\ j' = j /\ stage' = stage
        /\ len <= FFT_N
    BY <1>7 DEF StageBegin
  <2>2. i' = 0 * len /\ 0 .. i' - 1 = {} /\ i' <= FFT_N
    BY <1>1, <1>2, <2>1
  <2>3. LoopInv'
    BY <1>2, <1>3, <2>1 DEF LoopInv
  <2>4. BlocksInv'
    BY <1>4, <2>1, <2>2 DEF StageInv, BlocksInv
  <2>5. WrittenInv'
    BY <2>1, <2>2 DEF WrittenInv
  <2> QED
    BY <2>3, <2>4, <2>5 DEF StageInv
<1>8. CASE Block
  <2>1. /\ pc = "block" /\ pc' = "butterfly" /\ i' = i /\ j' = 0 /\ len' = len
        /\ stage' = stage /\ written' = written /\ i < FFT_N /\ half' = half
    BY <1>3, <1>8 DEF Block
  <2>2. written = 0 .. i - 1 /\ i .. i + 0 - 1 = {} /\ i + half .. i + half + 0 - 1 = {}
    BY <1>2, <2>1 DEF StageInv, WrittenInv
  <2>3. LoopInv'
    BY <1>2, <2>1 DEF LoopInv
  <2>4. BlocksInv'
    BY <1>2, <1>4, <2>1 DEF StageInv, BlocksInv
  <2>5. WrittenInv'
    BY <2>1, <2>2 DEF WrittenInv
  <2> QED
    BY <2>3, <2>4, <2>5 DEF StageInv
<1>9. CASE Butterfly
  <2>1. /\ pc = "butterfly" /\ pc' = pc /\ i' = i /\ j' = j + 1 /\ len' = len
        /\ stage' = stage /\ written' = written \cup {i + j, i + j + half} /\ j < half
        /\ half' = half
    BY <1>3, <1>9 DEF Butterfly, Low, High
  <2>2. /\ i .. i + (j + 1) - 1 = (i .. i + j - 1) \cup {i + j}
        /\ i + half .. i + half + (j + 1) - 1
             = (i + half .. i + half + j - 1) \cup {i + j + half}
    BY <1>2
  <2>3. LoopInv'
    BY <1>2, <2>1 DEF LoopInv
  <2>4. BlocksInv'
    BY <1>2, <1>4, <2>1 DEF StageInv, BlocksInv
  <2>5. WrittenInv'
    BY <2>1, <2>2 DEF StageInv, WrittenInv
  <2> QED
    BY <2>3, <2>4, <2>5 DEF StageInv
<1>10. CASE BlockEnd
  <2>1. /\ pc = "butterfly" /\ pc' = "block" /\ i' = i + len /\ j' = j /\ len' = len
        /\ stage' = stage /\ written' = written /\ j = half /\ half' = half
    BY <1>3, <1>10 DEF BlockEnd
  <2>2. PICK c \in Nat : i = c * len
    BY <2>1 DEF StageInv, BlocksInv
  <2>3. PICK E \in SUBSET (1 .. FFT_N), blocks \in 1 .. FFT_N :
          Halvings(E) /\ blocks \in E /\ FFT_N = blocks * len
    BY <1>1, <1>2, <2>1 DEF StageInv, BlocksInv
  <2>4. i < FFT_N
    BY <2>1 DEF StageInv, BlocksInv
  <2>5. i + len <= FFT_N /\ i + len = (c + 1) * len
    BY <1>2, <2>2, <2>3, <2>4, BlockFits
  <2>6. (i .. i + half - 1) \cup (i + half .. i + half + half - 1) = i .. i + len - 1
    BY <1>2
  <2>7. (0 .. i - 1) \cup (i .. i + len - 1) = 0 .. i + len - 1
    BY <1>2
  <2>8. written = 0 .. i' - 1
    <3>1. written = (0 .. i - 1) \cup (i .. i + half - 1) \cup (i + half .. i + half + half - 1)
      BY <2>1 DEF StageInv, WrittenInv
    <3>2. \A A, B, C : A \cup B \cup C = A \cup (B \cup C)
      OBVIOUS
    <3>3. written = (0 .. i - 1) \cup (i .. i + len - 1)
      BY <2>6, <3>1, <3>2, Zenon
    <3>4. written = 0 .. i + len - 1
      BY <2>7, <3>3, Zenon
    <3>5. i' = i + len
      BY <2>1
    <3> QED
      BY <1>2, <3>4, <3>5
  <2>9. LoopInv'
    BY <1>2, <2>1 DEF LoopInv
  <2>10. BlocksInv'
    <3>1. len' <= FFT_N /\ i' <= FFT_N /\ c + 1 \in Nat /\ i' = (c + 1) * len'
      BY <2>1, <2>2, <2>5 DEF StageInv, BlocksInv
    <3>2. (\E F \in SUBSET (1 .. FFT_N), b \in 1 .. FFT_N :
             Halvings(F) /\ b \in F /\ FFT_N = b * len)'
      BY <1>4, <2>1, <2>3
    <3> QED
      BY <2>1, <3>1, <3>2 DEF BlocksInv
  <2>11. WrittenInv'
    BY <2>1, <2>8 DEF WrittenInv
  <2> QED
    BY <2>9, <2>10, <2>11 DEF StageInv
<1>11. CASE StageEnd
  <2>1. /\ pc = "block" /\ pc' = "stage" /\ len' = 2 * len /\ stage' = stage + 1 /\ j' = 0
        /\ i' = i /\ i = FFT_N /\ written' = written
    BY <1>11 DEF StageEnd
  <2>2. half' = len
    BY <1>2, <2>1 DEF half
  <2>3. PICK E \in SUBSET (1 .. FFT_N), blocks \in 1 .. FFT_N :
          Halvings(E) /\ blocks \in E /\ FFT_N = blocks * len
    BY <1>1, <1>2, <2>1 DEF StageInv, BlocksInv
  <2>4. \* Half as many blocks of twice the length, unless this stage was the last.
        len' > FFT_N \/ \E h \in 1 .. FFT_N : h \in E /\ FFT_N = h * len'
    <3>1. CASE blocks = 1
      BY <1>1, <1>2, <2>1, <2>3, <3>1
    <3>2. CASE blocks # 1
      <4>1. PICK h \in E : blocks = 2 * h
        BY <2>3, <3>2 DEF Halvings
      <4>2. h \in 1 .. FFT_N
        BY <2>3 DEF Halvings
      <4>3. FFT_N = h * (2 * len)
        BY <1>2, <2>3, <4>1, <4>2
      <4> QED
        BY <2>1, <4>2, <4>3
    <3> QED
      BY <3>1, <3>2
  <2>5. LoopInv'
    BY <1>2, <2>1, <2>2 DEF LoopInv
  <2>6. BlocksInv'
    BY <2>1, <2>3, <2>4 DEF BlocksInv, Halvings
  <2>7. WrittenInv'
    BY <2>1 DEF StageInv, WrittenInv, Index
  <2> QED
    BY <2>5, <2>6, <2>7 DEF StageInv
<1>12. CASE Transformed
  BY <1>2, <1>3, <1>4, <1>12 DEF Transformed, StageInv, LoopInv, BlocksInv, WrittenInv
<1>13. CASE UNCHANGED fftVars
  <2>1. /\ pc' = pc /\ i' = i /\ j' = j /\ len' = len /\ stage' = stage /\ written' = written
        /\ half' = half
    BY <1>3, <1>13 DEF fftVars
  <2> QED
    BY <1>2, <1>4, <2>1 DEF StageInv, LoopInv, BlocksInv, WrittenInv
<1> QED
  BY <1>5, <1>6, <1>7, <1>8, <1>9, <1>10, <1>11, <1>12, <1>13 DEF FFTStep

\* A step of the whole is one of the transform, or none of it.
LEMMA FFTPart == [Next]_vars => FFTStep \/ UNCHANGED fftVars
BY DEF Next, Workload, Untraced, FFTStep, Stopped, vars

\* The loops begin right: the first stage has FFT_N / 2 blocks.
LEMMA StageInit == Init => StageInv
<1> SUFFICES ASSUME Init PROVE StageInv
  OBVIOUS
<1>1. /\ pc \in {"reverse", "done"} /\ i = 0 /\ j = 0 /\ len = 2 /\ stage = 0
  BY DEF Init, WorkloadInit, FilesInit, FFTInit
<1>2. half = 1 /\ FFT_N \in Nat \ {0, 1}
  BY <1>1, FFTAssumption DEF half
<1>3. PICK E \in SUBSET (1 .. FFT_N) : Halvings(E)
  BY PowerOfTwoAssumption DEF Halvings
<1>4. PICK h \in E : FFT_N = 2 * h
  BY <1>2, <1>3 DEF Halvings
<1>5. h \in 1 .. FFT_N /\ FFT_N = h * len
  BY <1>1, <1>3, <1>4
<1>6. LoopInv
  BY <1>1, <1>2 DEF LoopInv
<1>7. BlocksInv
  BY <1>1, <1>3, <1>4, <1>5 DEF BlocksInv
<1>8. WrittenInv
  BY <1>1 DEF WrittenInv
<1> QED
  BY <1>6, <1>7, <1>8 DEF StageInv

\* For every power of two: in a stage no butterfly reads what another has
\* written, and all of the array is written.
THEOREM ReadsComeFirst == Spec => []ReadsBeforeWrites
<1>1. StageInv /\ [Next]_vars => StageInv'
  BY FFTPart, StageNext
<1>2. StageInv => ReadsBeforeWrites
  <2> SUFFICES ASSUME StageInv PROVE ReadsBeforeWrites
    OBVIOUS
  <2>1. ASSUME pc = "butterfly", j < half
        PROVE  {Low, High} \cap written = {}
    <3>1. /\ i \in Nat /\ j \in Nat /\ half \in Nat
          /\ written = (0 .. i - 1) \cup (i .. i + j - 1) \cup (i + half .. i + half + j - 1)
      BY <2>1 DEF StageInv, LoopInv, WrittenInv
    <3>2. i + j \notin written /\ i + j + half \notin written
      BY <2>1, <3>1
    <3> QED
      BY <3>2 DEF Low, High
  <2> QED
    BY <2>1 DEF ReadsBeforeWrites, StageInv, WrittenInv
<1> QED
  BY <1>1, <1>2, StageInit, PTL DEF Spec
-----------------------------------------------------------------------------
(***************************************************************************)
(* The shifted traces.  A write of one iteration and the reads of the next *)
(* that get its data are moved together, or neither is, so equal addresses *)
(* stay equal; StayApart is the other direction.                           *)
(***************************************************************************)

\* A set of natural numbers that is not empty has a least element.
LEMMA LeastNatural ==
  ASSUME NEW T \in SUBSET Nat, T # {}
  PROVE  \E n \in T : \A m \in T : n <= m
<1>1. PICK R : R = OpToRel(<, Nat)
  OBVIOUS
<1>2. IsWellFoundedOn(R, Nat)
  BY <1>1, NatLessThanWellFounded
<1>3. PICK n \in T : \A m \in T : ~ (<<m, n>> \in R)
  BY <1>2, WFMin
<1>4. ASSUME NEW m \in T, m < n
      PROVE  FALSE
  <2>1. <<m, n>> \in R
    BY <1>1, <1>4 DEF OpToRel
  <2> QED
    BY <1>3, <2>1
<1>5. \A m \in T : n <= m
  BY <1>4
<1> QED
  BY <1>5

\* Of some accesses in finitely many finite traces one is the last.
LEMMA LastAccess ==
  ASSUME NEW n \in Nat, NEW length \in [1 .. n -> Nat],
         NEW W, W # {}, W \subseteq Nat \X Nat,
         \A q \in W : q[1] \in 1 .. n /\ q[2] \in 1 .. length[q[1]]
  PROVE  \E q \in W : \A r \in W : r = q \/ Earlier(r, q)
<1>1. \A q \in W : q = <<q[1], q[2]>> /\ q[1] \in Nat /\ q[2] \in Nat
  OBVIOUS
<1>2. PICK first \in W : \A r \in W : r[1] <= first[1]
  <2> DEFINE T == {n - q[1] : q \in W}
  <2>1. T \in SUBSET Nat /\ T # {}
    OBVIOUS
  <2>2. PICK least \in T : \A m \in T : least <= m
    <3> HIDE DEF T
    <3> QED
      BY <2>1, LeastNatural
  <2>3. PICK q \in W : least = n - q[1]
    OBVIOUS
  <2>4. ASSUME NEW r \in W
        PROVE  r[1] <= q[1]
    <3>1. n - q[1] <= n - r[1]
      BY <2>2, <2>3
    <3> QED
      BY <1>1, <3>1
  <2> QED
    BY <2>4
<1> DEFINE file == first[1]
<1> DEFINE T == {length[file] - q[2] : q \in {r \in W : r[1] = file}}
<1>3. T \in SUBSET Nat /\ T # {}
  OBVIOUS
<1>4. PICK least \in T : \A m \in T : least <= m
  <2> HIDE DEF T
  <2> QED
    BY <1>3, LeastNatural
<1>5. PICK q \in W : q[1] = file /\ least = length[file] - q[2]
  OBVIOUS
<1>6. ASSUME NEW r \in W
      PROVE  r = q \/ Earlier(r, q)
  <2>1. r[1] <= q[1] /\ r[1] \in Nat /\ q[1] \in Nat
    BY <1>1, <1>2, <1>5
  <2>2. CASE r[1] < q[1]
    BY <2>2 DEF Earlier
  <2>3. CASE r[1] = q[1]
    <3>1. length[file] - q[2] <= length[file] - r[2]
      BY <1>4, <1>5, <2>3
    <3>2. length[file] \in Nat /\ r[2] \in Nat /\ q[2] \in Nat
      BY <1>1, <1>5
    <3>3. r[2] <= q[2]
      BY <3>1, <3>2
    <3>4. CASE r[2] = q[2]
      BY <1>1, <2>3, <3>4
    <3>5. CASE r[2] < q[2]
      BY <2>3, <3>5 DEF Earlier
    <3> QED
      BY <3>2, <3>3, <3>4, <3>5
  <2> QED
    BY <2>1, <2>2, <2>3
<1> QED
  BY <1>6

\* The output directory holds the rewritten traces, as far as it is written.
ShiftInv ==
  /\ files \in Seq(Seq(TraceLine)) /\ opt \in Options
  /\ main \in {"rewrite", "done"} =>
       /\ outdir = [f \in 1 .. Len(outdir) |-> Rewritten(f - 1)] /\ Len(outdir) \in Nat
       /\ Len(outdir) <= Len(files)
       /\ main = "done" => Len(outdir) = Len(files)

\* Where access k of trace f goes.
ShiftedAddr(f, k) ==
  IF files[f][k].op \in ApplyMap(f - 1) THEN Moved(files[f][k].addr) ELSE files[f][k].addr

\* Rewriting a trace changes the addresses of the operations it is applied to.
LEMMA RewrittenAccess ==
  ASSUME files \in Seq(Seq(TraceLine)), NEW f \in 1 .. Len(files)
  PROVE  /\ DOMAIN Rewritten(f - 1) = DOMAIN files[f]
         /\ \A k \in DOMAIN files[f] :
              /\ Rewritten(f - 1)[k].op = files[f][k].op
              /\ files[f][k].op \in {"READ", "WRITE"} =>
                   Rewritten(f - 1)[k].addr = ShiftedAddr(f, k)
<1>1. (f - 1) + 1 = f
  OBVIOUS
<1> DEFINE file == files[f]
<1> DEFINE writes == IF "WRITE" \in ApplyMap(f - 1) THEN RewriteEntries(file, "WRITE") ELSE file
<1>2. Rewritten(f - 1) =
        IF "READ" \in ApplyMap(f - 1) THEN RewriteEntries(writes, "READ") ELSE writes
  BY <1>1 DEF Rewritten
<1>3. /\ DOMAIN writes = DOMAIN file
      /\ \A k \in DOMAIN file :
           writes[k] = IF "WRITE" \in ApplyMap(f - 1) /\ file[k].op = "WRITE"
                       THEN Access(Moved(file[k].addr), "WRITE") ELSE file[k]
  BY DEF RewriteEntries
<1> HIDE DEF writes
<1>4. /\ DOMAIN Rewritten(f - 1) = DOMAIN writes
      /\ \A k \in DOMAIN writes :
           Rewritten(f - 1)[k] = IF "READ" \in ApplyMap(f - 1) /\ writes[k].op = "READ"
                                 THEN Access(Moved(writes[k].addr), "READ") ELSE writes[k]
  BY <1>2 DEF RewriteEntries
<1>5. ASSUME NEW k \in DOMAIN file, file[k].op = "READ"
      PROVE  /\ Rewritten(f - 1)[k].op = "READ"
             /\ Rewritten(f - 1)[k].addr = ShiftedAddr(f, k)
  <2>1. writes[k] = file[k] /\ k \in DOMAIN writes
    BY <1>3, <1>5
  <2>2. Rewritten(f - 1)[k] = IF "READ" \in ApplyMap(f - 1)
                              THEN Access(Moved(file[k].addr), "READ") ELSE file[k]
    BY <1>4, <1>5, <2>1
  <2> QED
    BY <1>5, <2>2 DEF Access, ShiftedAddr
<1>6. ASSUME NEW k \in DOMAIN file, file[k].op = "WRITE"
      PROVE  /\ Rewritten(f - 1)[k].op = "WRITE"
             /\ Rewritten(f - 1)[k].addr = ShiftedAddr(f, k)
  <2>1. /\ writes[k].op = "WRITE"
        /\ writes[k].addr = ShiftedAddr(f, k)
    <3>1. writes[k] = IF "WRITE" \in ApplyMap(f - 1)
                      THEN Access(Moved(file[k].addr), "WRITE") ELSE file[k]
      BY <1>3, <1>6
    <3> QED
      BY <1>6, <3>1 DEF Access, ShiftedAddr
  <2>2. Rewritten(f - 1)[k] = writes[k]
    BY <1>3, <1>4, <1>6, <2>1
  <2> QED
    BY <2>1, <2>2
<1>8. ASSUME NEW k \in DOMAIN file, file[k].op \notin {"READ", "WRITE"}
      PROVE  Rewritten(f - 1)[k].op = file[k].op
  <2>1. writes[k] = file[k] /\ k \in DOMAIN writes
    BY <1>3, <1>8
  <2> QED
    BY <1>4, <1>8, <2>1
<1>7. DOMAIN Rewritten(f - 1) = DOMAIN file
  BY <1>3, <1>4
<1> QED
  BY <1>5, <1>6, <1>7, <1>8

\* The write an iteration gets its data from is moved if and only if the read is.
LEMMA MovedTogether ==
  ASSUME NEW f \in 2 .. Len(files), NEW k, NEW m, Len(files) \in Nat,
         files[f][k].op = "READ", files[f - 1][m].op = "WRITE",
         files[f - 1][m].addr = files[f][k].addr, opt \in Options
  PROVE  ShiftedAddr(f - 1, m) = ShiftedAddr(f, k)
<1>1. "READ" \in ApplyMap(f - 1) <=>
        \E c \in opt.iters : 0 < c /\ c < Len(files) /\ f - 1 = c
  BY DEF ApplyMap
<1>5. opt.iters \subseteq Int
  BY OptionsAssumption
<1>2. "WRITE" \in ApplyMap((f - 1) - 1) <=>
        \E c \in opt.iters : 0 < c /\ c < Len(files) /\ (f - 1) - 1 = c - 1
  BY DEF ApplyMap
<1>3. "READ" \in ApplyMap(f - 1) <=> (f - 1) \in opt.iters
  BY <1>1
<1>4. "WRITE" \in ApplyMap((f - 1) - 1) <=> (f - 1) \in opt.iters
  BY <1>2, <1>5
<1> QED
  BY <1>3, <1>4 DEF ShiftedAddr

\* Whoever writes the traces, the rewriter's output is made from them.
LEMMA ShiftNext == ShiftInv /\ StageInv /\ [Next]_vars => ShiftInv'
<1> SUFFICES ASSUME ShiftInv, StageInv, [Next]_vars PROVE ShiftInv'
  OBVIOUS
<1>1. files \in Seq(Seq(TraceLine)) /\ Len(files) \in Nat /\ opt \in Options
  BY DEF ShiftInv
<1>2. ASSUME opt' = opt, files' = files
      PROVE  \A f : Rewritten(f)' = Rewritten(f)
  BY <1>2 DEF Rewritten, RewriteEntries, ApplyMap, Moved, MoveBitfield, Clear, Field, Width, DstLsb
<1>3. ASSUME opt' = opt, files' = files, outdir' = outdir, main' = main
      PROVE  ShiftInv'
  BY <1>2, <1>3 DEF ShiftInv
<1>4. CASE Workload
  <2>1. /\ main = "workload" /\ main' \notin {"rewrite", "done"} /\ opt' = opt
    BY <1>4 DEF Workload
  <2>2. files' \in Seq(Seq(TraceLine))
    <3>1. CASE StageBegin /\ files' = Append(files, << >>)
      <4>1. << >> \in Seq(TraceLine)
        OBVIOUS
      <4> QED
        BY <1>1, <3>1, <4>1
    <3>2. CASE Butterfly /\ files' = [files EXCEPT ![Len(files)] = @ \o ButterflyAccesses]
      <4>1. i \in Nat /\ j \in Nat /\ half \in Nat /\ Buf \in Nat
        BY TracesAssumption DEF StageInv, LoopInv
      <4>2. Buf + Low \in Nat /\ Buf + High \in Nat
        BY <4>1 DEF Low, High
      <4>3. \A addr \in Nat, op \in {"READ", "WRITE"} : Access(addr, op) \in TraceLine
        BY DEF Access, TraceLine
      <4>4. ButterflyAccesses \in Seq(TraceLine)
        <5>1. /\ Access(Buf + Low, "READ") \in TraceLine /\ Access(Buf + High, "READ") \in TraceLine
              /\ Access(Buf + Low, "WRITE") \in TraceLine /\ Access(Buf + High, "WRITE") \in TraceLine
          BY <4>2, <4>3
        <5> QED
          BY <5>1 DEF ButterflyAccesses
      <4>5. ASSUME Len(files) \in DOMAIN files
            PROVE  files[Len(files)] \o ButterflyAccesses \in Seq(TraceLine)
        <5>1. files[Len(files)] \in Seq(TraceLine)
          BY <1>1, <4>5
        <5> QED
          BY <4>4, <5>1
      <4>6. PICK S : S = Seq(TraceLine)
        OBVIOUS
      <4>7. files \in Seq(S) /\ \A k \in DOMAIN files : files[k] \in S
        BY <1>1, <4>6
      <4>8. files' \in Seq(S)
        <5>1. PICK v : v = files[Len(files)] \o ButterflyAccesses
          OBVIOUS
        <5>2. files' = [files EXCEPT ![Len(files)] = v]
          BY <3>2, <5>1
        <5>3. Len(files) \in DOMAIN files => v \in S
          BY <4>5, <4>6, <5>1
        <5>4. PICK n \in Nat : n = Len(files)
          BY <1>1
        <5>5. files \in [1 .. n -> S] /\ DOMAIN files = 1 .. n
          BY <4>7, <5>4
        <5>6. files' \in [1 .. n -> S]
          BY <5>2, <5>3, <5>4, <5>5
        <5> QED
          BY <5>4, <5>6
      <4> QED
        BY <4>6, <4>8
    <3>3. CASE files' = files
      BY <1>1, <3>3
    <3> QED
      BY <1>4, <3>1, <3>2, <3>3 DEF Workload
  <2> QED
    BY <1>1, <2>1, <2>2 DEF ShiftInv
<1>5. CASE Collect
  <2>1. /\ opt' \in Options /\ files' = files /\ main' \in {"rewrite", "refused"} /\ outdir' = << >>
    BY <1>5 DEF Collect
  <2> QED
    BY <1>1, <2>1 DEF ShiftInv
<1>6. CASE RewriteFile
  <2>1. /\ main = "rewrite" /\ opt' = opt /\ files' = files /\ Len(outdir) < Len(files)
        /\ \/ outdir' = Append(outdir, Rewritten(Len(outdir))) /\ main' = main
           \/ main' = "failed" /\ outdir' = outdir
    BY <1>6 DEF RewriteFile
  <2>2. CASE main' = "failed"
    BY <1>1, <2>1, <2>2 DEF ShiftInv
  <2>3. CASE outdir' = Append(outdir, Rewritten(Len(outdir))) /\ main' = main
    <3> DEFINE T == {Rewritten(f - 1) : f \in 1 .. Len(outdir) + 1}
    <3>1. Len(outdir) \in Nat /\ outdir \in Seq(T) /\ Rewritten(Len(outdir)) \in T
      <4>1. Len(outdir) \in Nat /\ outdir = [f \in 1 .. Len(outdir) |-> Rewritten(f - 1)]
        BY <2>1 DEF ShiftInv
      <4>2. \A f \in 1 .. Len(outdir) : Rewritten(f - 1) \in T
        BY <4>1
      <4>3. PICK n \in 1 .. Len(outdir) + 1 : n - 1 = Len(outdir)
        <5>1. Len(outdir) + 1 \in 1 .. Len(outdir) + 1 /\ (Len(outdir) + 1) - 1 = Len(outdir)
          BY <4>1
        <5> QED
          BY <5>1
      <4>5. Rewritten(n - 1) \in T
        OBVIOUS
      <4>4. Rewritten(Len(outdir)) \in T
        BY <4>3, <4>5
      <4> HIDE DEF T
      <4> QED
        BY <4>1, <4>2, <4>4
    <3> HIDE DEF T
    <3>2. Len(outdir') = Len(outdir) + 1 /\ outdir' = [f \in 1 .. Len(outdir) + 1 |-> outdir'[f]]
      <4>1. Len(outdir') = Len(outdir) + 1 /\ outdir' \in Seq(T)
        BY <2>3, <3>1
      <4> QED
        BY <4>1
    <3>3. ASSUME NEW f \in 1 .. Len(outdir')
          PROVE  outdir'[f] = Rewritten(f - 1)'
      <4>1. CASE f = Len(outdir) + 1
        <5>1. outdir'[f] = Rewritten(Len(outdir)) /\ f - 1 = Len(outdir)
          BY <2>3, <3>1, <4>1
        <5> QED
          BY <1>2, <2>1, <5>1
      <4>2. CASE f \in 1 .. Len(outdir)
        <5>1. outdir'[f] = outdir[f] /\ outdir[f] = Rewritten(f - 1)
          BY <2>1, <2>3, <3>1, <4>2 DEF ShiftInv
        <5> QED
          BY <1>2, <2>1, <5>1
      <4> QED
        BY <3>1, <3>2, <4>1, <4>2
    <3>4. outdir' = [f \in 1 .. Len(outdir') |-> Rewritten(f - 1)']
      BY <3>1, <3>2, <3>3
    <3> QED
      BY <1>1, <2>1, <2>3, <3>1, <3>2, <3>4 DEF ShiftInv
  <2> QED
    BY <2>1, <2>2, <2>3
<1>7. CASE FilesWritten
  <2>1. /\ main = "rewrite" /\ main' = "done" /\ opt' = opt /\ files' = files /\ outdir' = outdir
        /\ Len(outdir) = Len(files)
    BY <1>7 DEF FilesWritten
  <2> QED
    BY <1>1, <1>2, <2>1 DEF ShiftInv
<1>8. CASE UNCHANGED vars
  BY <1>3, <1>8 DEF vars, shiftVars
<1> QED
  BY <1>4, <1>5, <1>6, <1>7, <1>8 DEF Next, ShiftStep, Stopped

\* Nothing is rewritten before the traces are there.
LEMMA ShiftInit == Init => ShiftInv
<1> SUFFICES ASSUME Init PROVE ShiftInv
  OBVIOUS
<1>1. files \in Seq(Seq(TraceLine)) /\ main \in {"workload", "collect"}
  <2>1. CASE WorkloadInit
    BY <2>1 DEF WorkloadInit
  <2>2. CASE FilesInit
    BY <2>2, TracesAssumption DEF FilesInit
  <2> QED
    BY <2>1, <2>2 DEF Init
<1>2. opt \in Options
  BY OptionsAssumption DEF Init
<1> QED
  BY <1>1, <1>2 DEF ShiftInv

\* The writes before access p to its address.
WritesTo(traces, p) ==
  {q \in All : /\ Earlier(q, p) /\ traces[q[1]][q[2]].op = "WRITE"
               /\ traces[q[1]][q[2]].addr = traces[p[1]][p[2]].addr}

\* Data that flows from one iteration to the next flows from the same writes to
\* the same reads after the shift, whatever the traces, the field, the shift and
\* the iterations, unless two addresses have become one.
THEOREM FlowStays == Spec => []FlowKept
<1>1. StageInv /\ ShiftInv => FlowKept
  <2> SUFFICES ASSUME StageInv, ShiftInv, main = "done", FromPrevious, StayApart,
                      NEW p \in ReadsOfAll
               PROVE  Sources(outdir, p) = Sources(files, p)
    BY DEF FlowKept
  <2>1. /\ files \in Seq(Seq(TraceLine)) /\ Len(files) \in Nat /\ opt \in Options
        /\ DOMAIN outdir = 1 .. Len(files)
        /\ \A f \in 1 .. Len(files) : outdir[f] = Rewritten(f - 1)
    BY DEF ShiftInv
  <2>2. \A q \in All : /\ q = <<q[1], q[2]>> /\ q[1] \in 1 .. Len(files)
                       /\ q[2] \in DOMAIN files[q[1]]
    BY <2>1 DEF All
  <2>3. p \in All /\ files[p[1]][p[2]].op = "READ"
    BY DEF ReadsOfAll
  <2>4. \A q \in All :
          /\ outdir[q[1]][q[2]].op = files[q[1]][q[2]].op
          /\ files[q[1]][q[2]].op \in {"READ", "WRITE"} =>
               outdir[q[1]][q[2]].addr = ShiftedAddr(q[1], q[2])
    BY <2>1, <2>2, RewrittenAccess
  <2>5. WritesTo(outdir, p) \subseteq WritesTo(files, p)
    BY <2>3, <2>4 DEF WritesTo, StayApart
  <2>6. \A traces : Sources(traces, p) =
          {q \in WritesTo(traces, p) : \A r \in WritesTo(traces, p) : r = q \/ Earlier(r, q)}
    BY DEF Sources, WritesTo
  <2>7. CASE WritesTo(files, p) = {}
    BY <2>5, <2>6, <2>7
  <2>8. CASE WritesTo(files, p) # {}
    <3> DEFINE length == [f \in 1 .. Len(files) |-> Len(files[f])]
    <3> DEFINE W == WritesTo(files, p)
    <3>1. \A f \in 1 .. Len(files) : Len(files[f]) \in Nat /\ DOMAIN files[f] = 1 .. Len(files[f])
      BY <2>1
    <3>2. length \in [1 .. Len(files) -> Nat]
      BY <3>1
    <3>3. ASSUME NEW q \in W
          PROVE  q \in Nat \X Nat /\ q[1] \in 1 .. Len(files) /\ q[2] \in 1 .. length[q[1]]
      BY <2>1, <2>2, <3>1 DEF WritesTo
    <3>4. PICK q \in W : \A r \in W : r = q \/ Earlier(r, q)
      <4>1. W # {} /\ W \subseteq Nat \X Nat
        BY <2>8, <3>3
      <4> HIDE DEF W, length
      <4> QED
        BY <2>1, <3>2, <3>3, <4>1, LastAccess
    <3>5. q \in All /\ files[q[1]][q[2]].op = "WRITE" /\ Earlier(q, p)
          /\ files[q[1]][q[2]].addr = files[p[1]][p[2]].addr
      BY DEF WritesTo
    <3>6. q \in Sources(files, p)
      BY <2>6, <3>4
    <3>7. q[1] = p[1] - 1
      BY <3>6 DEF FromPrevious
    <3>8. ShiftedAddr(q[1], q[2]) = ShiftedAddr(p[1], p[2])
      <4>1. PICK f : f = p[1]
        OBVIOUS
      <4>2. f \in 2 .. Len(files) /\ q[1] = f - 1
        BY <2>1, <2>2, <2>3, <3>5, <3>7, <4>1
      <4>3. /\ files[f][p[2]].op = "READ" /\ files[f - 1][q[2]].op = "WRITE"
            /\ files[f - 1][q[2]].addr = files[f][p[2]].addr
        BY <2>3, <3>5, <4>1, <4>2
      <4>4. ShiftedAddr(f - 1, q[2]) = ShiftedAddr(f, p[2])
        BY <2>1, <4>2, <4>3, MovedTogether
      <4> QED
        BY <4>1, <4>2, <4>4
    <3>9. q \in WritesTo(outdir, p)
      <4>1. /\ outdir[q[1]][q[2]].op = "WRITE"
            /\ outdir[q[1]][q[2]].addr = ShiftedAddr(q[1], q[2])
        BY <2>4, <3>5
      <4>2. outdir[p[1]][p[2]].addr = ShiftedAddr(p[1], p[2])
        BY <2>3, <2>4
      <4> QED
        BY <3>5, <3>8, <4>1, <4>2 DEF WritesTo
    <3>10. \A r \in W : Earlier(q, r) /\ Earlier(r, q) => FALSE
      <4>1. \A r \in W : r[1] \in Nat /\ r[2] \in Nat
        BY <3>3
      <4> HIDE DEF W
      <4> QED
        BY <4>1 DEF Earlier
    <3>11. Sources(files, p) = {q}
      BY <2>6, <3>4, <3>10
    <3>12. Sources(outdir, p) = {q}
      BY <2>5, <2>6, <3>4, <3>9, <3>10
    <3> QED
      BY <3>11, <3>12
  <2> QED
    BY <2>7, <2>8
<1>2. StageInv /\ [Next]_vars => StageInv'
  BY StageNext, FFTPart
<1> QED
  BY <1>1, <1>2, StageInit, ShiftInit, ShiftNext, PTL DEF Spec
=============================================================================

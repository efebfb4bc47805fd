------------------------------ MODULE BankShift ------------------------------
(***************************************************************************)
(* rewrite_dramsim3_bankshift.py: in a directory of traces, one for each   *)
(* iteration, the bank field of the addresses written by iteration i - 1   *)
(* and read by iteration i is moved to other bits, for each i in a set.    *)
(***************************************************************************)
EXTENDS Integers, Sequences, FiniteSets

CONSTANT Options  \* the command lines: records of count (--bank-count), lsb,
                  \* shift, iters (--iter-set), clobber, and exists: whether there
                  \* is an output directory already

ASSUME OptionsAssumption == Options # {} /\ \A o \in Options : o.iters \subseteq Int

VARIABLES
  opt,    \* the command line
  main,   \* "collect", "rewrite", or how it ended: "refused", "failed", "done"
  files,  \* the traces of the input directory in natural order
  outdir  \* those of the output directory

shiftVars == <<opt, main, files, outdir>>

\* A line: TRACE_RE takes a READ or a WRITE of three columns, BAD is another line.
\* Blank lines, which load_trace_file skips, and cycles, which are copied, are left out.
TraceLine == [addr : Nat, op : {"READ", "WRITE", "BAD"}]
Access(addr, op) == [addr |-> addr, op |-> op]
Loads(file) == \A k \in DOMAIN file : file[k].op # "BAD"

PowerOf2(n) == n > 0 /\ \E w \in 0 .. n : 2 ^ w = n
Width == CHOOSE w \in 0 .. opt.count : 2 ^ w = opt.count
DstLsb == opt.lsb + opt.shift
-----------------------------------------------------------------------------
Field(addr, lsb) == (addr \div 2 ^ lsb) % 2 ^ Width
Clear(addr, lsb) == addr - Field(addr, lsb) * 2 ^ lsb

\* Fault: what was in the destination stays.
MoveOntoOld(addr) == Clear(addr, opt.lsb) + Field(addr, opt.lsb) * 2 ^ DstLsb

\* move_bitfield, for a destination that is there.
MoveBitfield(addr) ==
  Clear(Clear(addr, opt.lsb), DstLsb) + Field(addr, opt.lsb) * 2 ^ DstLsb

Moved(addr) == IF Width = 0 THEN addr ELSE MoveBitfield(addr)

\* rewrite_entries.
RewriteEntries(file, op) ==
  [k \in DOMAIN file |-> IF file[k].op = op THEN Access(Moved(file[k].addr), op)
                         ELSE file[k]]

\* Fault: an iteration's own writes are moved with its reads.
SameIterationPlan(i) == IF 0 < i /\ i \in opt.iters THEN {"READ", "WRITE"} ELSE {}

\* apply_map of build_pair_application_maps; iterations count from 0.
ApplyMap(i) ==
  {op \in {"READ", "WRITE"} :
     \E k \in opt.iters : /\ 0 < k /\ k < Len(files)
                          /\ i = IF op = "READ" THEN k ELSE k - 1}

\* move_bitfield raises only if it is called: the field would begin below bit 0,
\* moved or, as Python's shift has no negative count, already before that.
Raises(i) ==
  /\ Width > 0 /\ (DstLsb < 0 \/ opt.lsb < 0)
  /\ \E k \in DOMAIN files[i + 1] : files[i + 1][k].op \in ApplyMap(i)

Rewritten(i) ==
  LET file == files[i + 1]
      writes == IF "WRITE" \in ApplyMap(i) THEN RewriteEntries(file, "WRITE") ELSE file
  IN IF "READ" \in ApplyMap(i) THEN RewriteEntries(writes, "READ") ELSE writes
-----------------------------------------------------------------------------
\* The checks main makes before it empties the output directory.
Accepted ==
  PowerOf2(opt.count) /\ files # << >> /\ (opt.exists => opt.clobber)

Collect ==
  /\ main = "collect"
  /\ opt' \in Options
  /\ UNCHANGED files
  /\ main' = IF Accepted' THEN "rewrite" ELSE "refused"
  /\ outdir' = << >>

\* One file is loaded, rewritten and written.
RewriteFile ==
  /\ main = "rewrite" /\ Len(outdir) < Len(files)
  /\ LET i == Len(outdir) IN
     IF Loads(files[i + 1]) /\ ~ Raises(i)
     THEN outdir' = Append(outdir, Rewritten(i)) /\ UNCHANGED main
     ELSE main' = "failed" /\ UNCHANGED outdir
  /\ UNCHANGED <<opt, files>>

FilesWritten ==
  /\ main = "rewrite" /\ Len(outdir) = Len(files)
  /\ main' = "done"
  /\ UNCHANGED <<opt, files, outdir>>

ShiftStep == Collect \/ RewriteFile \/ FilesWritten
-----------------------------------------------------------------------------
(* What the rewriting promises. *)

AddrBits == 8  \* bound: no address, before or after, has more bits
BitsOf(addr) == {b \in 0 .. AddrBits - 1 : (addr \div 2 ^ b) % 2 = 1}

SourceBits == opt.lsb .. opt.lsb + Width - 1
DestinationBits == DstLsb .. DstLsb + Width - 1

\* "The bank-bit value itself is preserved; only its location in the address
\* changes.  All other non-overlapping bits are preserved" (lines 26-27), also where
\* source and destination overlap; and a trace in two affected pairs is moved once
\* for each, its writes for one and its reads for the other (line 71).
FieldMoved ==
  \A i \in 0 .. Len(outdir) - 1 :
    LET before == files[i + 1]  after == outdir[i + 1] IN
    /\ Len(after) = Len(before)
    /\ \A k \in DOMAIN before :
         LET old == BitsOf(before[k].addr)  new == BitsOf(after[k].addr) IN
         /\ after[k].op = before[k].op
         /\ IF \/ before[k].op = "READ" /\ i \in opt.iters /\ i > 0
               \/ before[k].op = "WRITE" /\ i + 1 \in opt.iters /\ i + 1 < Len(files)
            THEN new = (old \ (SourceBits \cup DestinationBits))
                       \cup {b + opt.shift : b \in old \cap SourceBits}
            ELSE new = old

\* All accesses, one trace after the other: of which iteration, and which in it.
All == UNION {{<<i, k>> : k \in DOMAIN files[i]} : i \in DOMAIN outdir}
Earlier(p, q) == p[1] < q[1] \/ (p[1] = q[1] /\ p[2] < q[2])

\* The access that wrote what access p of the traces reads, if there is one.
Sources(traces, p) ==
  LET W == {q \in All : /\ Earlier(q, p) /\ traces[q[1]][q[2]].op = "WRITE"
                        /\ traces[q[1]][q[2]].addr = traces[p[1]][p[2]].addr}
  IN {q \in W : \A r \in W : r = q \/ Earlier(r, q)}

ReadsOfAll == {p \in All : files[p[1]][p[2]].op = "READ"}

\* No two addresses have become one, which the script does not look for (line 36).
StayApart ==
  \A p, q \in All : outdir[p[1]][p[2]].addr = outdir[q[1]][q[2]].addr
                    => files[p[1]][p[2]].addr = files[q[1]][q[2]].addr

\* Every iteration reads what the one before wrote.
FromPrevious ==
  \A p \in ReadsOfAll : \A q \in Sources(files, p) : q[1] = p[1] - 1

\* The data still flows from each write to the same reads, if it flows only from one
\* iteration to the next, as that of the FFT's stages does, and the addresses are
\* still apart: writes are moved where, and only where, the reads of their data are.
FlowKept ==
  main = "done" /\ FromPrevious /\ StayApart =>
    \A p \in ReadsOfAll : Sources(outdir, p) = Sources(files, p)
=============================================================================

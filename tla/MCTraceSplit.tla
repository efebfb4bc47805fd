---------------------------- MODULE MCTraceSplit ----------------------------
(***************************************************************************)
(* Small runs for TraceSplit: two iterations, in both orders, and three    *)
(* packets at all ticks; and all short logs, also those no run writes.     *)
(***************************************************************************)
EXTENDS TraceSplit

CONSTANTS
  MaxTick,    \* bound: ticks of a run
  NPackets,   \* bound: packets of a run
  MaxMarks,   \* bound: lines of an arbitrary log
  Fields,     \* how many fields the decoder writes
  Converters  \* the converters used

Upwards(s) == \A k \in 1 .. Len(s) - 1 : s[k] <= s[k + 1]
Ticks(n) == {s \in [1 .. n -> 0 .. MaxTick] : Upwards(s)}

Mark(kind, t, tick) == [kind |-> kind, t |-> t, tick |-> tick]
RunLogs ==
  {<<Mark("begin", t, s[1]), Mark("end", t, s[2]),
     Mark("begin", 1 - t, s[3]), Mark("end", 1 - t, s[4])>> : t \in {0, 1}, s \in Ticks(4)}
AnyLogs ==
  UNION {{[k \in 1 .. n |-> Mark(kinds[k], ids[k], k)] :
            kinds \in [1 .. n -> {"begin", "end"}], ids \in [1 .. n -> {0, 1}]}
         : n \in 0 .. MaxMarks}

Packets == {[k \in 1 .. NPackets |-> [tick |-> s[k], fields |-> f, flag |-> k % 2]] :
              s \in Ticks(NPackets), f \in Fields}

OnePacket == <<[tick |-> 1, fields |-> 6, flag |-> 0]>>

MCJobs ==
  {[log |-> l, packets |-> p, converter |-> c, div |-> 3] :
     l \in RunLogs, p \in Packets, c \in Converters}
  \cup {[log |-> l, packets |-> OnePacket, converter |-> c, div |-> 2] :
          l \in AnyLogs, c \in Converters}
MCIds == {0, 1}
MCFields == {6, 8}
NewDecoder == {9}
=============================================================================

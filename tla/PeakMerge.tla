----------------------------- MODULE PeakMerge -----------------------------
(***************************************************************************)
(* The merge loop of udp_parse_task: the packets of a frame are reduced to *)
(* the peak of every 16-bit sample, in the buffers of the first packet.    *)
(*                                                                         *)
(* A datagram larger than the MTU arrives as a chain of fragments.  The    *)
(* loop walks along the chain and takes 1480 bytes for the share of every  *)
(* fragment, but the first one holds 8 bytes less, because the UDP header  *)
(* is part of its share, and the loop starts behind the 32 header bytes.   *)
(*                                                                         *)
(* The model follows one sample, at the datagram offset pos, through a     *)
(* frame of packets of one length.                                         *)
(***************************************************************************)
EXTENDS Integers

CONSTANTS
    TotLens,           \* lengths of a datagram (p->tot_len)
    Offsets,           \* candidate offsets of the sample
    Bytes,             \* values of the bytes of a sample
    PacketsPerFrame    \* nominal_counter_value (10)

ASSUME MergeAssumption ==
    /\ TotLens \subseteq Nat \ {0} /\ Offsets \subseteq Nat
    /\ Bytes \subseteq 0 .. 255
    /\ PacketsPerFrame \in Nat \ {0, 1}

Share == 1480           \* IP payload of a fragment
First == Share - 8      \* UDP payload of the first fragment
DataStart == 32         \* where the samples begin
PBUF_POOL_BUFSIZE == 1700

VARIABLES
    tot,       \* p->tot_len of the packets of the frame
    pos,       \* datagram offset of the sample
    acc,       \* the sample in old_pbuf
    cur,       \* the sample in the packet being merged
    peak,      \* auxiliary: the peak value of the packets so far
    count,     \* counter_of_packets
    pc,        \* "recv", or "walk" inside the for loop
    q,         \* index of the fragment the loop is at
    total_len, kursor,
    reach      \* auxiliary: how far into a buffer the loop has gone

vars == <<tot, pos, acc, cur, peak, count, pc, q, total_len, kursor, reach>>

-----------------------------------------------------------------------------
\* A sample is a pair of bytes, the upper one first.
Value(s) == s[1] * 256 + s[2]

\* The larger of two numbers.
Larger(a, b) == IF a >= b THEN a ELSE b

\* Mutation: the lower byte is compared on its own.
MergedBytewise(new, ref) == <<Larger(new[1], ref[1]), Larger(new[2], ref[2])>>

\* The comparison of the loop: upper byte, then lower byte.
Merged(new, ref) ==
    IF new[1] > ref[1] \/ (new[1] = ref[1] /\ new[2] > ref[2]) THEN new ELSE ref

\* The fragments of a datagram, and where the sample lies in them.
Fragments(len) == IF len <= First THEN 1 ELSE 1 + (len - First + Share - 1) \div Share
Start(i) == IF i = 1 THEN 0 ELSE First + (i - 2) * Share

\* Offset of the payload of fragment i in its buffer: Ethernet, IP, UDP.
PayloadAt(i) == IF i = 1 THEN 14 + 20 + 8 ELSE 14 + 20

\* Mutation: without the limit of one share.
StepWhole(left) == left

\* predel_na_shag for a remaining length.
Step(left) == IF left > Share THEN Share ELSE left % Share

\* The loop advances by two and so ends at an even offset.
Span(n) == n + (n % 2)

\* Mutation: kursor is not reset for the next fragment.
NextKursorKept == kursor

NextKursor == 0

-----------------------------------------------------------------------------
Samples == Bytes \X Bytes

Init ==
    /\ tot \in TotLens
    /\ pos \in {o \in Offsets : /\ DataStart <= o /\ o + 2 <= tot
                               /\ (o - DataStart) % 2 = 0}
    /\ acc = <<0, 0>> /\ cur = <<0, 0>> /\ peak = 0
    /\ count = 1 /\ pc = "recv"
    /\ q = 1 /\ total_len = tot /\ kursor = DataStart /\ reach = 0

\* counter_of_packets is 1: the packet becomes old_pbuf.
FirstPacket(s) ==
    /\ pc = "recv" /\ count = 1
    /\ acc' = s /\ peak' = Value(s)
    /\ count' = 2
    /\ UNCHANGED <<tot, pos, cur, pc, q, total_len, kursor, reach>>

NextPacket(s) ==
    /\ pc = "recv" /\ count > 1
    /\ cur' = s /\ peak' = Larger(peak, Value(s))
    /\ pc' = "walk"
    /\ q' = 1 /\ total_len' = tot /\ kursor' = DataStart
    /\ UNCHANGED <<tot, pos, acc, count, reach>>

\* One fragment of the chain, then q = q->next.  Beyond the end of a fragment
\* the loop meets other bytes of the buffer and not the sample.
MergeFragment ==
    LET step == Step(total_len)
        off == pos - Start(q)
    IN  /\ pc = "walk" /\ q <= Fragments(tot)
        /\ total_len' = IF total_len > Share THEN total_len - Share ELSE total_len
        /\ acc' = IF /\ pos < Start(q + 1)
                     /\ off >= kursor /\ off < kursor + step
                  THEN Merged(cur, acc) ELSE acc
        /\ reach' = Larger(reach, PayloadAt(q) + kursor + Span(step))
        /\ kursor' = NextKursor
        /\ q' = q + 1
        /\ UNCHANGED <<tot, pos, cur, peak, count, pc>>

\* The chain is at its end; after the last packet the frame is handed on and
\* the next one starts.
PacketDone ==
    /\ pc = "walk" /\ q > Fragments(tot)
    /\ count < PacketsPerFrame
    /\ count' = count + 1
    /\ pc' = "recv"
    /\ UNCHANGED <<tot, pos, acc, cur, peak, q, total_len, kursor, reach>>

FrameDone ==
    /\ pc = "walk" /\ q > Fragments(tot)
    /\ count >= PacketsPerFrame
    /\ count' = 1
    /\ pc' = "recv"
    /\ UNCHANGED <<tot, pos, acc, cur, peak, q, total_len, kursor, reach>>

Next ==
    \/ \E s \in Samples : FirstPacket(s) \/ NextPacket(s)
    \/ MergeFragment \/ PacketDone \/ FrameDone

Spec == Init /\ [][Next]_vars

-----------------------------------------------------------------------------
\* When a frame is finished the sample holds its peak over all packets, except
\* in the last 8 bytes of the datagram (the loop counts the UDP header twice)
\* and for lengths that are a multiple of 1480 (left % 1480 is 0 then).
MergedIsPeak ==
    /\ pc = "walk" /\ q > Fragments(tot) /\ count >= PacketsPerFrame
    /\ pos + 2 <= tot - 8
    /\ tot % Share # 0
    => Value(acc) = peak

\* The merged sample is never larger than the peak: nothing is made up, not
\* even by a loop that runs beyond the fragment.
NeverAbovePeak == Value(acc) <= peak

\* The loop goes beyond the length of a fragment, and never beyond its buffer.
InsideBuffer == reach <= PBUF_POOL_BUFSIZE
=============================================================================

--------------------------- MODULE FrameScanProofs ---------------------------
(***************************************************************************)
(* What the merge loop and the scan of gain control guarantee for every    *)
(* datagram length, every sample and every number of packets: the          *)
(* comparison of the bytes is the maximum of the samples, the loop stays   *)
(* inside the pool buffers, the merged sample is the peak of the packets,  *)
(* and saturation in a frame that leaves in one piece is found.            *)
(*                                                                         *)
(* The loop counts down from the length of the datagram in steps of 1480   *)
(* while the fragments begin 8 bytes earlier.  Walk relates the two: what  *)
(* is left is the part of the datagram that lies beyond the shares so far, *)
(* and the sample is merged once the walk has passed it.                   *)
(***************************************************************************)
EXTENDS FrameScan, TLAPS

Byte == 0 .. 255
Sample == Byte \X Byte

\* The order of pairs of bytes is the order of the numbers they stand for.
LEMMA PairOrder ==
    ASSUME NEW h1 \in Byte, NEW l1 \in Byte, NEW h2 \in Byte, NEW l2 \in Byte
    PROVE  /\ h1 * 256 + l1 \in Nat
           /\ h1 > h2 \/ (h1 = h2 /\ l1 > l2)
                => h1 * 256 + l1 >= h2 * 256 + l2
           /\ ~(h1 > h2 \/ (h1 = h2 /\ l1 > l2))
                => h2 * 256 + l2 >= h1 * 256 + l1
BY DEF Byte

\* Comparing the upper, then the lower byte, as the loop of udp_parse_task does,
\* yields the numeric maximum of two 16-bit samples.
THEOREM MergedIsMaximum ==
    ASSUME NEW a \in Sample, NEW b \in Sample
    PROVE  /\ Merged(a, b) \in Sample
           /\ Value(Merged(a, b)) = Larger(Value(a), Value(b))
<1>1. a[1] \in Byte /\ a[2] \in Byte /\ b[1] \in Byte /\ b[2] \in Byte
  BY DEF Sample
<1>2. Merged(a, b) \in Sample
  BY DEF Merged
<1>3. CASE a[1] > b[1] \/ (a[1] = b[1] /\ a[2] > b[2])
  <2>1. Merged(a, b) = a
    BY <1>3 DEF Merged
  <2>2. a[1] * 256 + a[2] >= b[1] * 256 + b[2]
    BY <1>1, <1>3, PairOrder
  <2> QED
    BY <1>2, <2>1, <2>2 DEF Value, Larger
<1>4. CASE ~(a[1] > b[1] \/ (a[1] = b[1] /\ a[2] > b[2]))
  <2>1. Merged(a, b) = b
    BY <1>4 DEF Merged
  <2>2. /\ b[1] * 256 + b[2] \in Nat /\ a[1] * 256 + a[2] \in Nat
        /\ b[1] * 256 + b[2] >= a[1] * 256 + a[2]
    BY <1>1, <1>4, PairOrder
  <2> QED
    BY <1>2, <2>1, <2>2 DEF Value, Larger
<1> QED
  BY <1>3, <1>4

\* One iteration never takes more than the share of a fragment.
LEMMA StepBound == ASSUME NEW left \in Nat PROVE Step(left) \in 0 .. Share
BY DEF Step, Share

TypeOK ==
    /\ acc \in Sample /\ cur \in Sample /\ peak \in Nat
    /\ tot \in Nat /\ total_len \in Nat /\ q \in Nat \ {0} /\ count \in Nat \ {0}

\* The loop never starts more than 32 bytes into a fragment; while a packet is
\* merged its sample is part of the peak.
MergeInv ==
    /\ TypeOK
    /\ kursor \in {0, DataStart}
    /\ reach \in 0 .. (14 + 20 + 8 + DataStart + Share)
    /\ Value(acc) <= peak
    /\ pc = "walk" => Value(cur) <= peak

\* The bounds hold before the first packet.
LEMMA InitMerge == ASSUME MergeAssumption, Init PROVE MergeInv
BY DEF MergeAssumption, Init, MergeInv, TypeOK, Sample, Byte, Value, DataStart, Share

\* The samples the environment chooses are pairs of bytes.
LEMMA SamplesTyped == MergeAssumption => Samples \subseteq Sample
BY DEF MergeAssumption, Samples, Sample, Byte

\* The value of a pair of bytes is a number.
LEMMA ValueNat == ASSUME NEW s \in Sample PROVE Value(s) \in Nat
<1>1. s[1] \in Byte /\ s[2] \in Byte
  BY DEF Sample
<1> QED
  BY <1>1, PairOrder DEF Value

\* Receiving a packet preserves the invariant.
LEMMA PacketMerge ==
    ASSUME MergeAssumption, MergeInv, NEW s \in Samples,
           FirstPacket(s) \/ NextPacket(s)
    PROVE  MergeInv'
<1>1. s \in Sample /\ Value(s) \in Nat
  BY SamplesTyped, ValueNat
<1>2. CASE FirstPacket(s)
  BY <1>1, <1>2 DEF FirstPacket, MergeInv, TypeOK
<1>3. CASE NextPacket(s)
  <2>1. Value(acc) \in Nat
    BY ValueNat DEF MergeInv, TypeOK
  <2>2. peak' \in Nat /\ Value(acc') <= peak' /\ Value(cur') <= peak'
    BY <1>1, <1>3, <2>1 DEF NextPacket, MergeInv, TypeOK, Larger
  <2> QED
    BY <1>1, <1>3, <2>2 DEF NextPacket, MergeInv, TypeOK
<1> QED
  BY <1>2, <1>3

\* A share is even, so rounding up does not leave it.
LEMMA SpanBound == \A n \in 0 .. Share : Span(n) \in 0 .. Share
BY DEF Span, Share

\* Merging one fragment preserves the invariant.
LEMMA FragmentMerge == ASSUME MergeInv, MergeFragment PROVE MergeInv'
<1>1. Step(total_len) \in 0 .. Share
  BY StepBound DEF MergeInv, TypeOK
<1>2. /\ Merged(cur, acc) \in Sample
      /\ Value(Merged(cur, acc)) = Larger(Value(cur), Value(acc))
  BY MergedIsMaximum DEF MergeInv, TypeOK
<1>3. Value(cur) \in Nat /\ Value(acc) \in Nat
  BY ValueNat DEF MergeInv, TypeOK
<1>4. acc' \in Sample /\ Value(acc') <= peak'
  <2>1. acc' \in {Merged(cur, acc), acc}
    BY DEF MergeFragment
  <2>2. Value(cur) <= peak /\ Value(acc) <= peak /\ peak' = peak
    BY DEF MergeFragment, MergeInv
  <2> QED
    BY <1>2, <1>3, <2>1, <2>2 DEF MergeInv, TypeOK, Larger
<1>5. reach' \in 0 .. (14 + 20 + 8 + DataStart + Share)
  <2>1. PayloadAt(q) \in {34, 42}
    BY DEF PayloadAt
  <2>2. reach' = Larger(reach, PayloadAt(q) + kursor + Span(Step(total_len)))
    BY DEF MergeFragment
  <2>3. Span(Step(total_len)) \in 0 .. Share
    BY <1>1, SpanBound
  <2> QED
    BY <2>1, <2>2, <2>3, SMTT(30) DEF MergeInv, Larger, DataStart, Share
<1>6. total_len' \in Nat /\ q' \in Nat \ {0} /\ kursor' = 0
  BY DEF MergeFragment, MergeInv, TypeOK, Share, NextKursor
<1>7. /\ tot' = tot /\ cur' = cur /\ peak' = peak /\ count' = count
      /\ pc' = pc
  BY DEF MergeFragment
<1> QED
  BY <1>4, <1>5, <1>6, <1>7 DEF MergeInv, TypeOK

\* The invariant of the merge loop.
THEOREM MergeInvariant == Spec => []MergeInv
<1>1. MergeInv /\ [Next]_vars => MergeInv'
  <2> SUFFICES ASSUME MergeInv, [Next]_vars PROVE MergeInv'
    OBVIOUS
  <2>1. ASSUME NEW s \in Samples, FirstPacket(s) \/ NextPacket(s)
        PROVE MergeInv'
    BY <2>1, PacketMerge, MergeAssumption
  <2>2. CASE MergeFragment
    BY <2>2, FragmentMerge
  <2>3. CASE PacketDone
    BY <2>3 DEF PacketDone, MergeInv, TypeOK
  <2>4. CASE FrameDone
    BY <2>4 DEF FrameDone, MergeInv, TypeOK
  <2>5. CASE UNCHANGED vars
    BY <2>5 DEF vars, MergeInv, TypeOK
  <2> QED
    BY <2>1, <2>2, <2>3, <2>4, <2>5 DEF Next
<1> QED
  BY <1>1, InitMerge, MergeAssumption, PTL DEF Spec

\* For every datagram length the loop stays inside the pool buffer, although
\* it runs beyond the end of the fragments.
THEOREM LoopInsideBuffer == Spec => []InsideBuffer
<1>1. MergeInv => InsideBuffer
  BY DEF MergeInv, InsideBuffer, PBUF_POOL_BUFSIZE, DataStart, Share
<1> QED
  BY <1>1, MergeInvariant, PTL

\* A merged sample never exceeds the peak of the packets of its frame.
THEOREM MergeMakesNothingUp == Spec => []NeverAbovePeak
<1>1. MergeInv => NeverAbovePeak
  BY DEF MergeInv, NeverAbovePeak
<1> QED
  BY <1>1, MergeInvariant, PTL

-----------------------------------------------------------------------------
(* The merged sample is the peak.                                          *)

\* The samples the loop is meant to reach: a length that is not a multiple of
\* the share, and not the last 8 bytes of a fragmented datagram.
Reached ==
    /\ tot % Share # 0
    /\ pos + 2 <= tot - 8 \/ tot <= First

\* Where the loop is, for a sample in reach.
Walk ==
    /\ pos \in Nat /\ DataStart <= pos /\ pos + 2 <= tot
    /\ (pos - DataStart) % 2 = 0
    /\ pc \in {"recv", "walk"}
    /\ pc = "walk" => /\ tot > (q - 1) * Share => total_len = tot - (q - 1) * Share
                      /\ kursor = IF q = 1 THEN DataStart ELSE 0
    /\ Reached /\ pc = "walk" =>
          IF pos < Start(q) THEN peak = Value(acc)
                            ELSE peak = Larger(Value(acc), Value(cur))
    /\ Reached /\ pc = "recv" /\ count > 1 => peak = Value(acc)

\* The fragments follow each other, and the last one ends with the datagram.
LEMMA Starts ==
    ASSUME NEW i \in Nat \ {0}, NEW n \in Nat \ {0}
    PROVE  /\ Start(1) = 0 /\ Start(i + 1) = i * Share - 8
           /\ Start(i) \in Nat /\ Start(i) < Start(i + 1)
           /\ Fragments(n) \in Nat \ {0}
           /\ i > Fragments(n) => n <= Start(i)
           /\ i > 1 => Start(i) = (i - 1) * Share - 8
<1> USE DEF Start, Share, First
<1>1. Fragments(n) \in Nat \ {0} /\ n <= Fragments(n) * Share - 8
  BY DEF Fragments
<1>2. i > Fragments(n) => n <= Start(i)
  BY <1>1
<1> QED
  BY <1>1, <1>2

\* In the fragment that holds a sample in reach, the loop meets it.
LEMMA FragmentReached ==
    ASSUME MergeInv, Walk, Reached, pc = "walk", q <= Fragments(tot),
           Start(q) <= pos, pos < Start(q + 1)
    PROVE  /\ pos - Start(q) >= kursor
           /\ pos - Start(q) < kursor + Step(total_len)
<1>0. /\ q \in Nat \ {0} /\ tot \in Nat /\ pos \in Nat /\ total_len \in Nat
      /\ pos + 2 <= tot /\ DataStart <= pos
  BY DEF MergeInv, TypeOK, Walk
<1>1. CASE q = 1
  <2>1. total_len = tot /\ kursor = DataStart /\ Start(q) = 0 /\ pos < First
    BY <1>0, <1>1 DEF Walk, Start, Share, First
  <2>2. Step(tot) >= First \/ Step(tot) = tot
    BY <1>0 DEF Reached, Step, Share, First
  <2>3. Step(tot) \in 0 .. Share
    BY <1>0, StepBound
  <2> QED
    BY <1>0, <2>1, <2>2, <2>3 DEF DataStart, First, Share
<1>2. CASE q # 1
  <2>1. /\ kursor = 0 /\ Start(q) = (q - 1) * Share - 8
        /\ Start(q + 1) = q * Share - 8
    BY <1>0, <1>2, Starts DEF Walk
  <2>2. pos + 2 <= tot - 8
    BY <1>0, <1>2, <2>1 DEF Reached, First, Share
  <2>3. total_len = tot - (q - 1) * Share
    BY <1>0, <1>2, <2>1, <2>2 DEF Walk, Share
  <2>4. Step(total_len) = Share \/ Step(total_len) = total_len
    BY <1>0, <2>1, <2>2, <2>3 DEF Step, Share, Reached
  <2> QED
    BY <1>0, <2>1, <2>2, <2>3, <2>4 DEF Share
<1> QED
  BY <1>1, <1>2

\* So does the position of the loop.
LEMMA InitWalk == ASSUME MergeAssumption, Init PROVE Walk
<1>1. /\ pos \in Nat /\ DataStart <= pos /\ pos + 2 <= tot
      /\ (pos - DataStart) % 2 = 0
  BY DEF MergeAssumption, Init
<1>2. pc = "recv" /\ count = 1
  BY DEF Init
<1> QED
  BY <1>1, <1>2 DEF Walk

\* Merging one fragment keeps the relation.
LEMMA FragmentWalk == ASSUME MergeInv, Walk, MergeFragment PROVE Walk'
<1>0. /\ q \in Nat \ {0} /\ tot \in Nat \ {0} /\ pos \in Nat /\ total_len \in Nat
      /\ pos + 2 <= tot /\ DataStart <= pos
  BY DEF MergeInv, TypeOK, Walk
<1>1. /\ UNCHANGED <<tot, pos, cur, peak, count, pc>> /\ q' = q + 1 /\ kursor' = 0
      /\ total_len' = IF total_len > Share THEN total_len - Share ELSE total_len
      /\ pc = "walk" /\ q <= Fragments(tot)
  BY DEF MergeFragment, NextKursor
<1>2. tot > (q' - 1) * Share => total_len' = tot - (q' - 1) * Share
  BY <1>0, <1>1 DEF Walk, Share
<1>3. Value(acc) \in Nat /\ Value(cur) \in Nat
  BY ValueNat DEF MergeInv, TypeOK
<1>4. ASSUME Reached
      PROVE  IF pos < Start(q + 1) THEN peak = Value(acc')
                                   ELSE peak = Larger(Value(acc'), Value(cur))
  <2>1. Start(q) \in Nat /\ Start(q) < Start(q + 1) /\ Start(q + 1) \in Nat
    BY <1>0, Starts
  <2>2. CASE pos < Start(q)
    <3>1. pos < Start(q + 1) /\ ~(pos - Start(q) >= kursor)
      BY <1>0, <1>1, <2>1, <2>2 DEF Walk, DataStart
    <3>2. acc' = acc
      BY <3>1 DEF MergeFragment
    <3> QED
      BY <1>1, <1>4, <2>2, <3>1, <3>2 DEF Walk
  <2>3. CASE Start(q) <= pos /\ pos < Start(q + 1)
    <3>1. acc' = Merged(cur, acc)
      BY <1>1, <1>4, <2>3, FragmentReached DEF MergeFragment
    <3>2. Value(acc') = Larger(Value(cur), Value(acc))
      BY <3>1, MergedIsMaximum DEF MergeInv, TypeOK
    <3>3. peak = Larger(Value(acc), Value(cur))
      BY <1>0, <1>1, <1>4, <2>1, <2>3 DEF Walk
    <3> QED
      BY <1>3, <2>3, <3>2, <3>3 DEF Larger
  <2>4. CASE Start(q + 1) <= pos
    <3>1. ~(pos < Start(q + 1)) /\ ~(pos < Start(q))
      BY <1>0, <2>1, <2>4
    <3>2. acc' = acc
      BY <3>1 DEF MergeFragment
    <3> QED
      BY <1>1, <1>4, <3>1, <3>2 DEF Walk
  <2> QED
    BY <1>0, <2>1, <2>2, <2>3, <2>4
<1>5. Reached' <=> Reached
  BY <1>1 DEF Reached
<1>6. q' # 1
  BY <1>0, <1>1
<1>7. (Start(q))' = Start(q + 1)
  BY <1>1 DEF Start
<1> QED
  BY <1>1, <1>2, <1>4, <1>5, <1>6, <1>7 DEF Walk

\* A new packet: the peak so far is in the first buffer.
LEMMA PacketWalk ==
    ASSUME MergeAssumption, MergeInv, Walk, NEW s \in Samples,
           FirstPacket(s) \/ NextPacket(s)
    PROVE  Walk'
<1>0. /\ tot \in Nat /\ count \in Nat \ {0} /\ pos \in Nat /\ DataStart <= pos
      /\ peak \in Nat
  BY DEF MergeInv, TypeOK, Walk
<1>1. CASE FirstPacket(s)
  <2>1. /\ acc' = s /\ peak' = Value(s) /\ pc' = "recv"
        /\ UNCHANGED <<tot, pos>>
    BY <1>1 DEF FirstPacket
  <2> QED
    BY <2>1 DEF Walk
<1>2. CASE NextPacket(s)
  <2>1. /\ cur' = s /\ acc' = acc /\ peak' = Larger(peak, Value(s)) /\ pc' = "walk"
        /\ q' = 1 /\ total_len' = tot /\ kursor' = DataStart /\ count > 1 /\ pc = "recv"
        /\ UNCHANGED <<tot, pos>>
    BY <1>2 DEF NextPacket
  <2>2. (Reached' => Reached) /\ (Reached => peak = Value(acc))
    BY <2>1 DEF Walk, Reached
  <2>3. ~(pos < (Start(q))')
    BY <1>0, <2>1 DEF Start
  <2>4. total_len' = tot' - (q' - 1) * Share
    BY <1>0, <2>1 DEF Share
  <2> QED
    BY <2>1, <2>2, <2>3, <2>4 DEF Walk
<1> QED
  BY <1>1, <1>2

\* At the end of the chain the sample has been passed.
LEMMA WalkEnds ==
    ASSUME MergeInv, Walk, Reached, pc = "walk", q > Fragments(tot)
    PROVE  Value(acc) = peak
<1>0. q \in Nat \ {0} /\ tot \in Nat \ {0} /\ pos \in Nat /\ pos + 2 <= tot
  BY DEF MergeInv, TypeOK, Walk
<1>1. tot <= Start(q) /\ Start(q) \in Nat
  BY <1>0, Starts
<1>2. pos < Start(q)
  BY <1>0, <1>1
<1> QED
  BY <1>2 DEF Walk

\* Every step of the merge keeps the position of the loop.
LEMMA NextWalk == MergeInv /\ Walk /\ [Next]_vars => Walk'
<1> SUFFICES ASSUME MergeInv, Walk, [Next]_vars PROVE Walk'
  OBVIOUS
<1>1. ASSUME NEW s \in Samples, FirstPacket(s) \/ NextPacket(s) PROVE Walk'
  BY <1>1, PacketWalk, MergeAssumption
<1>2. CASE MergeFragment
  BY <1>2, FragmentWalk
<1>3. CASE PacketDone \/ FrameDone
  <2>1. pc = "walk" /\ q > Fragments(tot) /\ pc' = "recv" /\ UNCHANGED <<tot, pos, acc, peak>>
    BY <1>3 DEF PacketDone, FrameDone
  <2>2. Reached' => Reached
    BY <2>1 DEF Reached
  <2>3. Reached => Value(acc) = peak
    BY <2>1, WalkEnds
  <2> QED
    BY <2>1, <2>2, <2>3 DEF Walk
<1>4. CASE UNCHANGED vars
  BY <1>4 DEF vars, Walk, Reached, Start
<1> QED
  BY <1>1, <1>2, <1>3, <1>4 DEF Next

\* The relation of the walk is an invariant.
LEMMA WalkInvariant == Spec => [](MergeInv /\ Walk)
<1>1. Init => Walk
  BY InitWalk, MergeAssumption
<1> QED
  BY <1>1, NextWalk, MergeInvariant, PTL DEF Spec

\* When a frame is finished the sample holds the peak of its packets, for every
\* length, fragment and offset in reach of the loop.
THEOREM MergeFindsPeak == Spec => []MergedIsPeak
<1>1. MergeInv /\ Walk => MergedIsPeak
  <2> SUFFICES ASSUME MergeInv, Walk, pc = "walk", q > Fragments(tot),
                      pos + 2 <= tot - 8, tot % Share # 0
               PROVE  Value(acc) = peak
    BY DEF MergedIsPeak
  <2> QED
    BY WalkEnds DEF Reached
<1> QED
  BY <1>1, WalkInvariant, PTL

-----------------------------------------------------------------------------
(* The scan.                                                               *)

\* The scan leaves the merge as it is: FrameScan is a PeakMerge.
LEMMA ScanMerges ==
    /\ ScanInit => Init
    /\ [ScanNext]_scanVars => [Next]_vars
<1>1. ScanInit => Init
  BY DEF ScanInit
<1>2. ScanNext => Next \/ UNCHANGED vars
  BY DEF ScanNext, Merging, SendFrame, ArpLearned, ReadHeader, ScanFragment, ScanEnds,
         Release, Next
<1>3. UNCHANGED scanVars => UNCHANGED vars
  BY DEF scanVars
<1> QED
  BY <1>1, <1>2, <1>3

\* What is proved of the merge holds in the composition with gain control.
THEOREM ScanIsMerge == ScanSpec => Spec
BY ScanMerges, PTL DEF ScanSpec, Spec

\* In the composition, too, the merge finds the peak, makes nothing up and stays
\* inside the buffers.
THEOREM FrameMerged == ScanSpec => [](MergedIsPeak /\ NeverAbovePeak /\ InsideBuffer)
BY ScanIsMerge, MergeFindsPeak, MergeMakesNothingUp, LoopInsideBuffer, PTL

\* The announced part of the frame has a saturated sample.
Saturated ==
    (pos - DataStart) \div 2 < Size(announced) /\ peak > max_permissible_value

\* The header announces more samples than the datagram holds.
Exceeded == Size(announced) > Held

\* A frame whose headers have all been put in front of it is short: one
\* fragment, scanned in one go.  Nothing is merged while a frame is scanned.
ScanInv ==
    /\ spc \in {"idle", "header", "scan", "target"}
    /\ room \in {0, 28, 42} /\ (spc = "idle" => room = 0)
    /\ announced \in Nat
    /\ spc # "idle" => pc = "recv" /\ (Reached => Value(acc) = peak)
    /\ room = 42 => tot + 28 <= MTU
    /\ room = 42 /\ spc = "scan" =>
          /\ size_of_samples = Size(announced) /\ found = FALSE
          /\ \/ f = 1 /\ skursor = 74
             \/ f = 2 /\ ~Saturated
    /\ room = 42 /\ spc = "target" =>
          /\ Saturated => found = TRUE
          /\ found = TRUE => Saturated \/ Exceeded

\* Nothing has been sent or scanned at the start.
LEMMA InitScan == ScanInit => ScanInv
<1>1. UInt24 \subseteq Nat
  BY DEF UInt24
<1>2. ScanInit => announced \in Nat /\ spc = "idle" /\ room = 0
  BY <1>1, Zenon DEF ScanInit
<1> QED
  BY <1>2 DEF ScanInv

\* What is left of a number cut to 16 bits is a natural number.
LEMMA SizeNat == ASSUME NEW n \in Nat PROVE Size(n) \in Nat
BY SMT DEF Size

\* A short frame is one fragment, and all of its samples are merged.
LEMMA ShortFrame ==
    ASSUME MergeInv, Walk, ScanInv, room = 42
    PROVE  /\ Fragments(tot) = 1 /\ Reached
           /\ Start(1) = 0 /\ pos < Start(2)
<1>1. tot \in Nat /\ tot + 28 <= 1486 /\ pos \in Nat /\ pos + 2 <= tot /\ tot > 0
  BY DEF MergeInv, TypeOK, Walk, ScanInv, MTU
<1>2. Fragments(tot) = 1 /\ Start(1) = 0 /\ pos < Start(2)
  BY <1>1 DEF Fragments, Start, First, Share
<1>3. Reached
  BY <1>1 DEF Reached, First, Share
<1> QED
  BY <1>2, <1>3

\* The scan of a short frame meets the announced samples, and runs beyond the
\* datagram exactly if more are announced than it holds.
LEMMA ShortVisited ==
    ASSUME MergeInv, Walk, ScanInv, room = 42, f = 1, skursor = 74,
           size_of_samples = Size(announced)
    PROVE  /\ Visited(1) <=> (pos - DataStart) \div 2 < Size(announced)
           /\ Overruns(1) <=> Exceeded
<1>1. PICK size : size = Size(announced)
  OBVIOUS
<1>2. /\ pos \in Nat /\ DataStart <= pos /\ (pos - DataStart) % 2 = 0
      /\ size \in Nat /\ tot \in Nat
  BY <1>1, SizeNat DEF Walk, ScanInv, MergeInv, TypeOK
<1>3. Front(1) = 42
  BY DEF Front
<1>4. Visited(1) <=> 42 - 74 + pos - 0 \in 0 .. 2 * size - 2
  BY <1>1, <1>2, <1>3, ShortFrame DEF Visited
<1>5. 42 - 74 + pos - 0 \in 0 .. 2 * size - 2 <=> (pos - DataStart) \div 2 < size
  BY <1>2 DEF DataStart
<1>6. Overruns(1) <=> 74 + 2 * size > 42 + tot - 0
  BY <1>1, <1>3, ShortFrame DEF Overruns
<1>7. 74 + 2 * size > 42 + tot - 0 <=> size > Held
  BY <1>2 DEF Held, DataStart
<1> QED
  BY <1>1, <1>4, <1>5, <1>6, <1>7 DEF Exceeded

\* Every step of merge and scan keeps the scan's invariant.
LEMMA NextScan ==
    MergeInv /\ Walk /\ ScanInv /\ [ScanNext]_scanVars => ScanInv'
<1> SUFFICES ASSUME MergeInv, Walk, ScanInv, [ScanNext]_scanVars PROVE ScanInv'
  OBVIOUS
<1>0. tot \in Nat /\ announced \in Nat
  BY DEF MergeInv, TypeOK, ScanInv
<1>1. CASE Merging
  <2>1. spc = "idle" /\ room = 0 /\ UNCHANGED <<announced, spc, room>>
    BY <1>1 DEF Merging, scan, ScanInv
  <2>2. tot' = tot
    BY <1>1 DEF Merging, FirstPacket, NextPacket, MergeFragment, PacketDone
  <2> QED
    BY <2>1, <2>2 DEF ScanInv
<1>2. CASE SendFrame
  <2>1. /\ pc = "walk" /\ q > Fragments(tot) /\ pc' = "recv" /\ UNCHANGED <<tot, pos, acc, peak>>
        /\ announced' = announced /\ spc = "idle" /\ room = 0
    BY <1>2 DEF SendFrame, FrameDone, ScanInv
  <2>2. Reached' => Value(acc)' = peak'
    BY <2>1, WalkEnds DEF Reached, Value
  <2>3. \/ UNCHANGED <<room, spc>>
        \/ room' = Headers /\ spc' = "header"
    BY <1>2 DEF SendFrame
  <2>4. Headers \in {28, 42} /\ (Headers = 42 => tot + 28 <= MTU)
    BY DEF Headers
  <2> QED
    BY <2>1, <2>2, <2>3, <2>4 DEF ScanInv
<1>3. CASE ArpLearned
  <2>1. UNCHANGED <<vars, announced, spc, room>> /\ spc = "idle" /\ room = 0
    BY <1>3 DEF ArpLearned, scan, ScanInv
  <2> QED
    BY <2>1 DEF ScanInv, vars
<1>4. CASE ReadHeader
  <2>1. /\ UNCHANGED <<tot, pos, acc, peak, pc, announced, room>>
        /\ spc = "header" /\ spc' = "scan"
        /\ f' = 1 /\ skursor' = 74 /\ found' = FALSE
    BY <1>4 DEF ReadHeader, vars
  <2>2. room = 42 => size_of_samples' = Size(announced)
    BY <1>4 DEF ReadHeader, NbCells
  <2> QED
    BY <2>1, <2>2 DEF ScanInv, Reached, Value
<1>5. CASE ScanFragment
  <2>1. /\ UNCHANGED <<tot, pos, acc, peak, pc, announced, room, size_of_samples>>
        /\ spc = "scan" /\ spc' \in {"scan", "target"} /\ f <= Fragments(tot)
    BY <1>5 DEF ScanFragment, vars
  <2>2. CASE room # 42
    BY <2>1, <2>2 DEF ScanInv, Reached, Value
  <2>3. CASE room = 42
    <3>1. f = 1 /\ skursor = 74 /\ size_of_samples = Size(announced)
      <4>1. f <= 1
        BY <2>1, <2>3, ShortFrame
      <4>2. /\ size_of_samples = Size(announced)
            /\ \/ f = 1 /\ skursor = 74
               \/ f = 2
        BY <2>1, <2>3 DEF ScanInv
      <4> QED
        BY <4>1, <4>2
    <3>2. /\ Visited(1) <=> (pos - DataStart) \div 2 < Size(announced)
          /\ Overruns(1) <=> Exceeded
      BY <2>3, <3>1, ShortVisited
    <3>3. Value(acc) = peak
      BY <2>1, <2>3, ShortFrame DEF ScanInv
    <3>4. found' \in {Saturated, Saturated \/ Exceeded}
      <4>1. (Visited(1) /\ Value(acc) > max_permissible_value) = Saturated
        BY <3>2, <3>3 DEF Saturated
      <4>2. Overruns(1) = Exceeded
        BY <3>2 DEF Overruns, Exceeded
      <4> QED
        BY <1>5, <3>1, <4>1, <4>2 DEF ScanFragment
    <3>5. IF found' THEN spc' = "target" ELSE f' = 2 /\ spc' = "scan"
      BY <1>5, <3>1 DEF ScanFragment
    <3>6. \/ (Saturated \/ Exceeded) /\ found' = TRUE /\ spc' = "target"
          \/ ~Saturated /\ found' = FALSE /\ spc' = "scan" /\ f' = 2
      <4>1. Saturated \in BOOLEAN /\ Exceeded \in BOOLEAN
        BY DEF Saturated, Exceeded
      <4> QED
        BY <3>4, <3>5, <4>1
    <3>7. (Saturated' <=> Saturated) /\ (Exceeded' <=> Exceeded)
      BY <2>1 DEF Saturated, Exceeded, Held
    <3>8. Size(announced)' = Size(announced)
      BY <2>1
    <3> QED
      BY <2>1, <2>3, <3>1, <3>6, <3>7, <3>8 DEF ScanInv, Reached, Value
  <2> QED
    BY <2>2, <2>3
<1>6. CASE ScanEnds
  <2>1. /\ UNCHANGED <<tot, pos, acc, peak, pc, announced, room, found>>
        /\ spc = "scan" /\ spc' = "target" /\ f > Fragments(tot)
    BY <1>6 DEF ScanEnds, vars
  <2>2. room = 42 => found = FALSE /\ ~Saturated
    <3> SUFFICES ASSUME room = 42 PROVE found = FALSE /\ ~Saturated
      OBVIOUS
    <3>1. f > 1
      BY <2>1, ShortFrame
    <3>2. found = FALSE /\ (f = 1 \/ (f = 2 /\ ~Saturated))
      BY <2>1 DEF ScanInv
    <3> QED
      BY <3>1, <3>2
  <2>3. Saturated' <=> Saturated
    BY <2>1 DEF Saturated
  <2> QED
    BY <2>1, <2>2, <2>3 DEF ScanInv, Reached, Value
<1>7. CASE Release
  <2>1. UNCHANGED <<tot, announced>> /\ spc' = "idle" /\ room' = 0
    BY <1>7 DEF Release, vars
  <2> QED
    BY <2>1 DEF ScanInv
<1>8. CASE UNCHANGED scanVars
  <2>1. UNCHANGED <<tot, pos, acc, peak, pc, announced, scan>>
    BY <1>8 DEF scanVars, vars
  <2> QED
    BY <2>1 DEF ScanInv, scan, Reached, Value, Saturated, Exceeded, Held
<1> QED
  BY <1>1, <1>2, <1>3, <1>4, <1>5, <1>6, <1>7, <1>8 DEF ScanNext

\* The inductive invariant of merge and scan together.
THEOREM ScanInvariant == ScanSpec => [](MergeInv /\ Walk /\ ScanInv)
<1>1. ScanSpec => [](MergeInv /\ Walk)
  BY ScanIsMerge, WalkInvariant, PTL
<1> QED
  BY <1>1, InitScan, NextScan, PTL DEF ScanSpec

\* For a frame that leaves in one piece, gain control finds a saturated sample
\* if one of the merged packets had it at an announced position, and finds
\* nothing else unless more samples are announced than the datagram holds.
THEOREM SaturationFound == ScanSpec => []SaturationSeen
<1>1. ScanInv => SaturationSeen
  BY DEF ScanInv, SaturationSeen, Saturated, Exceeded, Size
<1> QED
  BY <1>1, ScanInvariant, PTL
=============================================================================

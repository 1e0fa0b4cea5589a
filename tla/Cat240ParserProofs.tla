------------------------- MODULE Cat240ParserProofs -------------------------
(***************************************************************************)
(* Pointer and counter of parse_cat240 agree for every packet, length and  *)
(* repetition factor, and the message points into the block.               *)
(***************************************************************************)
EXTENDS Cat240Parser, TLAPS

ParserType ==
    /\ pc \in {"fspec", "field"} \cup Results
    /\ data_len \in Nat /\ block_len \in Nat
    /\ at \in Nat /\ remaining \in Nat
    /\ has_fspec2 \in BOOLEAN
    /\ frn \in 1 .. Last + 1
    /\ vdata \in Nat /\ vbytes \in Nat

\* What the header has established.
Headed ==
    /\ pc = "fspec" => /\ at = 3 /\ remaining = block_len - 3 /\ block_len >= 3
                       /\ frn = 1 /\ block_len < SizeMod /\ ~has_fspec2
    /\ pc \in {"fspec", "field"} => block_len <= data_len

\* How far the mandatory fields have moved the pointer.
Moved ==
    pc = "field" /\ has_fspec2 =>
        /\ at >= 5
        /\ frn >= 2 => at >= 7
        /\ frn >= 3 => at >= 8

\* The video block lies behind the mandatory fields and before the pointer.
VideoBehind ==
    pc \in {"field", "ok"} /\ vtype # "none" =>
        9 <= vdata /\ vdata + vbytes <= at /\ block_len <= data_len

Inv == ParserType /\ Headed /\ CursorInside /\ Moved /\ VideoBehind

\* What is checked, read and taken off is the same for each field.
LEMMA Tables ==
    \A f \in Fields : /\ Checked[f] = Taken[f] /\ Read[f] = Taken[f]
                      /\ Taken[f] \in Nat \ {0} /\ Unit[f] \in Nat
                      /\ f = 1 => Taken[f] = 2 /\ Unit[f] = 0
                      /\ f = 2 => Taken[f] = 1 /\ Unit[f] = 0
<1>1. ASSUME NEW f \in Fields
      PROVE /\ Checked[f] = Taken[f] /\ Read[f] = Taken[f]
            /\ Taken[f] \in Nat \ {0}
            /\ f = 1 => Taken[f] = 2
            /\ f = 2 => Taken[f] = 1
  BY DEF Fields, Checked, Taken, Read
<1>2. ASSUME NEW f \in Fields
      PROVE Unit[f] \in Nat /\ (f \in {1, 2} => Unit[f] = 0)
  BY DEF Fields, Unit
<1> QED
  BY <1>1, <1>2

\* The first state.
LEMMA InitInv == Init => Inv
<1> SUFFICES ASSUME Init PROVE Inv
  OBVIOUS
<1>1. frn \in 1 .. Last + 1 /\ has_fspec2 \in BOOLEAN
  <2>1. has_fspec2 = FALSE /\ frn = 1
    BY DEF Init
  <2>2. Last = 7
    BY <2>1 DEF Last
  <2>3. frn \in 1 .. Last + 1
    <3>1. frn = 1
      BY <2>1
    <3> QED
      BY <3>1, <2>2
  <2>4. has_fspec2 \in BOOLEAN
    BY <2>1, Zenon
  <2> QED
    BY <2>3, <2>4
<1>2. Headed /\ CursorInside /\ Moved /\ VideoBehind
  BY DEF Init, Headed, CursorInside, Moved, VideoBehind
<1> QED
  BY <1>1, <1>2 DEF Init, Inv, ParserType, Results

\* A call establishes what the header promises.
LEMMA CallInv ==
    ASSUME Inv, NEW dlen \in DataLens, NEW blen \in BlockLens,
           NEW cat240 \in BOOLEAN, Call(dlen, blen, cat240)
    PROVE  Inv'
<1>1. dlen \in Nat /\ blen \in Nat /\ blen < SizeMod /\ SizeMod \in Nat
  BY ParserAssumption DEF ParserAssumption
<1>2. ParserType'
  <2>1. has_fspec2' = FALSE /\ frn' = 1
    BY DEF Call
  <2>2. Last' = 7
    BY <2>1 DEF Last
  <2>3. (frn \in 1 .. Last + 1)'
    <3>1. frn' = 1
      BY <2>1
    <3> QED
      BY <3>1, <2>2
  <2>4. (has_fspec2 \in BOOLEAN)'
    BY <2>1, Zenon
  <2> QED
    BY <1>1, <2>3, <2>4 DEF Call, Inv, ParserType, Results, video
<1>3. Headed' /\ CursorInside' /\ Moved' /\ VideoBehind'
  BY <1>1 DEF Call, Inv, ParserType, Results, Headed, CursorInside, Moved,
              VideoBehind, video
<1> QED
  BY <1>2, <1>3 DEF Inv

\* The first byte behind the header: the counter only wraps for a block that
\* consists of its header.
LEMMA Decremented ==
    ASSUME Inv, pc = "fspec"
    PROVE  /\ (remaining + SizeMod - 1) % SizeMod \in Nat
           /\ block_len # 3 => (remaining + SizeMod - 1) % SizeMod = block_len - 4
<1>1. SizeMod \in Nat \ {0}
  BY ParserAssumption DEF ParserAssumption
<1>2. block_len \in Nat /\ block_len >= 3 /\ block_len < SizeMod
         /\ remaining = block_len - 3
  BY DEF Inv, ParserType, Headed
<1>3. (remaining + SizeMod - 1) % SizeMod \in Nat
  BY <1>1, <1>2
<1>4. ASSUME block_len # 3
      PROVE (remaining + SizeMod - 1) % SizeMod = block_len - 4
  <2>1. remaining + SizeMod - 1 = 1 * SizeMod + (block_len - 4)
    BY <1>1, <1>2, <1>4
  <2>2. block_len - 4 \in 0 .. SizeMod - 1
    BY <1>1, <1>2, <1>4
  <2> QED
    BY <1>1, <2>1, <2>2
<1> QED
  BY <1>3, <1>4

\* FSPEC of one byte.
LEMMA Fspec1Inv == ASSUME Inv, Fspec1 PROVE Inv'
<1>1. pc = "fspec"
  BY DEF Fspec1
<1>2. remaining' \in Nat /\ (block_len # 3 => remaining' = block_len - 4)
  BY <1>1, Decremented DEF Fspec1
<1> QED
  BY <1>1, <1>2 DEF Fspec1, Clear, Inv, ParserType, Headed, CursorInside, Moved,
                    VideoBehind, Results, Last

\* FSPEC of two bytes.
LEMMA Fspec2Inv == ASSUME Inv, NEW fx \in BOOLEAN, Fspec2(fx) PROVE Inv'
<1> DEFINE left == (remaining + SizeMod - 1) % SizeMod
<1>1. pc = "fspec"
  BY DEF Fspec2
<1>2. left \in Nat /\ (block_len # 3 => left = block_len - 4)
  BY <1>1, Decremented
<1> HIDE DEF left
<1>3. /\ has_fspec2' = TRUE
      /\ \/ left = 0 /\ pc' = "rejected" /\ at' = at + 1 /\ remaining' = left
         \/ /\ left # 0 /\ at' = at + 2 /\ remaining' = left - 1
            /\ pc' \in {"rejected", "field"}
      /\ IF pc' = "field" THEN Clear ELSE UNCHANGED video
      /\ UNCHANGED <<data_len, block_len, frn>>
  BY DEF Fspec2, left
<1> QED
  BY <1>1, <1>2, <1>3 DEF Clear, video, Inv, ParserType, Headed, CursorInside,
                          Moved, VideoBehind, Results, Last

\* Steps that read nothing.
LEMMA PassInv == ASSUME Inv, Absent \/ TooShort \/ Accept PROVE Inv'
<1> USE DEF video, Inv, ParserType, Headed, CursorInside, Moved, VideoBehind,
            Results, Last
<1>1. CASE Absent
  BY <1>1 DEF Absent, Mandatory
<1>2. CASE TooShort
  BY <1>2 DEF TooShort
<1>3. CASE Accept
  BY <1>3 DEF Accept
<1> QED
  BY <1>1, <1>2, <1>3

\* A field of fixed length.
LEMMA FixedInv == ASSUME Inv, Fixed PROVE Inv'
<1>1. frn \in Fields
  BY DEF Fixed, Inv, ParserType, Fields, Last
<1> DEFINE n == Taken[frn]
<1>2. /\ Read[frn] = n /\ Checked[frn] = n /\ n \in Nat \ {0}
      /\ frn = 1 => n = 2
      /\ frn = 2 => n = 1
  BY <1>1, Tables
<1>3. /\ pc = "field" /\ frn <= Last /\ remaining >= n
      /\ at' = at + n /\ remaining' = remaining - n /\ frn' = frn + 1
      /\ UNCHANGED <<pc, data_len, block_len, has_fspec2, video>>
  BY <1>2 DEF Fixed
<1> HIDE DEF n
<1> QED
  BY <1>2, <1>3 DEF video, Inv, ParserType, Headed, CursorInside, Moved,
                    VideoBehind, Results, Last

\* A field with a repetition factor.
LEMMA RepeatedInv == ASSUME Inv, NEW rep \in Reps, Repeated(rep) PROVE Inv'
<1>1. frn \in Fields
  BY DEF Repeated, Inv, ParserType, Fields, Last
<1> DEFINE n == Taken[frn]
           bytes == rep * Unit[frn]
<1>2. Read[frn] = n /\ Checked[frn] = n /\ n \in Nat \ {0}
  BY <1>1, Tables
<1>3. bytes \in Nat
  <2>1. rep \in Nat /\ Unit[frn] \in Nat
    BY <1>1, Tables, ParserAssumption DEF ParserAssumption
  <2> QED
    BY <2>1
<1>4. frn >= 3
  BY <1>1, Tables DEF Repeated, Fields
<1>5. /\ pc = "field" /\ frn <= Last /\ remaining >= n
      /\ \/ /\ pc' = "rejected" /\ at' = at + n /\ remaining' = remaining - n
            /\ UNCHANGED <<frn, vdata, vbytes>>
         \/ /\ remaining - n >= bytes
            /\ at' = at + n + bytes /\ remaining' = (remaining - n) - bytes
            /\ frn' = frn + 1 /\ pc' = pc
            /\ \/ /\ frn \in VideoBlocks
                  /\ vdata' = at + n /\ vbytes' = bytes
               \/ UNCHANGED video
      /\ UNCHANGED <<data_len, block_len, has_fspec2>>
  <2> HIDE DEF n, bytes
  <2>1. n \in Nat /\ remaining \in Nat /\ bytes \in Nat
    BY <1>2, <1>3 DEF Inv, ParserType
  <2>2. ~(remaining - n < bytes) <=> remaining - n >= bytes
    BY <2>1
  <2> USE DEF n, bytes
  <2> QED
    BY <1>2, <2>2, Zenon DEF Repeated, video
<1> HIDE DEF n, bytes
<1> QED
  BY <1>2, <1>3, <1>4, <1>5 DEF video, VideoBlocks, Inv, ParserType, Headed,
        CursorInside, Moved, VideoBehind, Results, Last

\* The inductive invariant of the parser.
THEOREM ParserInvariant == Spec => []Inv
<1>1. Inv /\ [Next]_vars => Inv'
  <2> SUFFICES ASSUME Inv, [Next]_vars PROVE Inv'
    OBVIOUS
  <2>1. CASE UNCHANGED vars
    BY <2>1 DEF vars, video, Inv, ParserType, Headed, CursorInside, Moved,
                VideoBehind, Last
  <2>2. CASE Next
    BY <2>2, CallInv, Fspec1Inv, Fspec2Inv, PassInv, FixedInv, RepeatedInv
       DEF Next
  <2> QED
    BY <2>1, <2>2
<1> QED
  BY <1>1, InitInv, PTL DEF Spec

\* Pointer and counter of parse_cat240 agree for every packet and every choice
\* of fields and repetition factors.
THEOREM CursorStaysInside == Spec => []CursorInside
BY ParserInvariant, PTL DEF Inv

\* The video block of an accepted message lies inside the block it came in.
THEOREM VideoStaysInside == Spec => []VideoInside
<1>1. Inv => VideoInside
  BY DEF Inv, ParserType, CursorInside, VideoBehind, VideoInside
<1> QED
  BY <1>1, ParserInvariant, PTL
=============================================================================

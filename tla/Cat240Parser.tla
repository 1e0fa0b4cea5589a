---------------------------- MODULE Cat240Parser ----------------------------
(***************************************************************************)
(* parse_cat240: the parser of radar video messages.  It keeps two things  *)
(* apart that must agree: the pointer p into the packet and the number of  *)
(* bytes that remain of the block.  The message struct is reused from call *)
(* to call and points into the packet.                                     *)
(*                                                                         *)
(* The bits of the two FSPEC bytes and the repetition factors are chosen   *)
(* when they are looked at; the values of the fields are left out.         *)
(***************************************************************************)
EXTENDS Naturals

CONSTANTS
    DataLens,    \* lengths of a packet (data_len)
    BlockLens,   \* lengths in the header (uint16_t)
    Reps,        \* repetition factors (uint8_t)
    SizeMod      \* range of size_t (2^32)

ASSUME ParserAssumption ==
    /\ DataLens \subseteq Nat /\ BlockLens \subseteq Nat
    /\ Reps \subseteq 0 .. 255
    /\ SizeMod \in Nat \ {0}
    /\ \A n \in BlockLens : n < SizeMod

VARIABLES
    pc,          \* where the parser is; "ok" and "rejected" are its results
    data_len, block_len,
    at,          \* p, as an offset into the packet
    remaining,
    has_fspec2,
    frn,         \* the next field (FRN1 to FRN14)
    vtype, vdata, vbytes   \* video_block of the message; vtype is "none"
                           \* if has_video_block is false

video == <<vtype, vdata, vbytes>>
vars == <<pc, data_len, block_len, at, remaining, has_fspec2, frn, video>>

Results == {"ok", "rejected"}
Fields == 1 .. 14

\* The bytes a field is checked for, reads and takes off the remaining ones.
Checked == <<2, 1, 4, 1, 12, 12, 2, 5, 1, 1, 1, 3, 1, 1>>
Read == <<1 + 1, 1, 4, 1, 2 + 2 + 4 + 4, 2 + 2 + 4 + 4, 2, 2 + 3, 1, 1, 1, 3, 1, 1>>
\* Mutation: the three bytes of nb_cells are forgotten.
TakenShort == <<2, 1, 4, 1, 12, 12, 2, 2, 1, 1, 1, 3, 1, 1>>
Taken == <<2, 1, 4, 1, 12, 12, 2, 5, 1, 1, 1, 3, 1, 1>>

\* Bytes per repetition of the fields that have a repetition factor: summary,
\* the three video blocks, RE and SP.
Unit == <<0, 0, 0, 1, 0, 0, 0, 0, 4, 64, 256, 0, 1, 1>>

Mandatory == {1, 2}
Last == IF has_fspec2 THEN 14 ELSE 7

VideoBlocks == 9 .. 11

\* The fields that are video blocks, by the type they leave in the message.
VideoType == [f \in VideoBlocks |-> CASE f = 9  -> "low"
                                   [] f = 10 -> "medium"
                                   [] f = 11 -> "high"]

\* Before the first call.
Init ==
    /\ pc = "ok" /\ data_len = 0 /\ block_len = 0 /\ at = 0 /\ remaining = 0
    /\ has_fspec2 = FALSE /\ frn = 1
    /\ vtype = "none" /\ vdata = 0 /\ vbytes = 0

-----------------------------------------------------------------------------
\* A call; a packet of another category or with a wrong length is rejected.
Call(dlen, blen, cat240) ==
    /\ pc \in Results
    /\ data_len' = dlen /\ block_len' = blen
    /\ IF dlen >= 3 /\ cat240 /\ blen >= 3 /\ blen <= dlen
       THEN pc' = "fspec" /\ at' = 3 /\ remaining' = blen - 3
       ELSE pc' = "rejected" /\ at' = 0 /\ remaining' = 0
    /\ has_fspec2' = FALSE /\ frn' = 1
    /\ UNCHANGED video

\* memset of the message.  Mutation: the message keeps what it had.
ClearForgotten == UNCHANGED video
Clear == vtype' = "none" /\ vdata' = 0 /\ vbytes' = 0

\* FSPEC of one byte.
Fspec1 ==
    /\ pc = "fspec"
    /\ at' = at + 1 /\ remaining' = (remaining + SizeMod - 1) % SizeMod
    /\ pc' = "field"
    /\ Clear
    /\ UNCHANGED <<data_len, block_len, has_fspec2, frn>>

\* FSPEC of two bytes; the second one may be missing or have FX set.
Fspec2(fx) ==
    LET left == (remaining + SizeMod - 1) % SizeMod
    IN  /\ pc = "fspec"
        /\ has_fspec2' = TRUE
        /\ IF left = 0
           THEN pc' = "rejected" /\ at' = at + 1 /\ remaining' = left
           ELSE /\ at' = at + 2 /\ remaining' = left - 1
                /\ pc' = IF fx THEN "rejected" ELSE "field"
        /\ IF pc' = "field" THEN Clear ELSE UNCHANGED video
        /\ UNCHANGED <<data_len, block_len, frn>>

\* The bit of the field is not set.
Absent ==
    /\ pc = "field" /\ frn <= Last
    /\ IF frn \in Mandatory THEN pc' = "rejected" /\ UNCHANGED frn
                            ELSE pc' = pc /\ frn' = frn + 1
    /\ UNCHANGED <<data_len, block_len, at, remaining, has_fspec2, video>>

TooShort ==
    /\ pc = "field" /\ frn <= Last
    /\ remaining < Checked[frn]
    /\ pc' = "rejected"
    /\ UNCHANGED <<data_len, block_len, at, remaining, has_fspec2, frn, video>>

\* A field of fixed length.
Fixed ==
    /\ pc = "field" /\ frn <= Last /\ Unit[frn] = 0
    /\ remaining >= Checked[frn]
    /\ at' = at + Read[frn] /\ remaining' = remaining - Taken[frn]
    /\ frn' = frn + 1
    /\ UNCHANGED <<pc, data_len, block_len, has_fspec2, video>>

\* A field with a repetition factor; a video block replaces an earlier one.
Repeated(rep) ==
    LET bytes == rep * Unit[frn]
        left == remaining - Taken[frn]
    IN  /\ pc = "field" /\ frn <= Last /\ Unit[frn] > 0
        /\ remaining >= Checked[frn]
        /\ vtype' = IF frn \in VideoBlocks THEN VideoType[frn] ELSE vtype
        /\ IF left < bytes
           THEN /\ pc' = "rejected"
                /\ at' = at + Read[frn] /\ remaining' = left
                /\ UNCHANGED <<frn, vdata, vbytes>>
           ELSE /\ at' = at + Read[frn] + bytes /\ remaining' = left - bytes
                /\ frn' = frn + 1
                /\ IF frn \in VideoBlocks
                   THEN vdata' = at + Read[frn] /\ vbytes' = bytes
                   ELSE UNCHANGED <<vdata, vbytes>>
                /\ UNCHANGED pc
        /\ UNCHANGED <<data_len, block_len, has_fspec2>>

\* Bytes that are left over are accepted.
Accept ==
    /\ pc = "field" /\ frn > Last
    /\ pc' = "ok"
    /\ UNCHANGED <<data_len, block_len, at, remaining, has_fspec2, frn, video>>

Next ==
    \/ \E dlen \in DataLens, blen \in BlockLens, cat240 \in BOOLEAN :
          Call(dlen, blen, cat240)
    \/ Fspec1 \/ \E fx \in BOOLEAN : Fspec2(fx)
    \/ Absent \/ TooShort \/ Fixed \/ \E rep \in Reps : Repeated(rep)
    \/ Accept

Spec == Init /\ [][Next]_vars

-----------------------------------------------------------------------------
\* Pointer and counter agree at every field, so that no field is read from
\* beyond the block: for every block that is longer than its header.  (With a
\* length of 3 the FSPEC lies outside the block, and remaining wraps.)
CursorInside ==
    pc \in {"field", "ok"} /\ block_len # 3 => at + remaining = block_len

\* The video block of an accepted message lies in the block just parsed, behind
\* its fixed part, whichever messages the struct was used for before.
VideoInside ==
    pc = "ok" /\ block_len # 3 /\ vtype # "none" =>
        /\ 9 <= vdata /\ vdata + vbytes <= block_len
        /\ block_len <= data_len
=============================================================================

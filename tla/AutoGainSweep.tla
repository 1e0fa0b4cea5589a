--------------------------- MODULE AutoGainSweep ---------------------------
(***************************************************************************)
(* AutoGain under a regular sweep: one frame per line, in order, while the *)
(* antenna turns.  The table is compared with a reference that does not    *)
(* count anything: it looks at the frames of the last revolutions.  The    *)
(* sweep may be disturbed at any time, by a command or by a frame out of   *)
(* order; from then on there is no reference, and the steps are AutoGain's.*)
(***************************************************************************)
EXTENDS AutoGain, Sequences

CONSTANT Revolutions   \* how many revolutions the reference looks back

\* The reference looks back far enough for the minimum, and the counter does not
\* wrap before a gain is there (10 * (255 - 3) in the code).
ASSUME SweepAssumption ==
    /\ Revolutions \in Nat
    /\ NominalGain - Decrement * (Revolutions - Permissible) <= MinimalGain
    /\ NominalGain - Decrement * (CounterMod - 1 - Permissible) <= MinimalGain

VARIABLE history   \* did the frames saturate, the latest first; empty once disturbed

sweepVars == <<vars, history>>

HistoryLength == Revolutions * Lines

SweepInit == Init /\ history = [i \in 1..HistoryLength |-> FALSE]

Regular == history # <<>>

Sweep(saturated) ==
    /\ Regular
    /\ auto_gain_control(((line_index + 1) % Lines) * AngularStep, saturated)
    /\ history' = <<saturated>> \o SubSeq(history, 1, HistoryLength - 1)

Disturbed == Next /\ history' = <<>>

SweepNext == Disturbed \/ \E saturated \in BOOLEAN : Sweep(saturated)

SweepSpec == SweepInit /\ [][SweepNext]_sweepVars

-----------------------------------------------------------------------------
\* Was there a saturated frame in the zone of the boundary line, j revolutions
\* ago?  The frames of that zone are the 2 * Zone + 1 before the latest one.
SaturatedIn(j) == \E i \in 2..2 * Zone + 2 : history[j * Lines + i]

\* For how many revolutions in a row, at least, up to Revolutions.
InARow ==
    CHOOSE k \in 0..Revolutions :
        /\ \A j \in 0..k - 1 : SaturatedIn(j)
        /\ k = Revolutions \/ ~SaturatedIn(k)

ReferenceGain(k) ==
    LET gain == NominalGain - Decrement * (k - Permissible)
    IN  IF k <= Permissible THEN NominalGain
        ELSE IF gain < MinimalGain THEN MinimalGain ELSE gain

\* In a regular sweep the gain of a line, when its revolution ends, is the
\* nominal one less Decrement for each revolution beyond the permissible number
\* in which its zone saturated without interruption, but not below the minimum,
\* also after the uint8_t counter has wrapped.
GainMatchesReference ==
    Regular => curent_gain[Boundary(line_index)] = ReferenceGain(InARow)
=============================================================================

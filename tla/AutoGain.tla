------------------------------ MODULE AutoGain ------------------------------
(***************************************************************************)
(* Automatic gain control (auto_gain_control.c).  A revolution of the      *)
(* antenna is divided into Lines lines.  A frame in which a sample exceeds *)
(* the permissible value marks the lines of the weakening zone around it;  *)
(* a line that is marked in more than Permissible revolutions is weakened. *)
(* After each frame the line that has just left the zone is cleaned, and   *)
(* the gain of the line to come is written to the programmable logic, if   *)
(* it differs from the value written last.                                 *)
(*                                                                         *)
(* A frame is one step: VideoPipeline shows that the task is suspended     *)
(* only between frames.  Samples are reduced to "one of them saturates";   *)
(* the running averages, which are only printed, are left out.             *)
(***************************************************************************)
EXTENDS Integers

CONSTANTS
    Lines,         \* NOMINAL_NUMBER_OF_LINES_PER_REVOLUTION (1200)
    Zone,          \* weakening_zone (5)
    Permissible,   \* number_of_permissible_revolutions (3)
    CounterMod,    \* counter_repetition is a uint8_t (256)
    Decrement,     \* by which a weakening lowers the gain (10)
    AngularStep,   \* azimuth units per line (0x36)
    Azimuths,      \* azimuths of frames (0..0xFFFF)
    ManualGains    \* amplitudes the operator sets (1..126)

ASSUME AutoGainAssumption ==
    /\ Lines \in Nat /\ Zone \in Nat /\ Lines > 2 * Zone + 1
    /\ Permissible \in Nat /\ CounterMod \in Nat /\ CounterMod > Permissible + 1
    /\ AngularStep \in Nat \ {0} /\ Azimuths \subseteq Nat
    /\ Decrement \in Nat
    /\ ManualGains \subseteq 1..126

NominalGain == 127
MinimalGain == 100

VARIABLES
    counter_repetition, flag_cgange, curent_gain,  \* the table, per line
    old_gain_value,   \* the gain gain control wrote last
    pl,               \* the gain in the programmable logic
    active,           \* gain control is not suspended
    line_index        \* line of the last frame

table == <<counter_repetition, flag_cgange, curent_gain>>
vars == <<table, old_gain_value, pl, active, line_index>>

Index == 0..Lines - 1

-----------------------------------------------------------------------------
Init ==
    /\ counter_repetition = [l \in Index |-> 0]
    /\ flag_cgange = [l \in Index |-> FALSE]
    /\ curent_gain = [l \in Index |-> NominalGain]
    /\ old_gain_value = NominalGain
    /\ pl = NominalGain
    /\ active = TRUE
    /\ line_index = 0

\* The line a frame belongs to, from the azimuth in its header.
LineOf(azimuth) == azimuth \div AngularStep

\* The lines of the weakening zone around a line.
ZoneOf(line) == {((line + Lines) + w) % Lines : w \in -Zone..Zone}

\* The line whose revolution ends with this frame.
\* Mutation: the last line of the zone instead of the one before it.
BoundaryInZone(line) == ((line + Lines) - Zone) % Lines
Boundary(line) == ((line + Lines) - (Zone + 1)) % Lines

\* Mutation: no lower limit.
WeakenedUnlimited(gain) == gain - Decrement
Weakened(gain) ==
    IF gain - Decrement <= MinimalGain THEN MinimalGain ELSE gain - Decrement

\* Lines that a frame marks.  Mutation: marked lines are marked again.
MarkedAgain(line, saturated) == IF saturated THEN ZoneOf(line) ELSE {}
Marked(line, saturated) ==
    IF saturated THEN {l \in ZoneOf(line) : ~flag_cgange[l]} ELSE {}

\* filling_auto_gain_control_array with cleaning_auto_gain_control_array.
Filling(line, saturated) ==
    LET marked == Marked(line, saturated)
        count == [l \in Index |-> IF l \in marked
                                  THEN (counter_repetition[l] + 1) % CounterMod
                                  ELSE counter_repetition[l]]
        flag == [l \in Index |-> flag_cgange[l] \/ l \in marked]
        gain == [l \in Index |-> IF l \in marked /\ count[l] > Permissible
                                 THEN Weakened(curent_gain[l])
                                 ELSE curent_gain[l]]
        b == Boundary(line)
    IN  /\ counter_repetition' = [count EXCEPT ![b] = IF flag[b] THEN @ ELSE 0]
        /\ curent_gain' = [gain EXCEPT ![b] = IF flag[b] THEN @ ELSE NominalGain]
        /\ flag_cgange' = [flag EXCEPT ![b] = FALSE]

\* update_gain_value for the line that follows.
\* Mutation: the value written is not remembered.
UpdateForgets(gain) ==
    /\ UNCHANGED old_gain_value
    /\ pl' = IF gain # old_gain_value THEN gain ELSE pl
Update(gain) ==
    IF gain # old_gain_value
    THEN old_gain_value' = gain /\ pl' = gain
    ELSE UNCHANGED <<old_gain_value, pl>>

\* auto_gain_control on one frame.
auto_gain_control(azimuth, saturated) ==
    /\ active
    /\ line_index' = LineOf(azimuth)
    /\ Filling(LineOf(azimuth), saturated)
    /\ Update(curent_gain'[(LineOf(azimuth) + 1) % Lines])
    /\ UNCHANGED active

\* Command C3 with an amplitude: gain control is suspended.
ManualGain(v) ==
    /\ pl' = v
    /\ active' = FALSE
    /\ UNCHANGED <<table, old_gain_value, line_index>>

\* Command C3 with FF: gain control resumes, the logic gets the nominal gain.
AutoGainOn ==
    /\ pl' = NominalGain
    /\ active' = TRUE
    /\ UNCHANGED <<table, old_gain_value, line_index>>

Commands == AutoGainOn \/ \E v \in ManualGains : ManualGain(v)

Next ==
    \/ \E azimuth \in Azimuths, saturated \in BOOLEAN :
          auto_gain_control(azimuth, saturated)
    \/ Commands

Spec == Init /\ [][Next]_vars

-----------------------------------------------------------------------------
\* The table keeps its types, and no sequence of frames, in any order of
\* lines, drives a gain below MINIMAL_GAIN_VALUE or above the nominal gain.
TypeOK ==
    /\ counter_repetition \in [Index -> 0..CounterMod - 1]
    /\ flag_cgange \in [Index -> BOOLEAN]
    /\ curent_gain \in [Index -> MinimalGain..NominalGain]
    /\ old_gain_value \in MinimalGain..NominalGain
    /\ pl \in 1..127
    /\ active \in BOOLEAN
    /\ line_index \in Nat

\* While gain control is active the logic works with the gain of the line to
\* come, or with the nominal one, which the command that switches gain control
\* on has written and update_gain_value, comparing with its own last value
\* only, does not notice.  It is never left with an operator's amplitude or
\* with the gain of another line, in whatever order lines and commands come.
LogicServesNextLine ==
    active => pl \in {curent_gain[(line_index + 1) % Lines], NominalGain}

\* auto_gain_control.h: lines are 0.3 degrees apart (ANGULAR_STEP) and 1200 of
\* them make a revolution, so that every azimuth has a line of the tables.
LineInTable == line_index \in Index
=============================================================================

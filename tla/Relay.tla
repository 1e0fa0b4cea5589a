------------------------------- MODULE Relay -------------------------------
(***************************************************************************)
(* What the firmware promises to the outside, without tasks, queues and    *)
(* buffers.  Video: packets are collected into a frame; a complete frame   *)
(* is transmitted, once, before the next one is begun.  Gain: it changes   *)
(* hands only on a command of the operator's station, and a gain command   *)
(* that was accepted is obeyed.                                            *)
(***************************************************************************)
EXTENDS Naturals

CONSTANT PacketsPerFrame   \* nominal_counter_value

VARIABLES
    packets,       \* collected for the current frame
    transmitted,   \* the current frame has been transmitted
    authority,     \* who sets the gain
    order          \* the gain command being executed, or "none"

video == <<packets, transmitted>>
gain == <<authority, order>>
vars == <<video, gain>>

Authorities == {"agc", "manual"}
\* The authority a gain command establishes.
Wanted == [auto |-> "agc", manual |-> "manual"]

Init ==
    /\ packets = 0 /\ transmitted = FALSE
    /\ authority = "agc" /\ order = "none"

Collect ==
    /\ packets < PacketsPerFrame
    /\ packets' = packets + 1
    /\ UNCHANGED <<transmitted, gain>>

Transmit ==
    /\ packets = PacketsPerFrame /\ ~transmitted
    /\ transmitted' = TRUE
    /\ UNCHANGED <<packets, gain>>

Begin ==
    /\ transmitted
    /\ packets' = 0 /\ transmitted' = FALSE
    /\ UNCHANGED gain

\* A gain command is taken up between two packets, not while a frame leaves.
Accept(c) ==
    /\ order = "none" /\ packets < PacketsPerFrame
    /\ order' = c
    /\ UNCHANGED <<video, authority>>

Obey ==
    /\ order # "none"
    /\ authority' = Wanted[order]
    /\ order' = "none"
    /\ UNCHANGED video

Next == Collect \/ Transmit \/ Begin \/ Obey \/ \E c \in DOMAIN Wanted : Accept(c)

Spec == Init /\ [][Next]_vars /\ WF_vars(Transmit) /\ WF_vars(Begin) /\ WF_vars(Obey)
=============================================================================

--------------------------- MODULE PipelineRelay ---------------------------
(***************************************************************************)
(* VideoPipeline as an implementation of Relay.  The frame and the command *)
(* are read off the positions of the two tasks that work on them.          *)
(***************************************************************************)
EXTENDS VideoPipeline

\* udp_parse_task has a complete frame and has not begun the next one.
FrameAtHand == pc["udp"] \notin {"recv", "merge"}

Executing == pc["tcp"] \in {"parse", "echo", "resume", "nominal", "suspend", "manual"}

Collected == IF FrameAtHand THEN PacketsPerFrame ELSE count - 1

Transmitted == pc["udp"] \in {"recheck", "free"} /\ old \in sent

Order == IF Executing /\ kind[buf["tcp"]] \in {"auto", "manual"}
         THEN kind[buf["tcp"]] ELSE "none"

R == INSTANCE Relay WITH packets <- Collected, transmitted <- Transmitted,
                         authority <- pl, order <- Order

\* Whatever is preempted where, the four tasks look like one relay from
\* outside: each frame is made of PacketsPerFrame packets and leaves exactly
\* once before the next one is begun (also when gain control is suspended or
\* resumed around it), the gain changes hands only on a command, commands and
\* frames do not overlap, and frames and commands do not get stuck.
Relays == R!Spec
=============================================================================

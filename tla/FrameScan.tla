----------------------------- MODULE FrameScan -----------------------------
(***************************************************************************)
(* From the merged frame to gain control: udp_parse_task sends the frame,  *)
(* which moves its payload pointer, and gain control looks for saturated   *)
(* samples in the same buffers, at fixed offsets from that pointer.        *)
(*                                                                         *)
(* How far the pointer moves is up to lwIP: by the UDP, IP and Ethernet    *)
(* headers if the frame goes out as it is, but only by the first two if it *)
(* is fragmented again or waits for the peer's hardware address.           *)
(*                                                                         *)
(* The module follows the sample of PeakMerge on its way; the other ones   *)
(* do not saturate.  No packet is merged while a frame is scanned          *)
(* (OneInFlight of VideoPipeline).                                         *)
(***************************************************************************)
EXTENDS PeakMerge

CONSTANTS
    Unused,    \* by how many samples the announced number may fall short
    Surplus,   \* by how many it may exceed what the frame holds
    Misread    \* sample numbers that are read where there is none (uint16_t)

UInt16 == 0 .. 65535
Limit24 == 256 * 65536
UInt24 == {n \in Nat : n < Limit24}

ASSUME ScanAssumption ==
    Unused \subseteq Nat /\ Surplus \subseteq Nat /\ Misread \subseteq UInt16

VARIABLES
    announced,         \* nb_cells in the header of the frame
    resolved,          \* lwIP knows the hardware address of the peer
    room,              \* headers between the payload pointer and the data
    spc,               \* where gain control is
    size_of_samples,
    f,                 \* index of the fragment the scan is at
    skursor,           \* kursor of filling_auto_gain_control_array
    found              \* a saturated sample has been met

scan == <<room, spc, size_of_samples, f, skursor, found>>
scanVars == <<vars, announced, resolved, scan>>

max_permissible_value == 60500
MTU == 1500 - 14          \* what xemacpsif gives netif->mtu
StartAz == 12             \* where the header of a CAT240 message holds the
NbCells == 28             \* azimuth and the number of samples

\* Samples the datagram has room for.
Held == (tot - DataStart) \div 2

\* The number of samples is what the sender writes: nothing compares it with
\* the length of the datagram.
ScanInit ==
    /\ Init
    /\ spc = "idle" /\ room = 0 /\ size_of_samples = 0
    /\ f = 1 /\ skursor = 0 /\ found = FALSE
    /\ announced \in ({Held - u : u \in Unused} \union {Held + u : u \in Surplus})
                        \cap UInt24
    /\ resolved \in BOOLEAN

Merging ==
    /\ spc = "idle"
    /\ \/ \E s \in Samples : FirstPacket(s) \/ NextPacket(s)
       \/ MergeFragment \/ PacketDone
    /\ UNCHANGED <<announced, resolved, scan>>

\* Headers in front of the data once udp_send returns.
Headers == IF resolved /\ tot + 28 <= MTU THEN 42 ELSE 28

\* The frame is complete and sent, and gain control gets it if it is active.
SendFrame ==
    /\ spc = "idle"
    /\ FrameDone
    /\ \/ UNCHANGED <<room, spc>>
       \/ room' = Headers /\ spc' = "header"
    /\ UNCHANGED <<announced, resolved, size_of_samples, f, skursor, found>>

\* The answer to the ARP request, or a request of the peer's own.  Entries do
\* not expire and requests are not repeated: nothing calls etharp_tmr.
ArpLearned ==
    /\ spc = "idle" /\ ~resolved
    /\ resolved' = TRUE
    /\ UNCHANGED <<vars, announced, scan>>

\* The sample number is 24 bits wide and assigned to a uint16_t.
Size(n) == n % 65536

\* auto_gain_control takes the sample number from 70 bytes behind the pointer.
ReadHeader ==
    /\ spc = "header"
    /\ size_of_samples' \in IF 70 - room = NbCells THEN {Size(announced)} ELSE Misread
    /\ spc' = "scan"
    /\ f' = 1 /\ skursor' = 74 /\ found' = FALSE
    /\ UNCHANGED <<vars, announced, resolved, room>>

\* Bytes before the data in fragment i, seen from its payload pointer.
Front(i) == IF i = 1 THEN room ELSE 0

\* Mutation: the last sample is left out.
VisitedShort(i) ==
    /\ Start(i) <= pos /\ pos < Start(i + 1)
    /\ (Front(i) - skursor + pos - Start(i)) \in 0 .. 2 * size_of_samples - 4

\* The loop meets the sample; it counts samples by the announced number in
\* each fragment, whatever the fragment holds.
Visited(i) ==
    /\ Start(i) <= pos /\ pos < Start(i + 1)
    /\ (Front(i) - skursor + pos - Start(i)) \in 0 .. 2 * size_of_samples - 2

\* It also meets bytes behind the end of the fragment.
Overruns(i) ==
    LET end == IF i = Fragments(tot) THEN tot ELSE Start(i + 1)
    IN  skursor + 2 * size_of_samples > Front(i) + end - Start(i)

\* One fragment of filling_auto_gain_control_array.
ScanFragment ==
    /\ spc = "scan" /\ f <= Fragments(tot)
    /\ LET saturated == Visited(f) /\ Value(acc) > max_permissible_value
       IN  found' \in {saturated, saturated \/ Overruns(f)}
    /\ IF found' THEN spc' = "target" /\ UNCHANGED <<f, skursor>>
                 ELSE f' = f + 1 /\ skursor' = 0 /\ UNCHANGED spc
    /\ UNCHANGED <<vars, announced, resolved, room, size_of_samples>>

ScanEnds ==
    /\ spc = "scan" /\ f > Fragments(tot)
    /\ spc' = "target"
    /\ UNCHANGED <<vars, announced, resolved, room, size_of_samples, f, skursor,
                   found>>

\* The table is updated (see AutoGain) and the buffer freed; nothing is carried
\* over to the next frame.
Release ==
    /\ spc = "target"
    /\ spc' = "idle" /\ room' = 0 /\ size_of_samples' = 0
    /\ f' = 1 /\ skursor' = 0 /\ found' = FALSE
    /\ UNCHANGED <<vars, announced, resolved>>

ScanNext == Merging \/ SendFrame \/ ArpLearned \/ ReadHeader \/ ScanFragment
               \/ ScanEnds \/ Release

ScanSpec == ScanInit /\ [][ScanNext]_scanVars

-----------------------------------------------------------------------------
\* End to end, for a frame that leaves in one piece to a peer whose address is
\* known: if one of the packets that were merged had a saturated sample at an
\* announced position, gain control finds it; and if the announced number, cut
\* to 16 bits, is one the datagram can hold, it finds nothing else.  A number
\* that is too large can only raise a false alarm.
SaturationSeen ==
    LET size == announced % 65536
        saturated == /\ (pos - DataStart) \div 2 < size
                     /\ peak > max_permissible_value
    IN  spc = "target" /\ room = 42 =>
            /\ saturated => found
            /\ found => saturated \/ size > Held

\* The comments of auto_gain_control give 54 and 40 as the places of the
\* azimuth, by mode; the place that is read is the one that holds it.
FieldsInPlace ==
    spc = "scan" => 54 - room = StartAz /\ 70 - room = NbCells
=============================================================================

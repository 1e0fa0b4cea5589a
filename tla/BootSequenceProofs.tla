------------------------- MODULE BootSequenceProofs -------------------------
(***************************************************************************)
(* The command link and the start-up around it, for every window, queue,   *)
(* command and frame length.                                               *)
(*                                                                         *)
(* The link: the firmware never follows tcp_pcb to a freed connection      *)
(* block.  The pointer alone is not enough to see this: after a failed     *)
(* tcp_connect it dangles for ever.  What protects it is Guarded: while    *)
(* lwIP may free the block by itself, the error callback that resets the   *)
(* pointer is registered, and a command implies an open connection.        *)
(*                                                                         *)
(* The start-up: what exists and what is left of the heap follows from the *)
(* position in BootOrder (Progress), and the only states in which another  *)
(* thread runs before the end are the two delays (Delays).                 *)
(*                                                                         *)
(* The clock: every step of the composed system is a step of TimerFlags or *)
(* leaves the clock alone, so what TimerFlagsProofs proves holds here.     *)
(***************************************************************************)
EXTENDS BootSequence, TimerFlagsProofs

Connected == {"syn", "established", "closewait"}

TypeOK ==
    /\ pc \in {"new", "connect", "wait", "check", "done"}
    /\ pcb \in Connected \cup {"none", "closed", "freed"}
    /\ cmd \in Nat

Guarded ==
    /\ pcb \in Connected => errf = TRUE /\ tcp_pcb = TRUE
    /\ pc = "connect" => pcb = "closed" /\ errf = TRUE /\ tcp_pcb = TRUE
    /\ pc \in {"wait", "check"} => (tcp_pcb = TRUE => Live)
    /\ pc = "new" => pcb = "none" /\ tcp_pcb = FALSE /\ stat_tcp_con = FALSE
    /\ cmd # 0 => pcb = "established" /\ pc = "done"
    /\ stat_tcp_con = TRUE => pcb \in {"established", "closewait"}
    /\ stat_tcp_con \in BOOLEAN /\ tcp_pcb \in BOOLEAN /\ err \in BOOLEAN
    /\ pc \in {"wait", "check"} /\ err = TRUE => pcb = "closed"

Inv == TypeOK /\ Guarded

\* The first state: there is no block yet.
LEMMA InitInv == Init => Inv
<1> SUFFICES ASSUME Init PROVE Inv
  OBVIOUS
<1>1. /\ pc = "new" /\ pcb = "none" /\ cmd = 0
      /\ tcp_pcb = FALSE /\ stat_tcp_con = FALSE /\ err = FALSE
  BY DEF Init
<1>2. TypeOK
  BY <1>1 DEF TypeOK, Connected
<1>3. Guarded
  BY <1>1 DEF Guarded, Connected
<1> QED
  BY <1>2, <1>3 DEF Inv

\* The start-up task keeps the invariant.
LEMMA StartUpInv == ASSUME Inv, StartUp PROVE Inv'
<1> USE DEF Inv, TypeOK, Guarded, Connected, Live
<1>1. CASE NewFails
  BY <1>1 DEF NewFails
<1>2. CASE New
  BY <1>2 DEF New
<1>3. CASE Connect
  BY <1>3 DEF Connect
<1>4. CASE Waited
  BY <1>4 DEF Waited
<1>5. CASE Check
  BY <1>5 DEF Check, tcp_client_close
<1> QED
  BY <1>1, <1>2, <1>3, <1>4, <1>5 DEF StartUp

\* The events in the input thread and the command task keep the invariant; a
\* block that is freed while tcp_pcb points to it has the callback registered.
LEMMA LinkInv ==
    ASSUME LinkAssumption, Inv,
           Segment \/ (cmd = 0 /\ tcp_slowtmr) \/ FrameQueued \/ Execute
    PROVE  Inv'
<1> USE DEF Inv, TypeOK, Guarded, Connected, Live
<1>1. CASE client_connected
  BY <1>1 DEF client_connected, InputRuns
<1>2. CASE Reset
  BY <1>2 DEF Reset, Removed, InputRuns, tcp_connect_error
<1>3. CASE cmd = 0 /\ tcp_slowtmr
  <2>1. CASE Removed /\ pcb \in Connected
    BY <1>3, <2>1 DEF Removed, tcp_connect_error
  <2>2. CASE UNCHANGED <<pc, pcb, tcp_pcb, errf, stat_tcp_con, err, cmd>>
    BY <2>2
  <2> QED
    BY <1>3, <2>1, <2>2 DEF tcp_slowtmr, vars
<1>4. CASE PeerCloses
  BY <1>4 DEF PeerCloses, InputRuns
<1>5. CASE Acknowledge
  BY <1>5 DEF Acknowledge, InputRuns
<1>6. ASSUME NEW n \in CommandLens, recv_callback(n) PROVE Inv'
  BY <1>6 DEF recv_callback, InputRuns, LinkAssumption
<1>7. CASE Execute
  BY <1>7 DEF Execute
<1>8. CASE etharp_input \/ HalfOpen \/ FrameQueued
  BY <1>8 DEF etharp_input, HalfOpen, FrameQueued
<1> QED
  BY <1>1, <1>2, <1>3, <1>4, <1>5, <1>6, <1>7, <1>8 DEF Segment

\* The inductive invariant of the command link.
THEOREM LinkGuarded == Spec => []Inv
<1>1. Inv /\ [Next]_vars => Inv'
  <2> SUFFICES ASSUME Inv, [Next]_vars PROVE Inv'
    OBVIOUS
  <2>1. CASE StartUp
    BY <2>1, StartUpInv
  <2>2. CASE Segment \/ (cmd = 0 /\ tcp_slowtmr) \/ FrameQueued \/ Execute
    BY <2>2, LinkInv, LinkAssumption
  <2>3. CASE UNCHANGED vars
    BY <2>3 DEF vars, Inv, TypeOK, Guarded, Connected, Live
  <2> QED
    BY <2>1, <2>2, <2>3 DEF Next, InputRuns
<1> QED
  BY <1>1, InitInv, PTL DEF Spec

\* What the invariant says where the firmware follows the pointer.
LEMMA InvReadLive == Inv => PcbReadLive
BY DEF Inv, Guarded, PcbReadLive, Connected, Live

\* The invariant implies a truthful status.
LEMMA InvStatus == Inv => StatusTruthful
BY DEF Inv, Guarded, StatusTruthful, Connected

\* tcp_connection_cl and parse_msg never follow tcp_pcb to a freed block.
THEOREM PcbNeverStale == Spec => []PcbReadLive
BY InvReadLive, LinkGuarded, PTL

\* stat_tcp_con is never set without a connection behind tcp_pcb.
THEOREM StatusSound == Spec => []StatusTruthful
BY InvStatus, LinkGuarded, PTL

-----------------------------------------------------------------------------
(* The start-up.                                                           *)

\* The bytes the start-up steps take, as heap_4 rounds them.
LEMMA Costs ==
    /\ Task(1024) = 4200 /\ Task(10000) = 40104
    /\ Queue(200, 4) = 896 /\ MessageBuffer(1024) = 1072
    /\ HeapAtStart = 92928
BY DEF Task, Queue, MessageBuffer, Block, HeapAtStart

\* What must be left before each step, from the costs of the steps before.
HeapLeft ==
    <<92928, 92928, 92928, 88728, 88728, 88728, 87832, 47728, 46832, 6728, 5656,
      4760, 560, 560>>

\* The objects that exist are those of the steps that have been taken.  Only
\* lwip_network_setup and udp_connection may delete the task.
Progress ==
    /\ step \in 1 .. 14
    /\ dead \in BOOLEAN /\ (dead = TRUE => step \in {2, 4})
    /\ "input" \in created <=> step > 3
    /\ "udp" \in created <=> step > 4
    /\ "udpq" \in created <=> step > 6
    /\ "udptask" \in created <=> step > 7
    /\ "agcq" \in created <=> step > 8
    /\ "agctask" \in created <=> step > 9
    /\ "tcptask" \in created <=> step > 12
    /\ heap \in Nat /\ HeapLeft[step] <= heap

\* tcp_connection_cl is the fifth step.
Delays ==
    /\ pc = "new" => step <= 5
    /\ pc \in {"connect", "wait", "check"} => step = 5 /\ dead = FALSE
    /\ pc = "done" => step > 5
    /\ halted \in BOOLEAN /\ (halted = TRUE => pc = "wait")
    /\ fault = FALSE

BootInv == Inv /\ Progress /\ Delays

\* The steps of network_init_task by their position.
LEMMA OrderIs ==
    /\ Len(BootOrder) = 13 /\ DOMAIN BootOrder = 1 .. 13
    /\ BootOrder[1] = "wait1" /\ BootOrder[2] = "setup" /\ BootOrder[3] = "input"
    /\ BootOrder[4] = "udp" /\ BootOrder[5] = "tcp" /\ BootOrder[6] = "udpq"
    /\ BootOrder[7] = "udptask" /\ BootOrder[8] = "agcq" /\ BootOrder[9] = "agctask"
    /\ BootOrder[10] = "msgbuf" /\ BootOrder[11] = "tcpq" /\ BootOrder[12] = "tcptask"
    /\ BootOrder[13] = "timer"
BY DEF BootOrder

\* The heap covers each step, and the next step from there.
LEMMA HeapCovers ==
    \A i \in 1 .. 13 : /\ HeapLeft[i] \in Nat /\ HeapLeft[i + 1] \in Nat
                       /\ Cost(BootOrder[i]) \in Nat
                       /\ Cost(BootOrder[i]) <= HeapLeft[i]
                       /\ HeapLeft[i + 1] <= HeapLeft[i] - Cost(BootOrder[i])
<1>1. /\ \A s \in {"input", "tcptask"} : Cost(s) = 4200
      /\ \A s \in {"udptask", "agctask"} : Cost(s) = 40104
      /\ \A s \in {"udpq", "agcq", "tcpq"} : Cost(s) = 896
      /\ Cost("msgbuf") = 1072
      /\ \A s \in {"wait1", "setup", "udp", "tcp", "timer"} : Cost(s) = 0
  BY Costs DEF Cost
<1> QED
  BY <1>1, OrderIs DEF HeapLeft

\* The invariant holds at reset.
LEMMA BootInitInv == BootInit => BootInv
<1> SUFFICES ASSUME BootInit PROVE BootInv
  OBVIOUS
<1>1. Inv
  BY InitInv DEF BootInit
<1>2. /\ step = 1 /\ dead = FALSE /\ created = {} /\ heap = HeapAtStart
      /\ fault = FALSE /\ pc = "new" /\ halted = FALSE
  BY DEF BootInit, Init
<1>3. heap \in Nat /\ HeapLeft[step] <= heap
  <2>1. step = 1 /\ heap = HeapAtStart
    BY <1>2
  <2> QED
    BY <2>1, Costs, SMT DEF HeapLeft
<1>4. Progress
  <2>1. dead \in BOOLEAN /\ dead # TRUE
    BY <1>2
  <2>2. step \in 1 .. 14 /\ ~(step > 3)
    BY <1>2
  <2> QED
    BY <1>2, <1>3, <2>1, <2>2 DEF Progress
<1>5. Delays
  <2>1. halted \in BOOLEAN /\ halted # TRUE /\ fault = FALSE
    BY <1>2
  <2>2. step <= 5 /\ pc = "new"
    BY <1>2
  <2> QED
    BY <2>1, <2>2 DEF Delays
<1> QED
  BY <1>1, <1>4, <1>5 DEF BootInv

\* The link's variables but for halted.
linkVars == <<pc, pcb, tcp_pcb, errf, recvf, stat_tcp_con, err, wnd, cmd, echoes>>

\* Steps that leave the link alone keep its invariant.
LEMMA LinkKept == ASSUME Inv, UNCHANGED linkVars PROVE Inv'
BY DEF linkVars, Inv, TypeOK, Guarded, Connected, Live

\* A step of the start-up task that creates something.
LEMMA AdvanceInv ==
    ASSUME BootInv, Advance, ~Booted, step # 5, ~dead, ~halted
    PROVE  BootInv'
<1>1. Inv'
  BY LinkKept DEF BootInv, Advance, vars, linkVars
<1>2. step \in 1 .. 13 /\ step' = step + 1 /\ created' = created \cup {BootOrder[step]}
  BY OrderIs DEF Advance, Booted, BootInv, Progress
<1>3. heap' \in Nat /\ HeapLeft[step'] <= heap'
  BY <1>2, HeapCovers DEF Advance, BootInv, Progress
<1>4. Progress'
  BY <1>2, <1>3, OrderIs DEF Advance, BootInv, Progress
<1>5. Delays'
  BY <1>2 DEF Advance, vars, BootInv, Delays, Progress, Inv, TypeOK
<1> QED
  BY <1>1, <1>4, <1>5 DEF BootInv

\* Every step of start-up, link and workers keeps the invariant.
LEMMA BootNextInv == BootInv /\ [BootNext]_allVars => BootInv'
<1> SUFFICES ASSUME BootInv, [BootNext]_allVars PROVE BootInv'
  OBVIOUS
<1>0. Inv /\ Progress /\ Delays
  BY DEF BootInv
<1> USE <1>0, OrderIs
<1>1. CASE Create
  <2>1. step # 5 /\ Advance /\ ~Booted /\ ~dead /\ ~halted
    BY <1>1 DEF Create
  <2> QED
    BY <2>1, AdvanceInv
<1>2. CASE lwip_network_setup \/ udp_connection
  <2>1. step \in {2, 4} /\ ~Booted /\ ~dead /\ ~halted
    BY <1>2 DEF lwip_network_setup, udp_connection, At, Booted, Progress, Delays
  <2>2. CASE Advance
    BY <2>1, <2>2, AdvanceInv
  <2>3. CASE Delete
    <3>1. Inv'
      BY <2>3, LinkKept DEF Delete, vars, linkVars
    <3>2. Progress'
      BY <2>1, <2>3 DEF Delete, Progress
    <3>3. Delays'
      BY <2>1, <2>3 DEF Delete, vars, Delays
    <3> QED
      BY <3>1, <3>2, <3>3 DEF BootInv
  <2> QED
    BY <1>2, <2>2, <2>3 DEF lwip_network_setup, udp_connection
<1>3. CASE tcp_connection_cl
  <2>1. Inv' /\ step = 5 /\ ~dead
    BY <1>3, StartUpInv DEF tcp_connection_cl, At, Booted, Progress
  <2>2. Progress'
    BY <1>3, <2>1 DEF tcp_connection_cl, Progress, HeapLeft
  <2>3. Delays'
    BY <1>3, <2>1 DEF tcp_connection_cl, Delays, Progress, StartUp, NewFails, New,
          Connect, Waited, Check
  <2> QED
    BY <2>1, <2>2, <2>3 DEF BootInv
<1>4. CASE VideoArrives
  <2>1. Inv'
    BY <1>4, LinkKept DEF VideoArrives, linkVars
  <2>2. Progress'
    BY <1>4 DEF VideoArrives, taskVars, Progress
  <2>3. "udpq" \notin created => pc = "wait"
    BY <1>4 DEF VideoArrives, Quiet, InitBlocked, Booted, At, Exists, Progress
  <2>4. Delays'
    BY <1>4, <2>3 DEF VideoArrives, taskVars, Delays, Exists
  <2> QED
    BY <2>1, <2>2, <2>4 DEF BootInv
<1>5. CASE LinkSegment
  <2>1. Inv'
    BY <1>5, LinkInv, LinkAssumption DEF LinkSegment
  <2>2. Progress'
    BY <1>5 DEF LinkSegment, bootVars, taskVars, Progress
  <2>3. UNCHANGED <<step, dead, fault>> /\ pc' = pc
    BY <1>5 DEF LinkSegment, bootVars, taskVars, Segment, etharp_input, HalfOpen,
          client_connected, Reset, Removed, PeerCloses, Acknowledge, recv_callback
  <2>4. halted' = halted \/ (halted' = TRUE /\ pc = "wait")
    BY <1>5 DEF LinkSegment, Segment, etharp_input, HalfOpen, client_connected,
          Reset, Removed, PeerCloses, Acknowledge, recv_callback, InputRuns
  <2>5. Delays'
    BY <2>3, <2>4 DEF Delays
  <2> QED
    BY <2>1, <2>2, <2>5 DEF BootInv
<1>10. CASE SlowTimer
  <2>1. Inv'
    BY <1>10, LinkInv, LinkAssumption DEF SlowTimer, Quiet
  <2>2. UNCHANGED <<step, dead, created, heap, fault, pc, halted>>
    BY <1>10 DEF SlowTimer, bootVars, taskVars, tcp_slowtmr, Removed, vars
  <2> QED
    BY <2>1, <2>2 DEF BootInv, Progress, Delays
<1>11. CASE NothingArrives \/ TestFlags \/ TimerTick
  <2>1. UNCHANGED <<linkVars, halted, step, dead, created, heap, fault>>
    BY <1>11 DEF NothingArrives, TestFlags, TimerTick, vars, bootVars, taskVars, linkVars
  <2>2. Inv'
    BY <2>1, LinkKept
  <2> QED
    BY <2>1, <2>2 DEF BootInv, Progress, Delays, linkVars
<1>12. CASE StartTimers
  <2>1. step = 13 /\ ~dead /\ step' \in {13, 14}
    BY <1>12 DEF StartTimers, At, Booted, Progress
  <2>2. UNCHANGED <<linkVars, halted, dead, created, heap, fault>>
    BY <1>12 DEF StartTimers, vars, linkVars
  <2>3. Inv'
    BY <2>2, LinkKept
  <2>4. HeapLeft[13] = 560 /\ HeapLeft[14] = 560
    BY DEF HeapLeft
  <2>5. Progress'
    BY <2>1, <2>2, <2>4 DEF Progress
  <2>6. Delays'
    BY <2>1, <2>2 DEF Delays, linkVars
  <2> QED
    BY <2>3, <2>5, <2>6 DEF BootInv
<1>6. CASE UdpWorks
  <2>0. FrameQueued \/ UNCHANGED vars
    BY <1>6 DEF UdpWorks
  <2>1. Inv' /\ UNCHANGED <<pc, halted>>
    BY <2>0, LinkKept DEF FrameQueued, vars, linkVars
  <2>2. Progress'
    BY <1>6 DEF UdpWorks, taskVars, Progress
  <2>3. "agctask" \in created /\ "agcq" \in created
    BY <1>6 DEF UdpWorks, InitBlocked, Booted, At, Exists, Progress
  <2>4. Delays'
    BY <1>6, <2>1, <2>3 DEF UdpWorks, taskVars, Delays
  <2> QED
    BY <2>1, <2>2, <2>4 DEF BootInv
<1>7. CASE TcpWorks
  <2>1. Inv'
    BY <1>7, LinkInv, LinkAssumption DEF TcpWorks
  <2>2. Progress'
    BY <1>7 DEF TcpWorks, taskVars, Progress
  <2>3. "agctask" \in created
    BY <1>7 DEF TcpWorks, Exists, Progress
  <2>4. Delays'
    BY <1>7, <2>3 DEF TcpWorks, Execute, taskVars, Delays, Exists
  <2> QED
    BY <2>1, <2>2, <2>4 DEF BootInv
<1>8. CASE IdleFrees
  <2>1. Inv'
    BY <1>8, LinkKept DEF IdleFrees, vars, linkVars
  <2>2. heap' \in Nat /\ heap <= heap'
    BY <1>8, Costs DEF IdleFrees, Progress
  <2>3. HeapLeft[step] \in Nat
    BY DEF HeapLeft, Progress
  <2>4. Progress'
    BY <1>8, <2>2, <2>3 DEF IdleFrees, Progress
  <2>5. Delays'
    BY <1>8 DEF IdleFrees, vars, Delays
  <2> QED
    BY <2>1, <2>4, <2>5 DEF BootInv
<1>9. CASE UNCHANGED allVars
  <2>1. UNCHANGED <<vars, linkVars, step, dead, created, heap, fault>>
    BY <1>9 DEF allVars, vars, bootVars, taskVars, linkVars
  <2>2. Inv'
    BY <2>1, LinkKept
  <2> QED
    BY <2>1, <2>2 DEF BootInv, Progress, Delays, vars
<1> QED
  BY <1>1, <1>2, <1>3, <1>4, <1>5, <1>6, <1>7, <1>8, <1>9, <1>10, <1>11, <1>12
  DEF BootNext, network_init_task, x1emacif_input_thread

\* The inductive invariant of the start-up.
THEOREM BootInvariant == BootSpec => []BootInv
BY BootInitInv, BootNextInv, PTL DEF BootSpec

\* The merge and the command task never use a gain control handle that is still
\* null: the only delays, in which they could run, are over before they exist.
THEOREM HandlesSeen == BootSpec => []WorkersSeeHandles
<1>1. BootInv => WorkersSeeHandles
  BY DEF BootInv, Delays, WorkersSeeHandles
<1> QED
  BY <1>1, BootInvariant, PTL

\* configTOTAL_HEAP_SIZE covers every object of the start-up: the hook for a
\* failed allocation is out of reach.
THEOREM HeapLasts == BootSpec => []HeapSuffices
<1>1. BootInv => HeapSuffices
  <2> SUFFICES ASSUME BootInv, NEW i \in 1 .. 13, step = i
               PROVE  Cost(BootOrder[i]) <= heap
    BY OrderIs DEF HeapSuffices
  <2> QED
    BY HeapCovers DEF BootInv, Progress
<1> QED
  BY <1>1, BootInvariant, PTL

\* The assertion on a missing queue can fail only while tcp_connection_cl waits.
THEOREM AssertWindow == BootSpec => []AssertOnlyWhileConnecting
<1>1. BootInv => AssertOnlyWhileConnecting
  BY OrderIs DEF BootInv, Delays, Progress, AssertOnlyWhileConnecting, At, Booted
<1> QED
  BY <1>1, BootInvariant, PTL

\* tcp_pcb is not followed to a freed block in the composed system either, with
\* the start-up, the video traffic and the workers around the link.
THEOREM BootPcbNeverStale == BootSpec => []PcbReadLive
<1>1. BootInv => PcbReadLive
  BY InvReadLive DEF BootInv
<1> QED
  BY <1>1, BootInvariant, PTL

\* Nor is stat_tcp_con set there without a connection behind tcp_pcb.
THEOREM BootStatusSound == BootSpec => []StatusTruthful
<1>1. BootInv => StatusTruthful
  BY InvStatus DEF BootInv
<1> QED
  BY <1>1, BootInvariant, PTL

-----------------------------------------------------------------------------
(* The clock.                                                              *)

\* A step of the composed system is a step of the clock or none.
LEMMA ClockStep == [BootNext]_allVars => [TimerNext]_timerVars
<1> SUFFICES ASSUME [BootNext]_allVars PROVE TimerNext \/ UNCHANGED timerVars
  OBVIOUS
<1>1. CASE x1emacif_input_thread
  <2>1. "fast" \in Timers /\ "slow" \in Timers
    BY DEF Timers
  <2> QED
    BY <1>1, <2>1 DEF x1emacif_input_thread, VideoArrives, LinkSegment, NothingArrives,
          TestFlags, SlowTimer, InputThread, TimerNext
<1>2. CASE TimerTick
  BY <1>2 DEF TimerTick, TimerNext
<1>3. CASE network_init_task
  BY <1>3 DEF network_init_task, Create, Advance, Delete, lwip_network_setup,
        udp_connection, tcp_connection_cl, StartTimers, TimerNext
<1>4. CASE UdpWorks \/ TcpWorks \/ IdleFrees
  BY <1>4 DEF UdpWorks, TcpWorks, IdleFrees
<1>5. CASE UNCHANGED allVars
  BY <1>5 DEF allVars
<1> QED
  BY <1>1, <1>2, <1>3, <1>4, <1>5 DEF BootNext

\* The clock in its surroundings, polled between packets and started by the
\* start-up task, is the clock of TimerFlags.
THEOREM BootRunsClock == BootSpec => TimerSpec
<1>1. BootInit => TimerInit
  BY DEF BootInit
<1> QED
  BY <1>1, ClockStep, PTL DEF BootSpec, TimerSpec

\* So tcp_slowtmr is called at most every second interrupt in the composed
\* system, however the traffic delays the loop.
THEOREM BootSlowRate == BootSpec => []SlowAtHalfRate
BY BootRunsClock, SlowRateBounded, PTL
=============================================================================

------------------------------ MODULE TcpLink ------------------------------
(***************************************************************************)
(* The life of the command link: tcp_connection_cl in the start-up task,   *)
(* the callbacks lwIP invokes from the input thread, and the answers of    *)
(* the command task.                                                       *)
(*                                                                         *)
(* The connection block (PCB) belongs to lwIP, which frees it on a reset   *)
(* or when its timers give up; the firmware keeps the pointer tcp_pcb.     *)
(* The input thread has the lowest priority: it handles a segment only     *)
(* while the start-up task is delayed or gone and no command is waiting.   *)
(*                                                                         *)
(* The SYN cannot leave before the peer's hardware address is known: it    *)
(* waits in the queue of the ARP entry, and as long as it is referenced    *)
(* there lwIP does not count a retransmission.  The ARP table is large     *)
(* enough for the hosts on the network, so that no entry is recycled.      *)
(***************************************************************************)
EXTENDS Naturals

CONSTANTS
    TCP_WND,            \* the receive window in bytes (2048)
    TCP_SND_QUEUELEN,   \* answers lwIP keeps until they are acknowledged
    CommandLens,        \* lengths of command segments
    TCP_SYNMAXRTX,      \* retransmissions of the SYN (6)
    Rto                 \* calls of tcp_slowtmr between two of them (6)

ASSUME LinkAssumption ==
    /\ TCP_WND \in Nat \ {0} /\ TCP_SND_QUEUELEN \in Nat \ {0}
    /\ CommandLens \subseteq Nat \ {0}
    /\ TCP_SYNMAXRTX \in Nat /\ Rto \in Nat \ {0}

VARIABLES
    pc,             \* where the start-up task is
    pcb,            \* the state of the PCB, "none" before tcp_new, "freed"
    tcp_pcb,        \* the firmware's pointer is not null
    errf, recvf,    \* tcp_connect_error, recv_callback are registered
    stat_tcp_con,
    err,            \* result of tcp_connect: it failed
    wnd,            \* pcb->rcv_wnd
    cmd,            \* length of the command in xPbufQueuetcp, 0 if empty
    echoes,         \* answers not acknowledged by the peer
    halted,         \* configASSERT( pxQueue ) failed in recv_callback
    arp,            \* the hardware address of the peer is known
    syn,            \* where the SYN is: "none", "arp" (in the queue of the ARP
                    \* entry), "dropped" (pushed out of it), "sent"
    nrtx, rtime     \* pcb->nrtx and pcb->rtime of the SYN

attempt == <<arp, syn, nrtx, rtime>>
vars == <<pc, pcb, tcp_pcb, errf, recvf, stat_tcp_con, err, wnd, cmd, echoes,
          halted, attempt>>

Init ==
    /\ pc = "new" /\ pcb = "none" /\ tcp_pcb = FALSE
    /\ errf = FALSE /\ recvf = FALSE /\ stat_tcp_con = FALSE
    /\ err = FALSE /\ wnd = TCP_WND /\ cmd = 0 /\ echoes = 0
    /\ halted = FALSE
    /\ arp = FALSE /\ syn = "none" /\ nrtx = 0 /\ rtime = 0

Live == pcb \in {"closed", "syn", "established", "closewait"}

-----------------------------------------------------------------------------
(* tcp_connection_cl.                                                      *)

\* tcp_new_ip_type failed: the start-up goes on without a link.
NewFails ==
    /\ pc = "new"
    /\ pc' = "done"
    /\ UNCHANGED <<pcb, tcp_pcb, errf, recvf, stat_tcp_con, err, wnd, cmd,
                   echoes, halted, attempt>>

\* Mutation: tcp_err is not called.
NewUnguarded ==
    /\ pc = "new"
    /\ pc' = "connect" /\ pcb' = "closed" /\ tcp_pcb' = TRUE
    /\ UNCHANGED <<errf, recvf, stat_tcp_con, err, wnd, cmd, echoes, halted,
                   attempt>>

\* tcp_new_ip_type, the monitor, tcp_err.
New ==
    /\ pc = "new"
    /\ pc' = "connect" /\ pcb' = "closed" /\ tcp_pcb' = TRUE /\ errf' = TRUE
    /\ UNCHANGED <<recvf, stat_tcp_con, err, wnd, cmd, echoes, halted, attempt>>

\* etharp_output: to a known address, or into the queue of a pending entry.
Output == syn' = IF arp THEN "sent" ELSE "arp"

\* tcp_connect outputs the SYN, or fails (no route, no port, no memory).
Connect ==
    /\ pc = "connect"
    /\ pc' = "wait"
    /\ \/ pcb' = "syn" /\ err' = FALSE /\ Output
       \/ pcb' = pcb /\ err' = TRUE /\ syn' = syn
    /\ UNCHANGED <<tcp_pcb, errf, recvf, stat_tcp_con, wnd, cmd, echoes, halted,
                   arp, nrtx, rtime>>

\* vTaskDelay(pdMS_TO_TICKS(2000)) ends.
Waited ==
    /\ pc = "wait" /\ ~halted
    /\ pc' = "check"
    /\ UNCHANGED <<pcb, tcp_pcb, errf, recvf, stat_tcp_con, err, wnd, cmd,
                   echoes, halted, attempt>>

\* The callbacks are removed and the PCB, in CLOSED, is freed at once; tcp_pcb
\* keeps its address.
tcp_client_close ==
    IF tcp_pcb THEN pcb' = "freed" /\ errf' = FALSE ELSE UNCHANGED <<pcb, errf>>

\* tcp_pcb->state is printed, and after a failure the PCB is closed.  Then the
\* queue, the command task and the timers are created.
Check ==
    /\ pc = "check"
    /\ pc' = "done"
    /\ IF err THEN tcp_client_close ELSE UNCHANGED <<pcb, errf>>
    /\ UNCHANGED <<tcp_pcb, recvf, stat_tcp_con, err, wnd, cmd, echoes, halted,
                   attempt>>

-----------------------------------------------------------------------------
(* lwIP in the input thread.                                               *)

InputRuns == pc \in {"wait", "done"} /\ cmd = 0 /\ ~halted

\* Mutation: stat_tcp_con is not reset.
ErrorKeepsStatus ==
    IF errf THEN tcp_pcb' = FALSE /\ UNCHANGED stat_tcp_con
            ELSE UNCHANGED <<tcp_pcb, stat_tcp_con>>

\* lwIP calls the error callback, if there is one.
tcp_connect_error ==
    IF errf THEN tcp_pcb' = FALSE /\ stat_tcp_con' = FALSE
            ELSE UNCHANGED <<tcp_pcb, stat_tcp_con>>

\* The attempt is over: the segment is freed, the PCB too or connected.
AttemptOver == syn' = "none" /\ nrtx' = 0 /\ rtime' = 0 /\ UNCHANGED arp

\* SYN/ACK.
client_connected ==
    /\ InputRuns /\ pcb = "syn" /\ syn = "sent"
    /\ pcb' = "established"
    /\ stat_tcp_con' = TRUE /\ recvf' = TRUE
    /\ AttemptOver
    /\ UNCHANGED <<pc, tcp_pcb, errf, err, wnd, cmd, echoes, halted>>

\* The error callback, and the PCB is freed.
Removed ==
    /\ pcb' = "freed" /\ echoes' = 0
    /\ tcp_connect_error
    /\ AttemptOver
    /\ UNCHANGED <<pc, errf, recvf, err, wnd, cmd, halted>>

\* RST, of a connection or of an attempt that has reached the peer.
Reset ==
    /\ InputRuns
    /\ pcb \in {"established", "closewait"} \/ (pcb = "syn" /\ syn = "sent")
    /\ Removed

\* An ARP answer or request of the peer: the queue of the entry is sent.
etharp_input ==
    /\ InputRuns /\ ~arp
    /\ arp' = TRUE
    /\ syn' = IF syn = "arp" THEN "sent" ELSE syn
    /\ UNCHANGED <<pc, pcb, tcp_pcb, errf, recvf, stat_tcp_con, err, wnd, cmd,
                   echoes, halted, nrtx, rtime>>

\* Mutation: the retransmission is not counted.
RetransmitUncounted == Output /\ rtime' = 0 /\ UNCHANGED nrtx

\* tcp_rexmit_rto_prepare and _commit, for a SYN that is not referenced.
Retransmit == Output /\ rtime' = 0 /\ nrtx' = nrtx + 1

\* An ACK of an older connection to the same ports: the SYN is sent again at
\* once, unless it is still referenced.
HalfOpen ==
    /\ InputRuns /\ pcb = "syn" /\ nrtx < TCP_SYNMAXRTX
    /\ IF syn = "arp" THEN rtime' = 0 /\ UNCHANGED <<syn, nrtx>> ELSE Retransmit
    /\ UNCHANGED <<pc, pcb, tcp_pcb, errf, recvf, stat_tcp_con, err, wnd, cmd,
                   echoes, halted, arp>>

\* tcp_slowtmr.  A SYN is retransmitted after Rto calls, unless it is still
\* referenced by the ARP queue, and given up after TCP_SYNMAXRTX of them; how
\* often an answer has been retransmitted is left open.
tcp_slowtmr ==
    \/ /\ pcb = "syn" /\ nrtx >= TCP_SYNMAXRTX
       /\ Removed
    \/ /\ pcb = "syn" /\ nrtx < TCP_SYNMAXRTX
       /\ IF rtime + 1 >= Rto /\ syn # "arp"
          THEN Retransmit
          ELSE /\ rtime' = IF rtime + 1 < Rto THEN rtime + 1 ELSE rtime
               /\ UNCHANGED <<syn, nrtx>>
       /\ UNCHANGED <<pc, pcb, tcp_pcb, errf, recvf, stat_tcp_con, err, wnd,
                      cmd, echoes, halted, arp>>
    \/ /\ pcb \in {"established", "closewait"} /\ echoes > 0
       /\ Removed
    \/ /\ pcb # "syn"
       /\ UNCHANGED vars

\* A video frame to the same peer, in the merge task: while the address is not
\* known its packets queue up behind the SYN, and push it out when the queue
\* holds ARP_QUEUE_LEN (3) of them.
FrameQueued ==
    /\ syn' \in IF syn = "arp" THEN {"arp", "dropped"} ELSE {syn}
    /\ UNCHANGED <<pc, pcb, tcp_pcb, errf, recvf, stat_tcp_con, err, wnd, cmd,
                   echoes, halted, arp, nrtx, rtime>>

\* FIN: recv_callback is called with a null buffer, and returns ERR_BUF.
PeerCloses ==
    /\ InputRuns /\ pcb = "established"
    /\ pcb' = "closewait"
    /\ UNCHANGED <<pc, tcp_pcb, errf, recvf, stat_tcp_con, err, wnd, cmd,
                   echoes, halted, attempt>>

\* A command segment inside the window.  recv_callback never calls tcp_recved.
recv_callback(n) ==
    /\ InputRuns /\ pcb = "established" /\ recvf
    /\ n <= wnd
    /\ wnd' = wnd - n
    /\ IF pc = "done"
       THEN cmd' = n /\ UNCHANGED halted
       ELSE halted' = TRUE /\ UNCHANGED cmd
    /\ UNCHANGED <<pc, pcb, tcp_pcb, errf, recvf, stat_tcp_con, err, echoes,
                   attempt>>

Acknowledge ==
    /\ InputRuns /\ pcb \in {"established", "closewait"} /\ echoes > 0
    /\ echoes' \in 0 .. (echoes - 1)
    /\ UNCHANGED <<pc, pcb, tcp_pcb, errf, recvf, stat_tcp_con, err, wnd, cmd,
                   halted, attempt>>

-----------------------------------------------------------------------------
(* The command task: an amplitude command is answered, unless tcp_write    *)
(* fails (null pointer, full queue), which goes unnoticed.                 *)

Execute ==
    /\ cmd # 0
    /\ cmd' = 0
    /\ \/ echoes' = echoes
       \/ tcp_pcb /\ echoes < TCP_SND_QUEUELEN /\ echoes' = echoes + 1
    /\ UNCHANGED <<pc, pcb, tcp_pcb, errf, recvf, stat_tcp_con, err, wnd, halted,
                   attempt>>

StartUp == NewFails \/ New \/ Connect \/ Waited \/ Check

\* What the input thread may receive.
Segment ==
    \/ etharp_input
    \/ client_connected \/ HalfOpen \/ Reset \/ PeerCloses \/ Acknowledge
    \/ \E n \in CommandLens : recv_callback(n)

Next ==
    \/ StartUp
    \/ Segment
    \/ InputRuns /\ pc = "done" /\ tcp_slowtmr
    \/ pc = "done" /\ FrameQueued
    \/ Execute

Spec == Init /\ [][Next]_vars

-----------------------------------------------------------------------------
\* Wherever the firmware follows tcp_pcb (the state after two seconds, the
\* answer to a command) lwIP has not freed the PCB behind it.
PcbReadLive == (pc = "check" \/ cmd # 0) /\ tcp_pcb => Live

\* stat_tcp_con promises a PCB that lwIP still keeps and that has been
\* connected, whatever ended or half-closed the connection.
StatusTruthful == stat_tcp_con => tcp_pcb /\ pcb \in {"established", "closewait"}

\* tcp.c: the application has to call tcp_recved() when it has taken the data,
\* so with every command executed an open link accepts another one.
WindowReopens == pcb = "established" /\ cmd = 0 => wnd > 0
=============================================================================

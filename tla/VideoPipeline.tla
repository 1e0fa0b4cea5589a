--------------------------- MODULE VideoPipeline ---------------------------
(***************************************************************************)
(* The video path of the firmware: one lwIP polling thread and three       *)
(* worker tasks that pass packet buffers (pbufs) to each other through     *)
(* FreeRTOS queues.                                                        *)
(*                                                                         *)
(*   input  x1emacif_input_thread     priority 0, polls the EMAC           *)
(*   agc    udp_auto_gain_control_task         1, analyses finished frames *)
(*   udp    udp_parse_task                     2, merges packets to frames *)
(*   tcp    tcp_parse_task                     3, executes commands        *)
(*                                                                         *)
(* The scheduler is preemptive and picks the ready task of the highest     *)
(* priority, with one exception that matters here: the receive callbacks   *)
(* run in the input thread but use the FromISR interface, whose yield is   *)
(* only a request that the next interrupt exit (Preempt) or the thread's   *)
(* own yield honours.  Until then the low-priority input thread goes on    *)
(* inside lwIP while a worker of a higher priority is ready.               *)
(*                                                                         *)
(* Packet contents are reduced to a kind; a pbuf is identified by its      *)
(* address and carries its reference count.                                *)
(***************************************************************************)
EXTENDS Integers, Sequences, FiniteSets

CONSTANTS
    Pbufs,            \* the buffers of the pbuf pool (PBUF_POOL_SIZE of them)
    NoPbuf,           \* the null pointer
    UdpQueueLen,      \* capacity of xPbufQueueudp (200)
    AgcQueueLen,      \* capacity of xPbufQueueforautogaincontrolQueue (200)
    TcpQueueLen,      \* capacity of xPbufQueuetcp (200)
    PacketsPerFrame   \* nominal_counter_value (10)

ASSUME PipelineAssumption ==
    /\ NoPbuf \notin Pbufs
    /\ UdpQueueLen \in Nat \ {0}
    /\ AgcQueueLen \in Nat \ {0}
    /\ TcpQueueLen \in Nat \ {0}
    /\ PacketsPerFrame \in Nat \ {0, 1}

VARIABLES
    running,  \* the task the CPU executes
    st,       \* scheduler state of each task
    pc,       \* where each task is in its loop
    buf,      \* local pointer p of each task
    rxq,      \* recv_q of the EMAC driver, filled by the receive interrupt
    udpq,     \* xPbufQueueudp
    agcq,     \* xPbufQueueforautogaincontrolQueue
    tcpq,     \* xPbufQueuetcp
    count,    \* counter_of_packets of udp_parse_task
    old,      \* old_pbuf of udp_parse_task
    lent,     \* auxiliary: old_pbuf was offered to the gain control queue
    ref,      \* pbuf->ref of every buffer; 0 is a buffer in the free pool
    net,      \* how many of these references lwIP's ARP queue and the
              \* transmit ring hold
    sent,     \* buffers whose payload udp_send has moved to the lower headers
    kind,     \* what the packet in a buffer is
    pl        \* who set the gain the programmable logic uses

vars == <<running, st, pc, buf, rxq, udpq, agcq, tcpq, count, old, lent,
          ref, net, sent, kind, pl>>

taskVars == <<running, st>>
queueVars == <<udpq, agcq, tcpq>>
mergeVars == <<count, old, lent>>
memVars == <<ref, net, sent, kind>>

Tasks == {"input", "agc", "udp", "tcp"}

\* Command packets (TCP) by their effect in parse_msg: C3 with FF, C3 with a
\* value inside the limits, C3 with any other value, every other command.
Commands == {"auto", "manual", "miss", "cmd"}
\* "other" is traffic that lwIP consumes itself (ARP, ACKs, foreign ports).
Kinds == {"video", "other"} \cup Commands

InputLabels == {"poll", "demux", "unwind", "yield"}
AgcLabels == {"recv", "compute", "free"}
UdpLabels == {"recv", "merge", "check", "post", "send", "recheck", "sendown",
              "free"}
TcpLabels == {"recv", "parse", "echo", "resume", "nominal", "suspend",
              "manual", "free"}
Labels == InputLabels \cup AgcLabels \cup UdpLabels \cup TcpLabels

-----------------------------------------------------------------------------
(* The scheduler.                                                          *)

\* Mutations: gain control above the merge task; the input thread as urgent
\* as gain control; the input thread as urgent as the merge task.
PrioAgcAboveUdp == [input |-> 0, agc |-> 3, udp |-> 2, tcp |-> 4]
PrioInputAsAgc == [input |-> 1, agc |-> 1, udp |-> 2, tcp |-> 3]
PrioInputAsUdp == [input |-> 2, agc |-> 1, udp |-> 2, tcp |-> 3]

Prio == [input |-> 0, agc |-> 1, udp |-> 2, tcp |-> 3]

\* The tasks the scheduler may pick when the task states are s.
Top(s) == {t \in Tasks :
              /\ s[t] = "ready"
              /\ \A u \in Tasks : s[u] = "ready" => Prio[u] <= Prio[t]}

\* A queue operation or vTaskResume of task t makes u ready: t yields at once
\* if u has the higher priority, and goes on otherwise.
Wake(t, u) ==
    /\ st' = [st EXCEPT ![u] = "ready"]
    /\ running' = IF Prio[u] > Prio[t] THEN u ELSE t

\* The FromISR variant, used by the callbacks: the yield is only requested.
WakeDeferred(u) ==
    /\ st' = IF st[u] = "blocked" THEN [st EXCEPT ![u] = "ready"] ELSE st
    /\ UNCHANGED running

\* xQueueReceive with portMAX_DELAY on an empty queue.
Block(t) ==
    /\ st' = [st EXCEPT ![t] = "blocked"]
    /\ running' \in Top(st')

Goto(t, label) == pc' = [pc EXCEPT ![t] = label]

At(t, label) == running = t /\ pc[t] = label

\* The reference count is a u8_t and lwIP's assertions are compiled out.
RefMod == 256
Released(r, p) == [r EXCEPT ![p] = (@ - 1) % RefMod]

-----------------------------------------------------------------------------
Init ==
    /\ st = [t \in Tasks |-> "ready"]
    /\ running \in Top(st)
    /\ pc = [t \in Tasks |-> IF t = "input" THEN "poll" ELSE "recv"]
    /\ buf = [t \in Tasks |-> NoPbuf]
    /\ rxq = <<>> /\ udpq = <<>> /\ agcq = <<>> /\ tcpq = <<>>
    /\ count = 1 /\ old = NoPbuf /\ lent = FALSE
    /\ ref = [p \in Pbufs |-> 0]
    /\ net = [p \in Pbufs |-> 0]
    /\ sent = {}
    /\ kind = [p \in Pbufs |-> "other"]
    /\ pl = "agc"

-----------------------------------------------------------------------------
(* Interrupts.                                                             *)

\* An interrupt exit that honours a requested yield or, at a tick, rotates
\* among ready tasks of the same priority.
Preempt ==
    /\ running' \in Top(st) \ {running}
    /\ UNCHANGED <<st, pc, buf, rxq, queueVars, mergeVars, memVars, pl>>

\* The receive interrupt stores a packet in a buffer of the pool.
NicReceive(p, k) ==
    /\ ref[p] = 0
    /\ ref' = [ref EXCEPT ![p] = 1]
    /\ kind' = [kind EXCEPT ![p] = k]
    /\ sent' = sent \ {p}
    /\ rxq' = Append(rxq, p)
    /\ UNCHANGED <<taskVars, pc, buf, queueVars, mergeVars, net, pl>>

\* The transmit interrupt (or the ARP queue) drops its reference.
TxDone(p) ==
    /\ net[p] > 0
    /\ net' = [net EXCEPT ![p] = @ - 1]
    /\ ref' = Released(ref, p)
    /\ UNCHANGED <<taskVars, pc, buf, rxq, queueVars, mergeVars, sent, kind, pl>>

-----------------------------------------------------------------------------
(* The input thread and the callbacks lwIP runs in it.                     *)

InputPoll ==
    /\ At("input", "poll")
    /\ IF rxq = <<>>
       THEN Goto("input", "yield") /\ UNCHANGED <<buf, rxq>>
       ELSE /\ buf' = [buf EXCEPT !["input"] = Head(rxq)]
            /\ rxq' = Tail(rxq)
            /\ Goto("input", "demux")
    /\ UNCHANGED <<taskVars, queueVars, mergeVars, memVars, pl>>

udp_receive_callback ==
    /\ At("input", "demux")
    /\ kind[buf["input"]] = "video"
    /\ IF Len(udpq) < UdpQueueLen
       THEN /\ udpq' = Append(udpq, buf["input"])
            /\ WakeDeferred("udp")
            /\ UNCHANGED ref
       ELSE /\ ref' = Released(ref, buf["input"])
            /\ UNCHANGED <<udpq, taskVars>>
    /\ buf' = [buf EXCEPT !["input"] = NoPbuf]
    /\ Goto("input", "unwind")
    /\ UNCHANGED <<rxq, agcq, tcpq, mergeVars, net, sent, kind, pl>>

recv_callback ==
    /\ At("input", "demux")
    /\ kind[buf["input"]] \in Commands
    /\ IF Len(tcpq) < TcpQueueLen
       THEN /\ tcpq' = Append(tcpq, buf["input"])
            /\ WakeDeferred("tcp")
            /\ UNCHANGED ref
       ELSE /\ ref' = Released(ref, buf["input"])
            /\ UNCHANGED <<tcpq, taskVars>>
    /\ buf' = [buf EXCEPT !["input"] = NoPbuf]
    /\ Goto("input", "unwind")
    /\ UNCHANGED <<rxq, udpq, agcq, mergeVars, net, sent, kind, pl>>

\* A packet no application callback is registered for: lwIP frees it.
InputConsume ==
    /\ At("input", "demux")
    /\ kind[buf["input"]] = "other"
    /\ ref' = Released(ref, buf["input"])
    /\ buf' = [buf EXCEPT !["input"] = NoPbuf]
    /\ Goto("input", "unwind")
    /\ UNCHANGED <<taskVars, rxq, queueVars, mergeVars, net, sent, kind, pl>>

\* lwIP returns from udp_input or tcp_input (which may still send an ACK).
InputUnwind ==
    /\ At("input", "unwind")
    /\ Goto("input", "yield")
    /\ UNCHANGED <<taskVars, buf, rxq, queueVars, mergeVars, memVars, pl>>

\* vTaskDelay(pdMS_TO_TICKS(1)): one millisecond is zero ticks at 100 Hz, so
\* the thread stays ready and only yields.
InputYield ==
    /\ At("input", "yield")
    /\ running' \in Top(st)
    /\ Goto("input", "poll")
    /\ UNCHANGED <<st, buf, rxq, queueVars, mergeVars, memVars, pl>>

Input == InputPoll \/ udp_receive_callback \/ recv_callback
            \/ InputConsume \/ InputUnwind \/ InputYield

-----------------------------------------------------------------------------
(* udp_parse_task.                                                         *)

\* Mutation: a receive that polls the empty queue instead of blocking.
UdpSpins ==
    /\ At("udp", "recv") /\ udpq = <<>>
    /\ running' \in Top(st)
    /\ UNCHANGED <<st, pc, buf, rxq, queueVars, mergeVars, memVars, pl>>

UdpBlock ==
    /\ At("udp", "recv") /\ udpq = <<>>
    /\ Block("udp")
    /\ UNCHANGED <<pc, buf, rxq, queueVars, mergeVars, memVars, pl>>

\* The first packet of a frame becomes the buffer the others are merged into.
UdpFirst ==
    /\ At("udp", "recv") /\ udpq # <<>>
    /\ count = 1
    /\ old' = Head(udpq)
    /\ udpq' = Tail(udpq)
    /\ count' = count + 1
    /\ UNCHANGED <<taskVars, pc, buf, rxq, agcq, tcpq, lent, memVars, pl>>

UdpNext ==
    /\ At("udp", "recv") /\ udpq # <<>>
    /\ count # 1
    /\ buf' = [buf EXCEPT !["udp"] = Head(udpq)]
    /\ udpq' = Tail(udpq)
    /\ Goto("udp", "merge")
    /\ UNCHANGED <<taskVars, rxq, agcq, tcpq, mergeVars, memVars, pl>>

\* Mutation: one packet too many per frame.
FrameCompleteLate == count > PacketsPerFrame
FrameComplete == count >= PacketsPerFrame

\* Peak merge into old_pbuf (see PeakMerge), then the packet is freed.
UdpMerge ==
    /\ At("udp", "merge")
    /\ ref' = Released(ref, buf["udp"])
    /\ buf' = [buf EXCEPT !["udp"] = NoPbuf]
    /\ IF FrameComplete
       THEN Goto("udp", "check") /\ UNCHANGED count
       ELSE Goto("udp", "recv") /\ count' = count + 1
    /\ UNCHANGED <<taskVars, rxq, queueVars, old, lent, net, sent, kind, pl>>

\* First eTaskGetState: is gain control active?
UdpCheck ==
    /\ At("udp", "check")
    /\ Goto("udp", IF st["agc"] # "suspended" THEN "post" ELSE "recheck")
    /\ UNCHANGED <<taskVars, buf, rxq, queueVars, mergeVars, memVars, pl>>

\* xQueueSend without waiting; a full queue frees the frame.
UdpPost ==
    /\ At("udp", "post")
    /\ IF Len(agcq) < AgcQueueLen
       THEN /\ agcq' = Append(agcq, old)
            /\ IF st["agc"] = "blocked" THEN Wake("udp", "agc")
                                        ELSE UNCHANGED taskVars
            /\ UNCHANGED ref
       ELSE /\ ref' = Released(ref, old)
            /\ UNCHANGED <<agcq, taskVars>>
    /\ lent' = TRUE
    /\ Goto("udp", "send")
    /\ UNCHANGED <<buf, rxq, udpq, tcpq, count, old, net, sent, kind, pl>>

\* udp_send prepends headers in place; the layers below keep a reference
\* until the frame is on the wire, or drop the frame for lack of space.  There
\* is always a route: the interface is up, with its link flag, and the default
\* one before the tasks exist, and nothing takes it down (link_detect_thread is
\* not compiled).  The port is bound by then, too.
udp_send(p) ==
    /\ sent' = sent \cup {p}
    /\ \/ /\ net' = [net EXCEPT ![p] = @ + 1]
          /\ ref' = [ref EXCEPT ![p] = (@ + 1) % RefMod]
       \/ UNCHANGED <<net, ref>>

UdpSend ==
    /\ At("udp", "send")
    /\ udp_send(old)
    /\ Goto("udp", "recheck")
    /\ UNCHANGED <<taskVars, buf, rxq, queueVars, mergeVars, kind, pl>>

FrameDone ==
    /\ count' = 1
    /\ old' = NoPbuf
    /\ lent' = FALSE
    /\ Goto("udp", "recv")

\* Mutation: without gain control the frame is only freed.
UdpRecheckUnsent ==
    /\ At("udp", "recheck")
    /\ IF st["agc"] = "suspended"
       THEN Goto("udp", "free") /\ UNCHANGED mergeVars
       ELSE FrameDone
    /\ UNCHANGED <<taskVars, buf, rxq, queueVars, memVars, pl>>

\* Second eTaskGetState: is gain control suspended?
UdpRecheck ==
    /\ At("udp", "recheck")
    /\ IF st["agc"] = "suspended"
       THEN Goto("udp", "sendown") /\ UNCHANGED mergeVars
       ELSE FrameDone
    /\ UNCHANGED <<taskVars, buf, rxq, queueVars, memVars, pl>>

UdpSendOwn ==
    /\ At("udp", "sendown")
    /\ udp_send(old)
    /\ Goto("udp", "free")
    /\ UNCHANGED <<taskVars, buf, rxq, queueVars, mergeVars, kind, pl>>

UdpFree ==
    /\ At("udp", "free")
    /\ ref' = Released(ref, old)
    /\ FrameDone
    /\ UNCHANGED <<taskVars, buf, rxq, queueVars, net, sent, kind, pl>>

Udp == UdpBlock \/ UdpFirst \/ UdpNext \/ UdpMerge \/ UdpCheck \/ UdpPost
          \/ UdpSend \/ UdpRecheck \/ UdpSendOwn \/ UdpFree

-----------------------------------------------------------------------------
(* udp_auto_gain_control_task.                                             *)

AgcBlock ==
    /\ At("agc", "recv") /\ agcq = <<>>
    /\ Block("agc")
    /\ UNCHANGED <<pc, buf, rxq, queueVars, mergeVars, memVars, pl>>

AgcTake ==
    /\ At("agc", "recv") /\ agcq # <<>>
    /\ buf' = [buf EXCEPT !["agc"] = Head(agcq)]
    /\ agcq' = Tail(agcq)
    /\ Goto("agc", "compute")
    /\ UNCHANGED <<taskVars, rxq, udpq, tcpq, mergeVars, memVars, pl>>

\* auto_gain_control (see AutoGain) writes the gain only when it changes.
AgcCompute ==
    /\ At("agc", "compute")
    /\ pl' \in {pl, "agc"}
    /\ Goto("agc", "free")
    /\ UNCHANGED <<taskVars, buf, rxq, queueVars, mergeVars, memVars>>

AgcFree ==
    /\ At("agc", "free")
    /\ ref' = Released(ref, buf["agc"])
    /\ buf' = [buf EXCEPT !["agc"] = NoPbuf]
    /\ Goto("agc", "recv")
    /\ UNCHANGED <<taskVars, rxq, queueVars, mergeVars, net, sent, kind, pl>>

Agc == AgcBlock \/ AgcTake \/ AgcCompute \/ AgcFree

-----------------------------------------------------------------------------
(* tcp_parse_task and the gain branch of parse_msg.                        *)

TcpBlock ==
    /\ At("tcp", "recv") /\ tcpq = <<>>
    /\ Block("tcp")
    /\ UNCHANGED <<pc, buf, rxq, queueVars, mergeVars, memVars, pl>>

TcpTake ==
    /\ At("tcp", "recv") /\ tcpq # <<>>
    /\ buf' = [buf EXCEPT !["tcp"] = Head(tcpq)]
    /\ tcpq' = Tail(tcpq)
    /\ Goto("tcp", "parse")
    /\ UNCHANGED <<taskVars, rxq, udpq, agcq, mergeVars, memVars, pl>>

\* Only the amplitude command is answered and acted upon.
TcpParse ==
    /\ At("tcp", "parse")
    /\ Goto("tcp", IF kind[buf["tcp"]] = "cmd" THEN "free" ELSE "echo")
    /\ UNCHANGED <<taskVars, buf, rxq, queueVars, mergeVars, memVars, pl>>

\* The branch on the amplitude byte.  Mutation: every amplitude but FF is
\* written, and gain control is not suspended before.
AfterEchoUnchecked(k) == IF k = "auto" THEN "resume" ELSE "manual"
AfterEcho(k) == CASE k = "auto"   -> "resume"
                  [] k = "manual" -> "suspend"
                  [] OTHER        -> "free"

\* tcp_write copies the command into lwIP's send queue.
TcpEcho ==
    /\ At("tcp", "echo")
    /\ Goto("tcp", AfterEcho(kind[buf["tcp"]]))
    /\ UNCHANGED <<taskVars, buf, rxq, queueVars, mergeVars, memVars, pl>>

TcpResume ==
    /\ At("tcp", "resume")
    /\ IF st["agc"] = "suspended" THEN Wake("tcp", "agc")
                                  ELSE UNCHANGED taskVars
    /\ Goto("tcp", "nominal")
    /\ UNCHANGED <<buf, rxq, queueVars, mergeVars, memVars, pl>>

\* Automatic control starts from the nominal gain 0x7F.
TcpNominal ==
    /\ At("tcp", "nominal")
    /\ pl' = "agc"
    /\ Goto("tcp", "free")
    /\ UNCHANGED <<taskVars, buf, rxq, queueVars, mergeVars, memVars>>

TcpSuspend ==
    /\ At("tcp", "suspend")
    /\ st' = [st EXCEPT !["agc"] = "suspended"]
    /\ Goto("tcp", "manual")
    /\ UNCHANGED <<running, buf, rxq, queueVars, mergeVars, memVars, pl>>

TcpManual ==
    /\ At("tcp", "manual")
    /\ pl' = "manual"
    /\ Goto("tcp", "free")
    /\ UNCHANGED <<taskVars, buf, rxq, queueVars, mergeVars, memVars>>

\* Mutation: the command buffer is never freed.
TcpFreeLeaks ==
    /\ At("tcp", "free")
    /\ buf' = [buf EXCEPT !["tcp"] = NoPbuf]
    /\ Goto("tcp", "recv")
    /\ UNCHANGED <<taskVars, rxq, queueVars, mergeVars, memVars, pl>>

TcpFree ==
    /\ At("tcp", "free")
    /\ ref' = Released(ref, buf["tcp"])
    /\ buf' = [buf EXCEPT !["tcp"] = NoPbuf]
    /\ Goto("tcp", "recv")
    /\ UNCHANGED <<taskVars, rxq, queueVars, mergeVars, net, sent, kind, pl>>

Tcp == TcpBlock \/ TcpTake \/ TcpParse \/ TcpEcho \/ TcpResume \/ TcpNominal
          \/ TcpSuspend \/ TcpManual \/ TcpFree

-----------------------------------------------------------------------------
Next ==
    \/ Preempt
    \/ \E p \in Pbufs, k \in Kinds : NicReceive(p, k)
    \/ \E p \in Pbufs : TxDone(p)
    \/ Input \/ Udp \/ Agc \/ Tcp

Spec == Init /\ [][Next]_vars

\* The CPU always executes something and ticks keep coming.  Nothing is assumed
\* of the network: packets may stop, and a frame may wait in the ARP queue for
\* ever, since nothing repeats a lost ARP request.
Fairness ==
    /\ WF_vars(Preempt)
    /\ WF_vars(Input) /\ WF_vars(Udp) /\ WF_vars(Agc) /\ WF_vars(Tcp)

FairSpec == Spec /\ Fairness

-----------------------------------------------------------------------------
(* Properties.                                                             *)

TaskType ==
    /\ running \in Tasks
    /\ st \in [Tasks -> {"ready", "blocked", "suspended"}]
    /\ pc \in [Tasks -> Labels]
    /\ pc["input"] \in InputLabels /\ pc["agc"] \in AgcLabels
    /\ pc["udp"] \in UdpLabels /\ pc["tcp"] \in TcpLabels
    /\ pl \in {"agc", "manual"}

QueueType ==
    /\ rxq \in Seq(Pbufs) /\ udpq \in Seq(Pbufs)
    /\ agcq \in Seq(Pbufs) /\ tcpq \in Seq(Pbufs)

PtrType ==
    /\ buf \in [Tasks -> Pbufs \cup {NoPbuf}]
    /\ old \in Pbufs \cup {NoPbuf}
    /\ count \in 1..PacketsPerFrame

MemType ==
    /\ ref \in [Pbufs -> 0..RefMod - 1]
    /\ net \in [Pbufs -> Nat]
    /\ sent \subseteq Pbufs
    /\ kind \in [Pbufs -> Kinds]

\* Every variable keeps its type; in particular a reference count stays a
\* u8_t and counter_of_packets never passes nominal_counter_value.
TypeOK == TaskType /\ QueueType /\ PtrType /\ MemType /\ lent \in BOOLEAN

\* The places in the program that are responsible for freeing buffer p.
Owners(p) ==
    {<<"rxq", i>> : i \in {j \in DOMAIN rxq : rxq[j] = p}}
    \cup {<<"udpq", i>> : i \in {j \in DOMAIN udpq : udpq[j] = p}}
    \cup {<<"agcq", i>> : i \in {j \in DOMAIN agcq : agcq[j] = p}}
    \cup {<<"tcpq", i>> : i \in {j \in DOMAIN tcpq : tcpq[j] = p}}
    \cup {<<t, 0>> : t \in {u \in Tasks : buf[u] = p}}
    \cup (IF old = p /\ ~lent THEN {<<"old", 0>>} ELSE {})

\* No leak and no double free, whatever is preempted where: the reference
\* count of every buffer is the number of places that will free it plus the
\* references of the network layers, and at most one place will free it
\* (pbuf_free in main.c and iwip.c, the queues in between).
RefExact ==
    \A p \in Pbufs : /\ Cardinality(Owners(p)) <= 1
                     /\ ref[p] = Cardinality(Owners(p)) + net[p]

\* No step of a task touches a freed buffer.  The one that could is line 121
\* of main.c: udp_send(old_pbuf) after the frame was handed to gain control,
\* which frees it.
NoUseAfterFree ==
    /\ \A t \in Tasks : buf[t] # NoPbuf => ref[buf[t]] > 0
    /\ pc["udp"] \in {"merge", "check", "post", "send", "sendown", "free"}
          => old # NoPbuf /\ ref[old] > 0

\* Gain control reads a frame at fixed offsets that include the headers
\* udp_send prepends in place, so the frame must have been sent before it is
\* analysed, although it is queued for analysis before it is sent.
AgcReadsSentFrame ==
    pc["agc"] = "compute" => buf["agc"] \in sent

\* The three queues of 200 entries never hold more than one buffer, so that
\* none of the three "queue full" branches is ever taken; in particular not
\* the one of line 119 of main.c, which frees the frame that line 121 sends.
QueuesShallow ==
    /\ Len(udpq) + Len(tcpq) <= 1
    /\ Len(agcq) <= 1

\* A manual gain command suspends gain control only while it waits for a
\* frame: suspension never strands a buffer in its hands or in its queue.
SuspendQuiescent ==
    st["agc"] = "suspended" => pc["agc"] = "recv" /\ agcq = <<>>

\* The two eTaskGetState calls of one frame agree: a frame that was offered
\* to gain control is not sent and freed a second time.
VerdictsAgree ==
    pc["udp"] \in {"sendown", "free"} => ~lent

\* When the command task is idle, gain control is suspended exactly if the
\* gain in the programmable logic is the operator's.
GainAuthority ==
    pc["tcp"] = "recv" => (st["agc"] = "suspended" <=> pl = "manual")

Workers == Tasks \ {"input"}
Idle == \A t \in Workers : st[t] # "ready"
UdpActive == pc["udp"] # "recv" \/ udpq # <<>>
AgcActive == pc["agc"] # "recv" \/ agcq # <<>>
TcpActive == pc["tcp"] # "recv" \/ tcpq # <<>>

\* Why the above holds: the queues are a synchronous hand-over.  The input
\* thread delivers a packet only when every worker waits, a worker that has
\* something to do is ready and so keeps the input thread from polling, and a
\* finished frame stays in the gain control queue until it has been sent.
OneInFlight ==
    /\ st["input"] = "ready"
    /\ st["udp"] # "suspended" /\ st["tcp"] # "suspended"
    /\ running \in Workers => running \in Top(st)
    /\ At("input", "poll") \/ pc["input"] = "demux" => Idle
    /\ pc["input"] = "demux" => running = "input"
    /\ UdpActive => st["udp"] = "ready"
    /\ AgcActive => st["agc"] = "ready"
    /\ TcpActive => st["tcp"] = "ready" /\ ~UdpActive /\ ~AgcActive
    /\ UdpActive /\ AgcActive => lent
    /\ Len(udpq) <= 1 /\ Len(tcpq) <= 1 /\ Len(agcq) <= 1
    /\ pc["udp"] # "recv" => udpq = <<>>
    /\ pc["tcp"] # "recv" => tcpq = <<>>
    /\ pc["agc"] # "recv" => agcq = <<>>
    /\ pc["udp"] = "post" => st["agc"] # "suspended"
    /\ lent <=> (\/ pc["udp"] = "send"
                \/ (pc["udp"] = "recheck" /\ st["agc"] # "suspended"))
    /\ lent => pc["agc"] = "recv" /\ agcq = <<old>>

\* lwip/opt.h says of NO_SYS==1 that lwIP functions must not be accessed from
\* more than one context at a time: no worker enters lwIP while the input
\* thread is inside.
CoreExclusive ==
    pc["input"] \in {"demux", "unwind"} =>
        ~(At("udp", "send") \/ At("udp", "sendown") \/ At("tcp", "echo"))

\* The input thread, which has the priority of the idle task, always gets
\* back to polling the network interface.
InputNotStarved == []<>At("input", "poll")

\* The firmware lets go of every received buffer, unless it is the frame that
\* is still waiting for packets to be merged into it: what is left are the
\* references of the network layers.
BufferReturned ==
    \A p \in Pbufs : ref[p] > net[p] ~> (ref[p] = net[p] \/ old = p)

=============================================================================

---------------------------- MODULE BootSequence ----------------------------
(***************************************************************************)
(* network_init_task: the start-up of the network side, step by step, with *)
(* the traffic that reaches the callbacks while it is in progress and      *)
(* after it.  The connection (tcp_connection_cl, its callbacks and the     *)
(* command task's answers) is TcpLink's and the clock behind tcp_slowtmr   *)
(* is TimerFlags'; both are composed with the rest here.                   *)
(*                                                                         *)
(* The task has priority 3.  It gives the CPU away only in its two         *)
(* vTaskDelay calls, and then the input thread it has created serves the   *)
(* network.  A callback that finds its queue missing fails an assertion in *)
(* FreeRTOS, which stops the system.  So does the hook that pvPortMalloc   *)
(* calls when the heap of 100000 bytes is exhausted.                       *)
(***************************************************************************)
EXTENDS TcpLink, TimerFlags, Sequences

CONSTANT PacketsPerFrame   \* nominal_counter_value (10)

ASSUME BootAssumption == PacketsPerFrame \in Nat \ {0, 1}

VARIABLES
    step,     \* position in BootOrder; beyond its end the task is deleted
    dead,     \* the task deleted itself after a failed step
    created,  \* objects that exist: queues, tasks, the message buffer
    video,    \* a packet waits for the merge task
    fault,    \* a worker used a queue or a task handle that was still null
    count,    \* counter_of_packets of the merge task
    heap      \* free bytes of the FreeRTOS heap

taskVars == <<step, dead, created, heap>>
bootVars == <<taskVars, video, fault, count>>
allVars == <<vars, bootVars, timerVars>>

\* Mutations: the merge task is started before the connection, gain control
\* after it; the first delay comes after the registration of the callback.
BootOrderSplit ==
    <<"wait1", "setup", "udpq", "udptask", "input", "udp", "tcp", "agcq",
      "agctask", "msgbuf", "tcpq", "tcptask", "timer">>
BootOrderLateWait ==
    <<"setup", "input", "udp", "wait1", "tcp", "udpq", "udptask", "agcq",
      "agctask", "msgbuf", "tcpq", "tcptask", "timer">>

BootOrder ==
    <<"wait1", "setup", "input", "udp", "tcp", "udpq", "udptask", "agcq",
      "agctask", "msgbuf", "tcpq", "tcptask", "timer">>

Booted == step > Len(BootOrder)
At(s) == ~Booted /\ ~dead /\ BootOrder[step] = s

\* The task is blocked in a delay, deleted, or it owns the CPU.
InitBlocked == Booted \/ dead \/ At("wait1") \/ (At("tcp") /\ pc = "wait")

Exists(x) == x \in created

-----------------------------------------------------------------------------
(* heap_4.c: a block has a header of 8 bytes and is rounded up to 8.       *)

Block(bytes) == ((bytes + 8 + 7) \div 8) * 8

\* xTaskCreate allocates the stack, in words, and the TCB; xQueueCreate and
\* xMessageBufferCreate one block for the structure and its storage.
Task(words) == Block(4 * words) + Block(88)
Queue(length, item) == Block(84 + length * item)
MessageBuffer(bytes) == Block(36 + bytes + 1)

\* Mutation: the command task with the stack of 1200 words.
CostGenerous(s) ==
    CASE s = "input" -> Task(1024)
      [] s = "tcptask" -> Task(1200)
      [] s \in {"udptask", "agctask"} -> Task(10000)
      [] s \in {"udpq", "agcq", "tcpq"} -> Queue(200, 4)
      [] s = "msgbuf" -> MessageBuffer(1024)
      [] OTHER -> 0

\* What a start-up step takes from the heap.
Cost(s) ==
    CASE s \in {"input", "tcptask"} -> Task(1024)
      [] s \in {"udptask", "agctask"} -> Task(10000)
      [] s \in {"udpq", "agcq", "tcpq"} -> Queue(200, 4)
      [] s = "msgbuf" -> MessageBuffer(1024)
      [] OTHER -> 0

\* The end marker, the start-up task, then the idle and the timer task and the
\* timer queue, which vTaskStartScheduler creates.
HeapAtStart == 100000 - 8 - Task(1024) - Task(200) - Task(400) - Queue(10, 16)

BootInit ==
    /\ Init /\ TimerInit
    /\ step = 1 /\ dead = FALSE /\ created = {} /\ heap = HeapAtStart
    /\ video = FALSE /\ fault = FALSE /\ count = 1

-----------------------------------------------------------------------------
(* The start-up task.                                                      *)

\* A step is taken, with what it takes from the heap.
Advance ==
    /\ Cost(BootOrder[step]) <= heap
    /\ step' = step + 1
    /\ created' = created \cup {BootOrder[step]}
    /\ heap' = heap - Cost(BootOrder[step])
    /\ UNCHANGED <<vars, timerVars, dead, video, fault, count>>

\* vTaskDelete(NULL) after a failed step.
Delete ==
    /\ dead' = TRUE
    /\ UNCHANGED <<vars, timerVars, step, created, heap, video, fault, count>>

\* The delay of one second, and the creation of the queues and tasks.
Create ==
    /\ ~Booted /\ ~dead /\ ~halted
    /\ BootOrder[step] \notin {"setup", "udp", "tcp", "timer"}
    /\ Advance

\* xemac_add may fail.
lwip_network_setup == At("setup") /\ (Advance \/ Delete)

\* udp_new or add_sender may fail; otherwise the callback is registered.
udp_connection == At("udp") /\ (Advance \/ Delete)

\* The steps of TcpLink; without a PCB there is no delay.
tcp_connection_cl ==
    /\ At("tcp")
    /\ StartUp
    /\ IF pc' = "done" THEN step' = step + 1 ELSE UNCHANGED step
    /\ UNCHANGED <<timerVars, dead, created, heap, video, fault, count>>

\* Mutation: the loop around the start-up is not left by vTaskDelete(NULL).
StartTimersLoops ==
    /\ At("timer")
    /\ vInitialiseTimer
    /\ step' = IF xTimer' = 3 THEN 1 ELSE step
    /\ UNCHANGED <<vars, dead, created, heap, video, fault, count>>

\* The steps of TimerFlags, then vTaskDelete(NULL).
StartTimers ==
    /\ At("timer")
    /\ vInitialiseTimer
    /\ step' = IF xTimer' = 3 THEN step + 1 ELSE step
    /\ UNCHANGED <<vars, dead, created, heap, video, fault, count>>

network_init_task ==
    \/ Create \/ lwip_network_setup \/ udp_connection \/ tcp_connection_cl
    \/ StartTimers

-----------------------------------------------------------------------------
(* The input thread, of the lowest priority: it runs while the start-up    *)
(* task is blocked and no worker has work.  In each round of its loop it   *)
(* looks at the timer flags and handles at most one packet.                *)

Quiet == Exists("input") /\ InitBlocked /\ ~video /\ cmd = 0 /\ ~halted

\* udp_receive_callback, once udp_recv has registered it.
VideoArrives ==
    /\ Quiet /\ Poll /\ Exists("udp")
    /\ IF Exists("udpq") THEN video' = TRUE /\ UNCHANGED halted
                         ELSE halted' = TRUE /\ UNCHANGED video
    /\ UNCHANGED <<pc, pcb, tcp_pcb, errf, recvf, stat_tcp_con, err, wnd, cmd,
                   echoes, attempt, taskVars, fault, count>>

\* A segment of the command link, or an ARP packet of the peer.
LinkSegment == Quiet /\ Poll /\ Segment /\ UNCHANGED bootVars

\* The receive queue of the driver is empty.
NothingArrives == Quiet /\ Poll /\ UNCHANGED <<vars, bootVars>>

\* The tests of the flags; tcp_fasttmr changes nothing that is modelled.
TestFlags ==
    /\ Quiet
    /\ Begin("fast") \/ \E f \in Timers : Skip(f) \/ End(f)
    /\ UNCHANGED <<vars, bootVars>>

SlowTimer == Quiet /\ Begin("slow") /\ tcp_slowtmr /\ UNCHANGED bootVars

x1emacif_input_thread ==
    VideoArrives \/ LinkSegment \/ NothingArrives \/ TestFlags \/ SlowTimer

\* The interrupt of timer 2, at any time.
TimerTick == ~halted /\ prvTimerHandler /\ UNCHANGED <<vars, bootVars>>

-----------------------------------------------------------------------------
(* The workers.  The merge task (priority 2) runs while the start-up task  *)
(* is blocked, the command task (priority 3) shares the CPU with it.       *)

\* A packet of a frame; the last one uses eTaskGetState(xAutoGainControlTask)
\* and xQueueSend, and the frame is sent to the peer of the command link.
UdpWorks ==
    /\ video /\ Exists("udptask") /\ InitBlocked /\ ~halted
    /\ video' = FALSE
    /\ count' = IF count >= PacketsPerFrame THEN 1 ELSE count + 1
    /\ fault' = \/ fault
                \/ count >= PacketsPerFrame /\ ~({"agctask", "agcq"} \subseteq created)
    /\ IF count >= PacketsPerFrame THEN FrameQueued ELSE UNCHANGED vars
    /\ UNCHANGED <<timerVars, taskVars>>

\* A command; an amplitude command uses eTaskGetState(xAutoGainControlTask).
TcpWorks ==
    /\ Exists("tcptask") /\ ~halted
    /\ Execute
    /\ \E amplitude \in BOOLEAN :
           fault' = (fault \/ (amplitude /\ ~Exists("agctask")))
    /\ UNCHANGED <<timerVars, taskVars, video, count>>

\* vTaskDelete leaves the stack and the TCB of the start-up task to the idle
\* task, which shares the lowest priority with the input thread.
IdleFrees ==
    /\ Booted \/ dead
    /\ ~video /\ cmd = 0 /\ ~halted /\ ~Exists("freed")
    /\ created' = created \cup {"freed"}
    /\ heap' = heap + Task(1024)
    /\ UNCHANGED <<vars, timerVars, step, dead, video, fault, count>>

BootNext == network_init_task \/ x1emacif_input_thread \/ TimerTick
               \/ UdpWorks \/ TcpWorks \/ IdleFrees

BootSpec == BootInit /\ [][BootNext]_allVars

\* Both delays end, a task that owns the CPU makes progress, and the timer
\* runs.  Nothing is assumed of the peer, neither answers nor silence.
BootFairSpec ==
    /\ BootSpec
    /\ WF_allVars(network_init_task) /\ WF_allVars(UdpWorks) /\ WF_allVars(TcpWorks)
    /\ WF_allVars(x1emacif_input_thread) /\ WF_allVars(TimerTick)

-----------------------------------------------------------------------------
\* The merge and the command task never see a null gain control handle or
\* queue, although both are created after the merge task and without a lock.
WorkersSeeHandles == ~fault

\* queue.c asserts that a queue handle is not null.
QueuesExist == ~halted

\* That assertion can only fail in the two seconds tcp_connection_cl waits for
\* the connection: not before, and never once the start-up has ended.
AssertOnlyWhileConnecting == halted => At("tcp") /\ pc = "wait"

\* The heap lasts for the whole start-up: no step meets the hook of diag.c,
\* which stops the system.  560 bytes are left when the timers start.
HeapSuffices == \A i \in DOMAIN BootOrder :
                   step = i => Cost(BootOrder[i]) <= heap

\* The start-up ends: with every task in place, with the start-up task deleted
\* after a failure, or in the assertion.
BootEnds == <>(Booted \/ dead \/ halted)

\* From the step that starts the timers on both TCP timers run for ever, even
\* if every other tick is lost while a flag is lowered, under any traffic, and
\* whichever counters vInitialiseTimer finds running.
TimersRun ==
    \A l \in {"fastclear", "slowclear"} :
        [](step >= Len(BootOrder) => <>(loop = l))

\* A connection attempt that never ends is one whose SYN waits in the queue of
\* an ARP entry for an answer that does not come: with every other SYN the peer
\* answers, or the timers give up, also if video frames keep pushing the SYN
\* out of the queue.
AttemptResolved ==
    <>[](pcb = "syn" /\ ~halted) => <>[](syn = "arp" /\ ~arp)
=============================================================================

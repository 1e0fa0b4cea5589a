------------------------ MODULE VideoPipelineProofs ------------------------
(***************************************************************************)
(* Proofs about VideoPipeline, for any pool of buffers, any queue          *)
(* capacities and any number of packets per frame.                         *)
(***************************************************************************)
EXTENDS VideoPipeline, TLAPS

\* The pointers the tasks dereference are buffers, not null.
PtrOK ==
    /\ pc["udp"] # "recv" => count # 1
    /\ count # 1 => old \in Pbufs
    /\ pc["input"] = "demux" => buf["input"] \in Pbufs

TypeInv == TypeOK /\ PtrOK

\* What it means to be among the most urgent ready tasks.
LEMMA TopReady ==
    ASSUME NEW s, NEW t \in Top(s)
    PROVE  /\ t \in Tasks
           /\ s[t] = "ready"
           /\ \A u \in Tasks : s[u] = "ready" => Prio[u] <= Prio[t]
BY DEF Top

\* A released count stays a u8_t.
LEMMA ReleasedType ==
    ASSUME NEW r \in [Pbufs -> 0..RefMod - 1], NEW p
    PROVE  Released(r, p) \in [Pbufs -> 0..RefMod - 1]
<1>1. \A n \in 0..255 : (n - 1) % 256 \in 0..255
  OBVIOUS
<1> QED BY <1>1 DEF Released, RefMod

\* What xQueueReceive takes from a queue, and what it leaves.
LEMMA QueueHead ==
    ASSUME NEW q \in Seq(Pbufs), q # <<>>
    PROVE  Head(q) \in Pbufs /\ Tail(q) \in Seq(Pbufs)
OBVIOUS

\* The types hold at the start.
LEMMA TypeInit == Init => TypeInv
<1> SUFFICES ASSUME Init PROVE TypeInv
  OBVIOUS
<1> USE PipelineAssumption DEF Init, PipelineAssumption
<1>1. running \in Tasks
  BY TopReady
<1>2. st \in [Tasks -> {"ready", "blocked", "suspended"}]
  BY DEF Tasks
<1>3. /\ pc \in [Tasks -> Labels]
      /\ pc["input"] \in InputLabels /\ pc["agc"] \in AgcLabels
      /\ pc["udp"] \in UdpLabels /\ pc["tcp"] \in TcpLabels
  BY DEF Tasks, Labels, InputLabels, AgcLabels, UdpLabels, TcpLabels
<1>4. ref \in [Pbufs -> 0..RefMod - 1] /\ net \in [Pbufs -> Nat]
  BY DEF RefMod
<1>5. kind \in [Pbufs -> Kinds]
  BY DEF Kinds
<1>6. PtrOK
  BY DEF PtrOK, Tasks
<1>7. /\ rxq \in Seq(Pbufs) /\ udpq \in Seq(Pbufs)
      /\ agcq \in Seq(Pbufs) /\ tcpq \in Seq(Pbufs)
      /\ count \in 1..PacketsPerFrame
  OBVIOUS
<1>8. /\ buf \in [Tasks -> Pbufs \cup {NoPbuf}]
      /\ old \in Pbufs \cup {NoPbuf}
      /\ sent \subseteq Pbufs /\ pl \in {"agc", "manual"}
  OBVIOUS
<1>9. lent \in BOOLEAN
  OBVIOUS
<1> QED BY <1>1, <1>2, <1>3, <1>4, <1>5, <1>6, <1>7, <1>8, <1>9
        DEF TypeInv, TypeOK, TaskType, QueueType, PtrType, MemType

\* Every step of a task, interrupt or switch keeps the types.
LEMMA TypeNext == TypeInv /\ [Next]_vars => TypeInv'
<1> SUFFICES ASSUME TypeInv, [Next]_vars PROVE TypeInv'
  OBVIOUS
<1>0. TaskType /\ QueueType /\ PtrType /\ MemType /\ lent \in BOOLEAN /\ PtrOK
  BY DEF TypeInv, TypeOK
<1> USE <1>0, PipelineAssumption
    DEF PipelineAssumption, At, Goto, Tasks, taskVars, queueVars, mergeVars,
        memVars
<1> USE DEF Labels, InputLabels, AgcLabels, UdpLabels, TcpLabels
<1>1. CASE Preempt
  BY <1>1, TopReady DEF Preempt, TypeInv, TypeOK, TaskType,
         QueueType, PtrType, MemType, PtrOK, RefMod
<1>2. CASE InputPoll
  <2> USE <1>2 DEF InputPoll
  <2>1. TaskType'
    BY DEF TaskType
  <2>2. QueueType'
    BY QueueHead DEF QueueType, PtrType, PtrOK
  <2>3. PtrType'
    BY QueueHead DEF PtrType, PtrOK, QueueType
  <2>4. MemType'
    BY DEF MemType, PtrOK, RefMod
  <2>5. PtrOK'
    BY QueueHead DEF PtrOK, PtrType, QueueType, TaskType
  <2>6. (lent \in BOOLEAN)'
    OBVIOUS
  <2> QED BY <2>1, <2>2, <2>3, <2>4, <2>5, <2>6 DEF TypeInv, TypeOK
<1>3. CASE udp_receive_callback
  <2> USE <1>3 DEF udp_receive_callback
  <2>1. buf["input"] \in Pbufs
    BY DEF PtrOK
  <2>2. PtrType' /\ PtrOK'
    BY DEF PtrType, PtrOK, TaskType
  <2>3. (lent \in BOOLEAN)'
    OBVIOUS
  <2>4. CASE Len(udpq) < UdpQueueLen
    <3>1. udpq' = Append(udpq, buf["input"]) /\ ref' = ref
      BY <2>4
    <3>2. TaskType'
      BY <2>4 DEF TaskType, WakeDeferred
    <3>3. QueueType'
      BY <2>1, <3>1 DEF QueueType
    <3>4. MemType'
      BY <3>1 DEF MemType
    <3> QED BY <2>2, <2>3, <3>2, <3>3, <3>4 DEF TypeInv, TypeOK
  <2>5. CASE ~(Len(udpq) < UdpQueueLen)
    <3>1. udpq' = udpq /\ ref' = Released(ref, buf["input"])
      BY <2>5
    <3>2. TaskType'
      BY <2>5 DEF TaskType
    <3>3. QueueType'
      BY <3>1 DEF QueueType
    <3>4. MemType'
      BY <3>1, ReleasedType DEF MemType
    <3> QED BY <2>2, <2>3, <3>2, <3>3, <3>4 DEF TypeInv, TypeOK
  <2> QED BY <2>4, <2>5
<1>4. CASE recv_callback
  <2> USE <1>4 DEF recv_callback
  <2>1. buf["input"] \in Pbufs
    BY DEF PtrOK
  <2>2. PtrType' /\ PtrOK'
    BY DEF PtrType, PtrOK, TaskType
  <2>3. (lent \in BOOLEAN)'
    OBVIOUS
  <2>4. CASE Len(tcpq) < TcpQueueLen
    <3>1. tcpq' = Append(tcpq, buf["input"]) /\ ref' = ref
      BY <2>4
    <3>2. TaskType'
      BY <2>4 DEF TaskType, WakeDeferred, Commands
    <3>3. QueueType'
      BY <2>1, <3>1 DEF QueueType
    <3>4. MemType'
      BY <3>1 DEF MemType
    <3> QED BY <2>2, <2>3, <3>2, <3>3, <3>4 DEF TypeInv, TypeOK
  <2>5. CASE ~(Len(tcpq) < TcpQueueLen)
    <3>1. tcpq' = tcpq /\ ref' = Released(ref, buf["input"])
      BY <2>5
    <3>2. TaskType'
      BY <2>5 DEF TaskType
    <3>3. QueueType'
      BY <3>1 DEF QueueType
    <3>4. MemType'
      BY <3>1, ReleasedType DEF MemType
    <3> QED BY <2>2, <2>3, <3>2, <3>3, <3>4 DEF TypeInv, TypeOK
  <2> QED BY <2>4, <2>5
<1>5. CASE InputConsume
  BY <1>5, ReleasedType DEF InputConsume, TypeInv, TypeOK, TaskType,
         QueueType, PtrType, MemType, PtrOK, RefMod
<1>6. CASE InputUnwind
  BY <1>6 DEF InputUnwind, TypeInv, TypeOK, TaskType,
         QueueType, PtrType, MemType, PtrOK, RefMod
<1>7. CASE InputYield
  BY <1>7, TopReady DEF InputYield, TypeInv, TypeOK, TaskType,
         QueueType, PtrType, MemType, PtrOK, RefMod
<1>8. CASE UdpBlock
  BY <1>8, TopReady DEF UdpBlock, Block, TypeInv, TypeOK, TaskType,
         QueueType, PtrType, MemType, PtrOK, RefMod
<1>9. CASE UdpFirst
  BY <1>9, QueueHead, SMTT(30) DEF UdpFirst, TypeInv, TypeOK, TaskType,
         QueueType, PtrType, MemType, PtrOK, RefMod
<1>10. CASE UdpNext
  <2> USE <1>10 DEF UdpNext
  <2>1. TaskType'
    BY DEF TaskType
  <2>2. QueueType'
    BY QueueHead DEF QueueType, PtrType, PtrOK
  <2>3. PtrType'
    BY QueueHead DEF PtrType, PtrOK, QueueType
  <2>4. MemType'
    BY DEF MemType, PtrOK, RefMod
  <2>5. PtrOK'
    BY QueueHead DEF PtrOK, PtrType, QueueType, TaskType
  <2>6. (lent \in BOOLEAN)'
    OBVIOUS
  <2> QED BY <2>1, <2>2, <2>3, <2>4, <2>5, <2>6 DEF TypeInv, TypeOK
<1>11. CASE UdpMerge
  <2> USE <1>11 DEF UdpMerge, FrameComplete
  <2>1. TaskType'
    BY DEF TaskType
  <2>2. QueueType'
    BY DEF QueueType, PtrType, PtrOK
  <2>3. PtrType'
    BY DEF PtrType, PtrOK, QueueType
  <2>4. MemType'
    BY ReleasedType DEF MemType, PtrOK, RefMod
  <2>5. PtrOK'
    BY DEF PtrOK, PtrType, QueueType, TaskType
  <2>6. (lent \in BOOLEAN)'
    OBVIOUS
  <2> QED BY <2>1, <2>2, <2>3, <2>4, <2>5, <2>6 DEF TypeInv, TypeOK
<1>12. CASE UdpCheck
  BY <1>12 DEF UdpCheck, TypeInv, TypeOK, TaskType,
         QueueType, PtrType, MemType, PtrOK, RefMod
<1>13. CASE UdpPost
  <2> USE <1>13 DEF UdpPost
  <2>1. old \in Pbufs
    BY DEF PtrOK
  <2>2. PtrType' /\ PtrOK'
    BY DEF PtrType, PtrOK, TaskType
  <2>3. (lent \in BOOLEAN)'
    OBVIOUS
  <2>4. CASE Len(agcq) < AgcQueueLen
    <3>1. agcq' = Append(agcq, old) /\ ref' = ref
      BY <2>4
    <3>2. TaskType'
      BY <2>4 DEF TaskType, Wake
    <3>3. QueueType'
      BY <2>1, <3>1 DEF QueueType
    <3>4. MemType'
      BY <3>1 DEF MemType
    <3> QED BY <2>2, <2>3, <3>2, <3>3, <3>4 DEF TypeInv, TypeOK
  <2>5. CASE ~(Len(agcq) < AgcQueueLen)
    <3>1. agcq' = agcq /\ ref' = Released(ref, old)
      BY <2>5
    <3>2. TaskType'
      BY <2>5 DEF TaskType
    <3>3. QueueType'
      BY <3>1 DEF QueueType
    <3>4. MemType'
      BY <3>1, ReleasedType DEF MemType
    <3> QED BY <2>2, <2>3, <3>2, <3>3, <3>4 DEF TypeInv, TypeOK
  <2> QED BY <2>4, <2>5
<1>14. CASE UdpSend
  <2> USE <1>14 DEF UdpSend, udp_send
  <2>1. TaskType'
    BY DEF TaskType
  <2>2. QueueType'
    BY DEF QueueType, PtrType, PtrOK
  <2>3. PtrType'
    BY DEF PtrType, PtrOK, QueueType
  <2>4. MemType'
    BY DEF MemType, PtrOK, RefMod
  <2>5. PtrOK'
    BY DEF PtrOK, PtrType, QueueType, TaskType
  <2>6. (lent \in BOOLEAN)'
    OBVIOUS
  <2> QED BY <2>1, <2>2, <2>3, <2>4, <2>5, <2>6 DEF TypeInv, TypeOK
<1>15. CASE UdpRecheck
  <2> USE <1>15 DEF UdpRecheck, FrameDone
  <2>1. TaskType'
    BY DEF TaskType
  <2>2. QueueType'
    BY DEF QueueType, PtrType, PtrOK
  <2>3. PtrType'
    BY DEF PtrType, PtrOK, QueueType
  <2>4. MemType'
    BY DEF MemType, PtrOK, RefMod
  <2>5. PtrOK'
    BY DEF PtrOK, PtrType, QueueType, TaskType
  <2>6. (lent \in BOOLEAN)'
    OBVIOUS
  <2> QED BY <2>1, <2>2, <2>3, <2>4, <2>5, <2>6 DEF TypeInv, TypeOK
<1>16. CASE UdpSendOwn
  <2> USE <1>16 DEF UdpSendOwn, udp_send
  <2>1. TaskType'
    BY DEF TaskType
  <2>2. QueueType'
    BY DEF QueueType, PtrType, PtrOK
  <2>3. PtrType'
    BY DEF PtrType, PtrOK, QueueType
  <2>4. MemType'
    BY DEF MemType, PtrOK, RefMod
  <2>5. PtrOK'
    BY DEF PtrOK, PtrType, QueueType, TaskType
  <2>6. (lent \in BOOLEAN)'
    OBVIOUS
  <2> QED BY <2>1, <2>2, <2>3, <2>4, <2>5, <2>6 DEF TypeInv, TypeOK
<1>17. CASE UdpFree
  <2> USE <1>17 DEF UdpFree, FrameDone
  <2>1. TaskType'
    BY DEF TaskType
  <2>2. QueueType'
    BY DEF QueueType, PtrType, PtrOK
  <2>3. PtrType'
    BY DEF PtrType, PtrOK, QueueType
  <2>4. MemType'
    BY ReleasedType DEF MemType, PtrOK, RefMod
  <2>5. PtrOK'
    BY DEF PtrOK, PtrType, QueueType, TaskType
  <2>6. (lent \in BOOLEAN)'
    OBVIOUS
  <2> QED BY <2>1, <2>2, <2>3, <2>4, <2>5, <2>6 DEF TypeInv, TypeOK
<1>18. CASE AgcBlock
  BY <1>18, TopReady DEF AgcBlock, Block, TypeInv, TypeOK, TaskType,
         QueueType, PtrType, MemType, PtrOK, RefMod
<1>19. CASE AgcTake
  <2> USE <1>19 DEF AgcTake
  <2>1. TaskType'
    BY DEF TaskType
  <2>2. QueueType'
    BY QueueHead DEF QueueType, PtrType, PtrOK
  <2>3. PtrType'
    BY QueueHead DEF PtrType, PtrOK, QueueType
  <2>4. MemType'
    BY DEF MemType, PtrOK, RefMod
  <2>5. PtrOK'
    BY QueueHead DEF PtrOK, PtrType, QueueType, TaskType
  <2>6. (lent \in BOOLEAN)'
    OBVIOUS
  <2> QED BY <2>1, <2>2, <2>3, <2>4, <2>5, <2>6 DEF TypeInv, TypeOK
<1>20. CASE AgcCompute
  BY <1>20 DEF AgcCompute, TypeInv, TypeOK, TaskType,
         QueueType, PtrType, MemType, PtrOK, RefMod
<1>21. CASE AgcFree
  BY <1>21, ReleasedType DEF AgcFree, TypeInv, TypeOK, TaskType,
         QueueType, PtrType, MemType, PtrOK, RefMod
<1>22. CASE TcpBlock
  BY <1>22, TopReady, ZenonT(30) DEF TcpBlock, Block, TypeInv, TypeOK, TaskType,
         QueueType, PtrType, MemType, PtrOK, RefMod
<1>23. CASE TcpTake
  <2> USE <1>23 DEF TcpTake
  <2>1. TaskType'
    BY DEF TaskType
  <2>2. QueueType'
    BY QueueHead DEF QueueType, PtrType, PtrOK
  <2>3. PtrType'
    BY QueueHead DEF PtrType, PtrOK, QueueType
  <2>4. MemType'
    BY DEF MemType, PtrOK, RefMod
  <2>5. PtrOK'
    BY QueueHead DEF PtrOK, PtrType, QueueType, TaskType
  <2>6. (lent \in BOOLEAN)'
    OBVIOUS
  <2> QED BY <2>1, <2>2, <2>3, <2>4, <2>5, <2>6 DEF TypeInv, TypeOK
<1>24. CASE TcpParse
  BY <1>24 DEF TcpParse, TypeInv, TypeOK, TaskType,
         QueueType, PtrType, MemType, PtrOK, RefMod
<1>25. CASE TcpEcho
  BY <1>25 DEF TcpEcho, AfterEcho, TypeInv, TypeOK, TaskType,
         QueueType, PtrType, MemType, PtrOK, RefMod
<1>26. CASE TcpResume
  BY <1>26, SMTT(30) DEF TcpResume, Wake, TypeInv, TypeOK, TaskType,
         QueueType, PtrType, MemType, PtrOK, RefMod
<1>27. CASE TcpNominal
  BY <1>27 DEF TcpNominal, TypeInv, TypeOK, TaskType,
         QueueType, PtrType, MemType, PtrOK, RefMod
<1>28. CASE TcpSuspend
  BY <1>28 DEF TcpSuspend, TypeInv, TypeOK, TaskType,
         QueueType, PtrType, MemType, PtrOK, RefMod
<1>29. CASE TcpManual
  BY <1>29 DEF TcpManual, TypeInv, TypeOK, TaskType,
         QueueType, PtrType, MemType, PtrOK, RefMod
<1>30. CASE TcpFree
  BY <1>30, ReleasedType DEF TcpFree, TypeInv, TypeOK, TaskType,
         QueueType, PtrType, MemType, PtrOK, RefMod
<1>31. ASSUME NEW p \in Pbufs, NEW k \in Kinds, NicReceive(p, k)
      PROVE  TypeInv'
  <2> USE <1>31 DEF NicReceive
  <2>1. TaskType'
    BY DEF TaskType
  <2>2. QueueType'
    BY DEF QueueType, PtrType, PtrOK
  <2>3. PtrType'
    BY DEF PtrType, PtrOK, QueueType
  <2>4. MemType'
    BY DEF MemType, PtrOK, RefMod
  <2>5. PtrOK'
    BY DEF PtrOK, PtrType, QueueType, TaskType
  <2>6. (lent \in BOOLEAN)'
    OBVIOUS
  <2> QED BY <2>1, <2>2, <2>3, <2>4, <2>5, <2>6 DEF TypeInv, TypeOK
<1>32. ASSUME NEW p \in Pbufs, TxDone(p)
      PROVE  TypeInv'
  <2> USE <1>32 DEF TxDone
  <2>1. TaskType'
    BY DEF TaskType
  <2>2. QueueType'
    BY DEF QueueType, PtrType, PtrOK
  <2>3. PtrType'
    BY DEF PtrType, PtrOK, QueueType
  <2>4. MemType'
    BY ReleasedType DEF MemType, PtrOK, RefMod
  <2>5. PtrOK'
    BY DEF PtrOK, PtrType, QueueType, TaskType
  <2>6. (lent \in BOOLEAN)'
    OBVIOUS
  <2> QED BY <2>1, <2>2, <2>3, <2>4, <2>5, <2>6 DEF TypeInv, TypeOK
<1>33. CASE UNCHANGED vars
  BY <1>33, SMTT(30) DEF vars, TypeInv, TypeOK, TaskType, QueueType, PtrType, MemType, PtrOK
<1> QED BY <1>1, <1>2, <1>3, <1>4, <1>5, <1>6, <1>7, <1>8, <1>9, <1>10, <1>11, <1>12, <1>13, <1>14, <1>15, <1>16, <1>17, <1>18, <1>19, <1>20, <1>21, <1>22, <1>23, <1>24, <1>25, <1>26, <1>27, <1>28, <1>29, <1>30, <1>31, <1>32, <1>33 DEF Next, Input, Udp, Agc, Tcp

\* TypeOK is an invariant for every pool, every queue length and every frame
\* length: the tasks' pointers are buffers whenever they are used.
THEOREM TypeCorrect == Spec => []TypeOK
<1>1. TypeInv => TypeOK
  BY DEF TypeInv
<1> QED BY <1>1, TypeInit, TypeNext, PTL DEF Spec

-----------------------------------------------------------------------------
(* The hand-over between the tasks.                                        *)

\* Who may run, from the priorities of main.h.
LEMMA TopIs ==
    ASSUME NEW s
    PROVE  /\ Top(s) \subseteq Tasks
           /\ "input" \in Top(s) <=> /\ s["input"] = "ready"
                                     /\ s["agc"] # "ready"
                                     /\ s["udp"] # "ready"
                                     /\ s["tcp"] # "ready"
           /\ "agc" \in Top(s) <=> /\ s["agc"] = "ready"
                                   /\ s["udp"] # "ready"
                                   /\ s["tcp"] # "ready"
           /\ "udp" \in Top(s) <=> s["udp"] = "ready" /\ s["tcp"] # "ready"
           /\ "tcp" \in Top(s) <=> s["tcp"] = "ready"
BY DEF Top, Prio, Tasks

\* A queue of one entry is empty after a receive.
LEMMA TakeLast ==
    ASSUME NEW q \in Seq(Pbufs), q # <<>>, Len(q) <= 1
    PROVE  Tail(q) = <<>>
OBVIOUS

\* A queue with its first entry.
LEMMA AppendFirst ==
    ASSUME NEW p \in Pbufs
    PROVE  /\ Append(<<>>, p) = <<p>>
           /\ <<p>> # <<>>
           /\ Len(<<p>>) = 1
OBVIOUS

\* The gain part of the inductive invariant: GainAuthority at every label of
\* the command task.
GainInv ==
    /\ pc["tcp"] \notin {"nominal", "manual"}
          => (st["agc"] = "suspended" <=> pl = "manual")
    /\ pc["tcp"] = "nominal" => st["agc"] # "suspended"
    /\ pc["tcp"] = "manual" => st["agc"] = "suspended"

HandOver == OneInFlight /\ GainInv

\* The hand-over invariant holds at the start.
LEMMA HandOverInit == Init => HandOver
<1> SUFFICES ASSUME Init PROVE HandOver
  OBVIOUS
<1>1. running = "tcp"
  BY TopIs DEF Init, Tasks
<1> QED BY <1>1, TopIs DEF Init, HandOver, OneInFlight, GainInv, Tasks,
        Workers, At, Idle, UdpActive, AgcActive, TcpActive

\* Every step keeps the hand-over.
LEMMA HandOverNext == TypeInv /\ HandOver /\ [Next]_vars => HandOver'
<1> SUFFICES ASSUME TypeInv, HandOver, [Next]_vars PROVE HandOver'
  OBVIOUS
<1>0. TaskType /\ QueueType /\ PtrType /\ lent \in BOOLEAN /\ PtrOK
  BY DEF TypeInv, TypeOK
<1> USE <1>0, PipelineAssumption
    DEF PipelineAssumption, TaskType, QueueType, PtrType, PtrOK, Labels,
        InputLabels, AgcLabels, UdpLabels, TcpLabels, At, Goto, Tasks,
        taskVars, queueVars, mergeVars, memVars, HandOver, OneInFlight,
        GainInv, Workers, Idle, UdpActive, AgcActive, TcpActive
<1>1. CASE Preempt
  BY <1>1, TopIs DEF Preempt
<1>2. CASE InputPoll
  BY <1>2 DEF InputPoll
<1>3. CASE udp_receive_callback
  <2>1. /\ udpq = <<>> /\ agcq = <<>> /\ tcpq = <<>>
        /\ Idle /\ Len(udpq) < UdpQueueLen /\ buf["input"] \in Pbufs
    BY <1>3 DEF udp_receive_callback
  <2>2. /\ udpq' = <<buf["input"]>>
        /\ st' = IF st["udp"] = "blocked" THEN [st EXCEPT !["udp"] = "ready"]
                                        ELSE st
        /\ running' = running
    BY <1>3, <2>1, AppendFirst DEF udp_receive_callback, WakeDeferred
  <2>3. st["udp"] = "blocked"
    BY <2>1
  <2> QED BY <1>3, <2>1, <2>2, <2>3, AppendFirst DEF udp_receive_callback
<1>4. CASE recv_callback
  <2>1. /\ udpq = <<>> /\ agcq = <<>> /\ tcpq = <<>>
        /\ Idle /\ Len(tcpq) < TcpQueueLen /\ buf["input"] \in Pbufs
    BY <1>4 DEF recv_callback
  <2>2. /\ tcpq' = <<buf["input"]>>
        /\ st' = IF st["tcp"] = "blocked" THEN [st EXCEPT !["tcp"] = "ready"]
                                        ELSE st
        /\ running' = running
    BY <1>4, <2>1, AppendFirst DEF recv_callback, WakeDeferred
  <2>3. st["tcp"] = "blocked"
    BY <2>1
  <2> QED BY <1>4, <2>1, <2>2, <2>3, AppendFirst DEF recv_callback
<1>5. CASE InputConsume
  BY <1>5 DEF InputConsume
<1>6. CASE InputUnwind
  BY <1>6 DEF InputUnwind
<1>7. CASE InputYield
  BY <1>7, TopIs DEF InputYield
<1>8. CASE UdpBlock
  BY <1>8, TopIs, ZenonT(30) DEF UdpBlock, Block
<1>9. CASE UdpFirst
  BY <1>9, TakeLast DEF UdpFirst
<1>10. CASE UdpNext
  BY <1>10, TakeLast DEF UdpNext
<1>11. CASE UdpMerge
  BY <1>11 DEF UdpMerge, FrameComplete
<1>12. CASE UdpCheck
  BY <1>12 DEF UdpCheck
<1>13. CASE UdpPost
  <2>1. /\ agcq = <<>> /\ Len(agcq) < AgcQueueLen
        /\ pc["agc"] = "recv" /\ pc["tcp"] = "recv" /\ tcpq = <<>>
        /\ st["udp"] = "ready" /\ old \in Pbufs
    BY <1>13 DEF UdpPost
  <2>2. agcq' = <<old>> /\ lent' = TRUE /\ old' = old
    BY <1>13, <2>1, AppendFirst DEF UdpPost
  <2>3. st' = [st EXCEPT !["agc"] = "ready"] /\ running' = "udp"
    BY <1>13, <2>1 DEF UdpPost, Wake, Prio
  <2>4. running \in Top(st)
    BY <1>13 DEF UdpPost
  <2>5. /\ pc' = [pc EXCEPT !["udp"] = "send"]
        /\ udpq' = <<>> /\ tcpq' = <<>> /\ agcq' # <<>> /\ Len(agcq') = 1
        /\ pl' = pl
    BY <1>13, <2>1, <2>2, AppendFirst DEF UdpPost
  <2>6. running' \in Top(st)'
    BY <1>13, <2>1, <2>3, <2>4, TopIs DEF UdpPost
  <2>7. OneInFlight'
    BY <1>13, <2>1, <2>2, <2>3, <2>5, <2>6 DEF UdpPost
  <2>8. GainInv'
    BY <1>13, <2>1, <2>3, <2>5 DEF UdpPost
  <2> QED BY <2>7, <2>8
<1>14. CASE UdpSend
  <2>1. lent = TRUE /\ agcq # <<>> /\ st["agc"] = "ready"
    BY <1>14, AppendFirst DEF UdpSend
  <2> QED BY <1>14, <2>1 DEF UdpSend
<1>15. CASE UdpRecheck
  BY <1>15 DEF UdpRecheck, FrameDone
<1>16. CASE UdpSendOwn
  BY <1>16 DEF UdpSendOwn, udp_send
<1>17. CASE UdpFree
  BY <1>17 DEF UdpFree, FrameDone
<1>18. CASE AgcBlock
  BY <1>18, TopIs DEF AgcBlock, Block
<1>19. CASE AgcTake
  BY <1>19, TakeLast, TopIs DEF AgcTake
<1>20. CASE AgcCompute
  BY <1>20 DEF AgcCompute
<1>21. CASE AgcFree
  BY <1>21 DEF AgcFree
<1>22. CASE TcpBlock
  BY <1>22, TopIs DEF TcpBlock, Block
<1>23. CASE TcpTake
  BY <1>23, TakeLast DEF TcpTake
<1>24. CASE TcpParse
  BY <1>24 DEF TcpParse
<1>25. CASE TcpEcho
  BY <1>25 DEF TcpEcho, AfterEcho
<1>26. CASE TcpResume
  BY <1>26, TopIs DEF TcpResume, Wake, Prio
<1>27. CASE TcpNominal
  BY <1>27 DEF TcpNominal
<1>28. CASE TcpSuspend
  BY <1>28, TopIs, ZenonT(30) DEF TcpSuspend
<1>29. CASE TcpManual
  BY <1>29 DEF TcpManual
<1>30. CASE TcpFree
  BY <1>30 DEF TcpFree
<1>31. ASSUME NEW p \in Pbufs, NEW k \in Kinds, NicReceive(p, k)
      PROVE  HandOver'
  BY <1>31 DEF NicReceive
<1>32. ASSUME NEW p \in Pbufs, TxDone(p)
      PROVE  HandOver'
  BY <1>32 DEF TxDone
<1>33. CASE UNCHANGED vars
  BY <1>33 DEF vars
<1> QED BY <1>1, <1>2, <1>3, <1>4, <1>5, <1>6, <1>7, <1>8, <1>9, <1>10, <1>11, <1>12, <1>13, <1>14, <1>15, <1>16, <1>17, <1>18, <1>19, <1>20, <1>21, <1>22, <1>23, <1>24, <1>25, <1>26, <1>27, <1>28, <1>29, <1>30, <1>31, <1>32, <1>33 DEF Next, Input, Udp, Agc, Tcp

\* At any time at most one packet is between the input thread and the
\* workers, and gain control never has a frame that is not sent unless the
\* merge task is about to send it.
THEOREM HandOverCorrect == Spec => [](OneInFlight /\ GainInv)
<1>1. Init => TypeInv /\ HandOver
  BY TypeInit, HandOverInit
<1>2. TypeInv /\ HandOver /\ [Next]_vars => TypeInv' /\ HandOver'
  BY TypeNext, HandOverNext
<1>3. HandOver => OneInFlight /\ GainInv
  BY DEF HandOver
<1> QED BY <1>1, <1>2, <1>3, PTL DEF Spec

\* No "queue full" branch is reachable, for every positive queue length: the
\* frame that main.c:119 would free and main.c:121 would send is never freed.
THEOREM QueuesNeverFill == Spec => []QueuesShallow
<1>1. Spec => [](TypeInv /\ HandOver)
  BY TypeInit, TypeNext, HandOverInit, HandOverNext, PTL DEF Spec
<1>2. TypeInv /\ HandOver => QueuesShallow
  BY DEF TypeInv, TypeOK, QueueType, HandOver, OneInFlight, QueuesShallow,
         TcpActive, UdpActive
<1> QED BY <1>1, <1>2, PTL

\* vTaskSuspend in parse_msg never stops gain control in the middle of a
\* frame or with a frame in its queue.
THEOREM SuspendSafe == Spec => []SuspendQuiescent
<1>1. OneInFlight /\ GainInv => SuspendQuiescent
  BY DEF OneInFlight, SuspendQuiescent, AgcActive
<1> QED BY <1>1, HandOverCorrect, PTL

\* A frame is either handed to gain control or freed by the merge task, never
\* both, although the decision is taken twice (main.c:115 and main.c:123).
THEOREM OneVerdict == Spec => []VerdictsAgree
<1>1. OneInFlight /\ GainInv => VerdictsAgree
  BY DEF OneInFlight, VerdictsAgree
<1> QED BY <1>1, HandOverCorrect, PTL

\* The operator's gain stays in force exactly while gain control is suspended.
THEOREM OperatorGainHolds == Spec => []GainAuthority
<1>1. OneInFlight /\ GainInv => GainAuthority
  BY DEF GainInv, GainAuthority
<1> QED BY <1>1, HandOverCorrect, PTL

=============================================================================

------------------------ MODULE PipelineRelayProofs ------------------------
(***************************************************************************)
(* Who owns a buffer, and the steps of Relay: proofs for any pool of       *)
(* buffers, any queue capacities and any number of packets per frame.      *)
(*                                                                         *)
(* RefExact is not inductive.  A reference count is right only because a   *)
(* buffer moves between places that exclude each other, and sending a      *)
(* frame in place is harmless only because the network layers hold no      *)
(* reference to it yet.  The invariant below says where each buffer is     *)
(* (Account), when the tasks' pointers are set (Shape) and which buffers   *)
(* have been sent (Marks).                                                 *)
(***************************************************************************)
EXTENDS PipelineRelay, VideoPipelineProofs, FiniteSetTheorems,
        SequenceTheorems

\* The places that are responsible for freeing a buffer.
Places == {"input", "agc", "udp", "tcp", "rxq", "udpq", "agcq", "tcpq", "old"}

Holds(l, p) ==
    \/ l = "rxq" /\ \E i \in 1 .. Len(rxq) : rxq[i] = p
    \/ l = "udpq" /\ udpq = <<p>>
    \/ l = "agcq" /\ agcq = <<p>>
    \/ l = "tcpq" /\ tcpq = <<p>>
    \/ l \in Tasks /\ buf[l] = p
    \/ l = "old" /\ old = p /\ ~lent

Held(p) == \E l \in Places : Holds(l, p)

\* One place at most, and the reference count says whether there is one.
Account ==
    \A p \in Pbufs :
        /\ \A l, m \in Places : Holds(l, p) /\ Holds(m, p) => l = m
        /\ Held(p) => ref[p] = net[p] + 1
        /\ ~Held(p) => ref[p] = net[p]

\* When the pointers are set, and that the driver queues a buffer once.
Shape ==
    /\ buf["input"] # NoPbuf <=> pc["input"] = "demux"
    /\ buf["udp"] # NoPbuf <=> pc["udp"] = "merge"
    /\ buf["agc"] # NoPbuf <=> pc["agc"] # "recv"
    /\ buf["tcp"] # NoPbuf <=> pc["tcp"] # "recv"
    /\ old # NoPbuf <=> count # 1
    /\ \A i, j \in 1 .. Len(rxq) : rxq[i] = rxq[j] => i = j

\* Which buffers have been sent: not those on their way to the merge task, not
\* the frame before udp_send, but all that gain control gets.
Marks ==
    /\ \A p \in Pbufs : net[p] <= 1 /\ (net[p] = 1 => p \in sent)
    /\ \A p \in sent : ~Holds("rxq", p) /\ ~Holds("udpq", p) /\ ~Holds("input", p)
    /\ old \in sent <=> (pc["udp"] = "free" \/ (pc["udp"] = "recheck" /\ lent))
    /\ \A p \in Pbufs : agcq = <<p>> /\ pc["udp"] # "send" => p \in sent
    /\ pc["agc"] # "recv" => buf["agc"] \in sent

Ownership == Account /\ Shape /\ Marks

-----------------------------------------------------------------------------
(* What a step does to the places, and that it keeps the account.          *)

\* pbuf_free drops one reference; the u8_t does not wrap.
LEMMA ReleasedOne ==
    ASSUME MemType, NEW b \in Pbufs, ref[b] > 0
    PROVE  Released(ref, b) = [ref EXCEPT ![b] = ref[b] - 1]
<1>1. ref[b] \in 1 .. 255
  BY DEF MemType, RefMod
<1>2. (ref[b] - 1) % 256 = ref[b] - 1
  BY <1>1
<1> QED
  BY <1>2 DEF Released, RefMod

\* No buffer changes its place.
LEMMA AccountKept ==
    ASSUME Account, UNCHANGED <<ref, net>>,
           \A p \in Pbufs, x \in Places : Holds(x, p)' <=> Holds(x, p)
    PROVE  Account'
BY DEF Account, Held

\* Buffer b goes from one place to another.
LEMMA AccountMoved ==
    ASSUME Account, UNCHANGED <<ref, net>>,
           NEW b \in Pbufs, NEW l \in Places, NEW m \in Places, Holds(l, b),
           \A p \in Pbufs, x \in Places :
               Holds(x, p)' <=> IF p = b THEN x = m ELSE Holds(x, p)
    PROVE  Account'
BY DEF Account, Held

\* The place that holds b frees it.
LEMMA AccountFreed ==
    ASSUME MemType, Account, net' = net,
           NEW b \in Pbufs, NEW l \in Places, Holds(l, b),
           ref' = Released(ref, b),
           \A p \in Pbufs, x \in Places :
               Holds(x, p)' <=> p # b /\ Holds(x, p)
    PROVE  Account'
<1>1. net[b] \in Nat /\ ref[b] = net[b] + 1
  BY DEF Account, Held, MemType
<1>2. ref' = [ref EXCEPT ![b] = ref[b] - 1]
  BY <1>1, ReleasedOne
<1> QED
  BY <1>1, <1>2 DEF Account, Held, MemType

\* A step that moves no buffer.
LEMMA HoldsKept ==
    ASSUME UNCHANGED <<buf, rxq, udpq, agcq, tcpq, old, lent>>
    PROVE  \A p, x : Holds(x, p)' <=> Holds(x, p)
BY DEF Holds

\* udp_send of a frame that has not been sent yet: the network layers take a
\* reference or none.
LEMMA SendCounted ==
    ASSUME MemType, Account, Marks, NEW b \in Pbufs, b \notin sent, udp_send(b),
           UNCHANGED <<buf, rxq, udpq, agcq, tcpq, old, lent>>,
           NEW l \in Places, Holds(l, b)
    PROVE  /\ Account'
           /\ sent' = sent \cup {b}
           /\ \A p \in Pbufs : net'[p] <= 1 /\ (net'[p] = 1 => p \in sent')
<1>1. net[b] = 0 /\ ref[b] = 1
  BY DEF Marks, MemType, Account, Held
<1>2. sent' = sent \cup {b}
  BY DEF udp_send
<1>3. \A p, x : Holds(x, p)' <=> Holds(x, p)
  BY HoldsKept
<1>4. CASE UNCHANGED <<net, ref>>
  BY <1>2, <1>3, <1>4, AccountKept DEF Marks
<1>5. CASE /\ net' = [net EXCEPT ![b] = @ + 1]
           /\ ref' = [ref EXCEPT ![b] = (@ + 1) % RefMod]
  <2>1. net' = [net EXCEPT ![b] = 1] /\ ref' = [ref EXCEPT ![b] = 2]
    BY <1>1, <1>5 DEF RefMod
  <2>2. Account'
    BY <1>1, <1>3, <2>1 DEF Account, Held, MemType
  <2> QED
    BY <1>2, <2>1, <2>2 DEF Marks, MemType
<1> QED
  BY <1>2, <1>4, <1>5 DEF udp_send

\* A queue of one buffer.
LEMMA QueueOne ==
    ASSUME NEW s \in Seq(Pbufs), s # <<>>, Len(s) <= 1
    PROVE  s = <<Head(s)>> /\ Tail(s) = <<>> /\ Head(s) \in Pbufs
<1>1. Head(s) = s[1] /\ Head(s) \in Pbufs
  BY HeadTailProperties
<1>2. Len(s) = 1
  BY EmptySeq
<1>3. Tail(s) = <<>>
  BY TakeLast
<1>4. <<Head(s)>> \in Seq(Pbufs) /\ Len(<<Head(s)>>) = 1 /\ <<Head(s)>>[1] = Head(s)
  BY <1>1
<1> QED
  BY <1>1, <1>2, <1>3, <1>4, SeqEqual

\* Sequences of one entry are equal if their entries are.
LEMMA SingleIs ==
    /\ \A a, b : <<a>> = <<b>> <=> a = b
    /\ \A a : <<>> # <<a>>
OBVIOUS

\* The driver's queue loses its first buffer.
LEMMA RxTail ==
    ASSUME NEW s \in Seq(Pbufs), s # <<>>,
           \A i, j \in 1 .. Len(s) : s[i] = s[j] => i = j
    PROVE  /\ \A i, j \in 1 .. Len(Tail(s)) : Tail(s)[i] = Tail(s)[j] => i = j
           /\ \E i \in 1 .. Len(s) : s[i] = Head(s)
           /\ \A p \in Pbufs : (\E i \in 1 .. Len(Tail(s)) : Tail(s)[i] = p)
                 <=> p # Head(s) /\ \E i \in 1 .. Len(s) : s[i] = p
<1>1. /\ Len(s) \in Nat /\ Len(s) >= 1 /\ Len(Tail(s)) = Len(s) - 1
      /\ \A i \in 1 .. Len(s) - 1 : Tail(s)[i] = s[i + 1]
      /\ Head(s) = s[1]
  OBVIOUS
<1>2. \A i \in 1 .. Len(s) - 1 : s[i + 1] # s[1]
  BY <1>1
<1>3. \A p \in Pbufs : p # s[1] =>
          \A i \in 1 .. Len(s) : s[i] = p => i - 1 \in 1 .. Len(s) - 1 /\ Tail(s)[i - 1] = p
  BY <1>1
<1>4. \A i, j \in 1 .. Len(Tail(s)) : Tail(s)[i] = Tail(s)[j] => i = j
  BY <1>1
<1>5. ASSUME NEW p \in Pbufs
      PROVE  (\E i \in 1 .. Len(Tail(s)) : Tail(s)[i] = p)
                 <=> p # Head(s) /\ \E i \in 1 .. Len(s) : s[i] = p
  <2>1. ASSUME NEW i \in 1 .. Len(Tail(s)), Tail(s)[i] = p
        PROVE  p # Head(s) /\ \E k \in 1 .. Len(s) : s[k] = p
    BY <1>1, <1>2, <2>1
  <2>2. ASSUME p # Head(s), NEW i \in 1 .. Len(s), s[i] = p
        PROVE  \E k \in 1 .. Len(Tail(s)) : Tail(s)[k] = p
    BY <1>1, <1>3, <2>2
  <2> QED
    BY <2>1, <2>2
<1>6. \E i \in 1 .. Len(s) : s[i] = Head(s)
  <2>1. 1 \in 1 .. Len(s) /\ s[1] = Head(s)
    BY <1>1
  <2> QED
    BY <2>1
<1> QED
  BY <1>4, <1>5, <1>6, Zenon

\* The receive interrupt appends a buffer that was not queued.
LEMMA RxAppend ==
    ASSUME NEW s \in Seq(Pbufs), NEW b \in Pbufs,
           ~\E i \in 1 .. Len(s) : s[i] = b,
           \A i, j \in 1 .. Len(s) : s[i] = s[j] => i = j
    PROVE  /\ \A i, j \in 1 .. Len(Append(s, b)) :
                 Append(s, b)[i] = Append(s, b)[j] => i = j
           /\ \A p \in Pbufs : (\E i \in 1 .. Len(Append(s, b)) : Append(s, b)[i] = p)
                 <=> p = b \/ \E i \in 1 .. Len(s) : s[i] = p
<1>1. /\ Len(s) \in Nat /\ Len(Append(s, b)) = Len(s) + 1
      /\ \A i \in 1 .. Len(s) : Append(s, b)[i] = s[i]
      /\ Append(s, b)[Len(s) + 1] = b
      /\ \A i \in 1 .. Len(s) + 1 : i \in 1 .. Len(s) \/ i = Len(s) + 1
      /\ Len(s) + 1 \in 1 .. Len(s) + 1
      /\ \A i \in 1 .. Len(s) : i \in 1 .. Len(s) + 1
  OBVIOUS
<1> QED
  BY <1>1

\* What the queue of the driver holds, now and after the step.
LEMMA HoldsRx ==
    \A p : /\ Holds("rxq", p) <=> \E i \in 1 .. Len(rxq) : rxq[i] = p
           /\ Holds("rxq", p)' <=> \E i \in 1 .. Len(rxq') : rxq'[i] = p
BY DEF Holds, Tasks

\* Nobody holds a buffer at the start.
LEMMA OwnershipInit == Init => Ownership
<1> SUFFICES ASSUME Init PROVE Ownership
  OBVIOUS
<1> USE PipelineAssumption DEF PipelineAssumption, Init, Tasks
<1>1. \A p \in Pbufs, x \in Places : ~Holds(x, p)
  BY SingleIs DEF Holds
<1>2. Account
  BY <1>1 DEF Account, Held
<1>3. Shape
  BY DEF Shape
<1>4. Marks
  BY <1>1, SingleIs DEF Marks, Places
<1> QED
  BY <1>2, <1>3, <1>4 DEF Ownership

\* Steps that touch neither buffers nor counts: where the pointers are set and
\* what has been sent is a matter of the labels.
LEMMA OwnershipQuiet ==
    ASSUME Ownership, UNCHANGED <<rxq, udpq, agcq, tcpq, buf, old, lent, count>>,
           UNCHANGED <<ref, net, sent>>,
           pc["input"] = "demux" <=> pc'["input"] = "demux",
           pc["udp"] = "merge" <=> pc'["udp"] = "merge",
           pc["agc"] = "recv" <=> pc'["agc"] = "recv",
           pc["tcp"] = "recv" <=> pc'["tcp"] = "recv",
           pc["udp"] = "send" <=> pc'["udp"] = "send",
           pc["udp"] = "free" <=> pc'["udp"] = "free",
           pc["udp"] = "recheck" /\ lent <=> pc'["udp"] = "recheck" /\ lent
    PROVE  Ownership'
<1>1. \A p, x : Holds(x, p)' <=> Holds(x, p)
  BY HoldsKept
<1>2. Account'
  BY <1>1, AccountKept DEF Ownership
<1>3. Shape'
  BY DEF Ownership, Shape
<1>4. Marks'
  BY <1>1 DEF Ownership, Marks
<1> QED
  BY <1>2, <1>3, <1>4 DEF Ownership

\* Every step of the pipeline keeps the ownership of the buffers.
LEMMA OwnershipNext ==
    TypeInv /\ HandOver /\ Ownership /\ [Next]_vars => Ownership'
<1> SUFFICES ASSUME TypeInv, HandOver, Ownership, [Next]_vars
             PROVE  Ownership'
  OBVIOUS
<1>0. /\ TaskType /\ QueueType /\ PtrType /\ MemType /\ lent \in BOOLEAN /\ PtrOK
      /\ OneInFlight /\ Account /\ Shape /\ Marks
  BY DEF TypeInv, TypeOK, HandOver, Ownership
<1> USE <1>0, PipelineAssumption
    DEF PipelineAssumption, At, Goto, taskVars, queueVars, mergeVars, memVars
<1>1. CASE Preempt
  BY <1>1, OwnershipQuiet DEF Preempt
<1>2. CASE InputPoll
  <2> USE <1>2 DEF InputPoll
  <2>1. CASE rxq = <<>>
    BY <2>1, OwnershipQuiet DEF TaskType, Tasks
  <2>2. CASE rxq # <<>>
    <3> DEFINE b == Head(rxq)
    <3>1. b \in Pbufs /\ buf["input"] = NoPbuf
      BY <2>2, QueueHead DEF QueueType, Shape
    <3>2. /\ buf' = [buf EXCEPT !["input"] = b] /\ rxq' = Tail(rxq)
          /\ pc' = [pc EXCEPT !["input"] = "demux"]
          /\ UNCHANGED <<udpq, agcq, tcpq, old, lent, count, ref, net, sent>>
      BY <2>2
    <3>3. Holds("rxq", b) /\ \A p \in Pbufs : Holds("rxq", p)' <=> p # b /\ Holds("rxq", p)
      <4>1. /\ \E i \in 1 .. Len(rxq) : rxq[i] = b
            /\ \A p \in Pbufs : (\E i \in 1 .. Len(rxq') : rxq'[i] = p)
                   <=> p # b /\ \E i \in 1 .. Len(rxq) : rxq[i] = p
        <5>1. rxq \in Seq(Pbufs) /\ \A i, j \in 1 .. Len(rxq) : rxq[i] = rxq[j] => i = j
          BY DEF QueueType, Shape
        <5>2. /\ \E i \in 1 .. Len(rxq) : rxq[i] = Head(rxq)
              /\ \A p \in Pbufs : (\E i \in 1 .. Len(Tail(rxq)) : Tail(rxq)[i] = p)
                     <=> p # Head(rxq) /\ \E i \in 1 .. Len(rxq) : rxq[i] = p
          BY <2>2, <5>1, RxTail
        <5>3. rxq' = Tail(rxq)
          BY <3>2
        <5> QED
          BY <5>2, <5>3, Zenon
      <4> HIDE DEF b
      <4> QED
        BY <4>1, HoldsRx, Zenon
    <3>4. \A x \in Places : Holds(x, b) => x = "rxq"
      BY <3>1, <3>3 DEF Account, Places
    <3>5. \A p \in Pbufs, x \in Places :
              Holds(x, p)' <=> IF p = b THEN x = "input" ELSE Holds(x, p)
      BY <3>1, <3>2, <3>3, <3>4 DEF Holds, Places, Tasks, PtrType
    <3>6. Account'
      BY <3>1, <3>2, <3>3, <3>5, AccountMoved DEF Places
    <3>7. Shape'
      BY <2>2, <3>1, <3>2, RxTail DEF Shape, TaskType, PtrType, Tasks, QueueType
    <3>8. Marks'
      BY <3>1, <3>2, <3>3, <3>5 DEF Marks, TaskType, PtrType, Tasks, Places, MemType
    <3> QED
      BY <3>6, <3>7, <3>8 DEF Ownership
  <2> QED
    BY <2>1, <2>2
<1>3. CASE udp_receive_callback
  <2> USE <1>3 DEF udp_receive_callback
  <2> DEFINE b == buf["input"]
  <2>1. b \in Pbufs /\ udpq = <<>> /\ Len(udpq) < UdpQueueLen
    BY DEF PtrOK, OneInFlight, UdpActive, Idle, Workers, Tasks
  <2>2. /\ buf' = [buf EXCEPT !["input"] = NoPbuf] /\ udpq' = <<b>>
        /\ pc' = [pc EXCEPT !["input"] = "unwind"]
        /\ UNCHANGED <<rxq, agcq, tcpq, old, lent, count, ref, net, sent>>
    BY <2>1, AppendFirst
  <2>3. Holds("input", b)
    BY DEF Holds, Tasks
  <2>4. \A x \in Places : Holds(x, b) => x = "input"
    BY <2>1, <2>3 DEF Account, Places
  <2>5. \A p \in Pbufs, x \in Places :
            Holds(x, p)' <=> IF p = b THEN x = "udpq" ELSE Holds(x, p)
    BY <2>1, <2>2, <2>3, <2>4, SingleIs DEF Holds, Places, Tasks, PtrType
  <2>6. Account'
    BY <2>1, <2>2, <2>3, <2>5, AccountMoved DEF Places
  <2>7. Shape'
    BY <2>1, <2>2 DEF Shape, TaskType, PtrType, Tasks
  <2>8. Marks'
    BY <2>1, <2>2, <2>3, <2>5 DEF Marks, TaskType, PtrType, Tasks, Places, MemType
  <2> QED
    BY <2>6, <2>7, <2>8 DEF Ownership
<1>4. CASE recv_callback
  <2> USE <1>4 DEF recv_callback
  <2> DEFINE b == buf["input"]
  <2>1. b \in Pbufs /\ tcpq = <<>> /\ Len(tcpq) < TcpQueueLen
    BY DEF PtrOK, OneInFlight, TcpActive, Idle, Workers, Tasks
  <2>2. /\ buf' = [buf EXCEPT !["input"] = NoPbuf] /\ tcpq' = <<b>>
        /\ pc' = [pc EXCEPT !["input"] = "unwind"]
        /\ UNCHANGED <<rxq, agcq, udpq, old, lent, count, ref, net, sent>>
    BY <2>1, AppendFirst
  <2>3. Holds("input", b)
    BY DEF Holds, Tasks
  <2>4. \A x \in Places : Holds(x, b) => x = "input"
    BY <2>1, <2>3 DEF Account, Places
  <2>5. \A p \in Pbufs, x \in Places :
            Holds(x, p)' <=> IF p = b THEN x = "tcpq" ELSE Holds(x, p)
    BY <2>1, <2>2, <2>3, <2>4, SingleIs DEF Holds, Places, Tasks, PtrType
  <2>6. Account'
    BY <2>1, <2>2, <2>3, <2>5, AccountMoved DEF Places
  <2>7. Shape'
    BY <2>1, <2>2 DEF Shape, TaskType, PtrType, Tasks
  <2>8. Marks'
    BY <2>1, <2>2, <2>3, <2>5 DEF Marks, TaskType, PtrType, Tasks, Places, MemType
  <2> QED
    BY <2>6, <2>7, <2>8 DEF Ownership
<1>5. CASE InputConsume
  <2> USE <1>5 DEF InputConsume
  <2> DEFINE b == buf["input"]
  <2>1. b \in Pbufs
    BY DEF PtrOK
  <2>2. /\ buf' = [buf EXCEPT !["input"] = NoPbuf] /\ ref' = Released(ref, b)
        /\ pc' = [pc EXCEPT !["input"] = "unwind"]
        /\ UNCHANGED <<rxq, udpq, agcq, tcpq, old, lent, count, net, sent>>
    OBVIOUS
  <2>3. Holds("input", b)
    BY DEF Holds, Tasks
  <2>4. \A x \in Places : Holds(x, b) => x = "input"
    BY <2>1, <2>3 DEF Account, Places
  <2>5. \A p \in Pbufs, x \in Places : Holds(x, p)' <=> p # b /\ Holds(x, p)
    BY <2>1, <2>2, <2>3, <2>4 DEF Holds, Places, Tasks, PtrType
  <2>6. Account'
    BY <2>1, <2>2, <2>3, <2>5, AccountFreed DEF Places
  <2>7. Shape'
    BY <2>1, <2>2 DEF Shape, TaskType, PtrType, Tasks
  <2>8. Marks'
    BY <2>1, <2>2, <2>3, <2>5 DEF Marks, TaskType, PtrType, Tasks, Places, MemType
  <2> QED
    BY <2>6, <2>7, <2>8 DEF Ownership
<1>6. CASE InputUnwind
  BY <1>6, OwnershipQuiet DEF InputUnwind, TaskType, Tasks
<1>7. CASE InputYield
  BY <1>7, OwnershipQuiet DEF InputYield, TaskType, Tasks
<1>8. CASE UdpBlock
  BY <1>8, OwnershipQuiet DEF UdpBlock
<1>9. CASE UdpFirst
  <2> USE <1>9 DEF UdpFirst
  <2> DEFINE b == Head(udpq)
  <2>1. b \in Pbufs /\ udpq = <<b>> /\ udpq' = <<>> /\ old = NoPbuf /\ lent = FALSE
    BY QueueOne DEF QueueType, Shape, OneInFlight
  <2>2. /\ old' = b /\ count' = 2
        /\ UNCHANGED <<pc, buf, rxq, agcq, tcpq, lent, ref, net, sent>>
    OBVIOUS
  <2>3. Holds("udpq", b)
    BY <2>1 DEF Holds
  <2>4. \A x \in Places : Holds(x, b) => x = "udpq"
    BY <2>1, <2>3 DEF Account, Places
  <2>5. \A p \in Pbufs, x \in Places :
            Holds(x, p)' <=> IF p = b THEN x = "old" ELSE Holds(x, p)
    BY <2>1, <2>2, <2>3, <2>4, SingleIs DEF Holds, Places, Tasks, PtrType
  <2>6. Account'
    BY <2>1, <2>2, <2>3, <2>5, AccountMoved DEF Places
  <2>7. Shape'
    BY <2>1, <2>2 DEF Shape
  <2>8. Marks'
    BY <2>1, <2>2, <2>3, <2>5 DEF Marks, Places, MemType
  <2> QED
    BY <2>6, <2>7, <2>8 DEF Ownership
<1>10. CASE UdpNext
  <2> USE <1>10 DEF UdpNext
  <2> DEFINE b == Head(udpq)
  <2>1. b \in Pbufs /\ udpq = <<b>> /\ udpq' = <<>> /\ buf["udp"] = NoPbuf
    BY QueueOne DEF QueueType, Shape, OneInFlight
  <2>2. /\ buf' = [buf EXCEPT !["udp"] = b] /\ pc' = [pc EXCEPT !["udp"] = "merge"]
        /\ UNCHANGED <<old, count, rxq, agcq, tcpq, lent, ref, net, sent>>
    OBVIOUS
  <2>3. Holds("udpq", b)
    BY <2>1 DEF Holds
  <2>4. \A x \in Places : Holds(x, b) => x = "udpq"
    BY <2>1, <2>3 DEF Account, Places
  <2>5. \A p \in Pbufs, x \in Places :
            Holds(x, p)' <=> IF p = b THEN x = "udp" ELSE Holds(x, p)
    BY <2>1, <2>2, <2>3, <2>4, SingleIs DEF Holds, Places, Tasks, PtrType
  <2>6. Account'
    BY <2>1, <2>2, <2>3, <2>5, AccountMoved DEF Places
  <2>7. Shape'
    BY <2>1, <2>2 DEF Shape, TaskType, PtrType, Tasks
  <2>8. Marks'
    BY <2>1, <2>2, <2>3, <2>5 DEF Marks, TaskType, PtrType, Tasks, Places, MemType
  <2> QED
    BY <2>6, <2>7, <2>8 DEF Ownership
<1>11. CASE UdpMerge
  <2> USE <1>11 DEF UdpMerge
  <2> DEFINE b == buf["udp"]
  <2>1. b \in Pbufs /\ count \in 2 .. PacketsPerFrame /\ count' # 1
    BY DEF PtrOK, Shape, PtrType, Tasks
  <2>2. /\ buf' = [buf EXCEPT !["udp"] = NoPbuf] /\ ref' = Released(ref, b)
        /\ \E l \in {"check", "recv"} : pc' = [pc EXCEPT !["udp"] = l]
        /\ UNCHANGED <<rxq, udpq, agcq, tcpq, old, lent, net, sent>>
    OBVIOUS
  <2>3. Holds("udp", b)
    BY DEF Holds, Tasks
  <2>4. \A x \in Places : Holds(x, b) => x = "udp"
    BY <2>1, <2>3 DEF Account, Places
  <2>5. \A p \in Pbufs, x \in Places : Holds(x, p)' <=> p # b /\ Holds(x, p)
    BY <2>1, <2>2, <2>3, <2>4 DEF Holds, Places, Tasks, PtrType
  <2>6. Account'
    BY <2>1, <2>2, <2>3, <2>5, AccountFreed DEF Places
  <2>7. Shape'
    BY <2>1, <2>2 DEF Shape, TaskType, PtrType, Tasks
  <2>8. Marks'
    BY <2>1, <2>2, <2>3, <2>5 DEF Marks, TaskType, PtrType, Tasks, Places, MemType
  <2> QED
    BY <2>6, <2>7, <2>8 DEF Ownership
<1>12. CASE UdpCheck
  BY <1>12, OwnershipQuiet DEF UdpCheck, TaskType, Tasks, OneInFlight
<1>13. CASE UdpPost
  <2> USE <1>13 DEF UdpPost
  <2>1. /\ old \in Pbufs /\ agcq = <<>> /\ Len(agcq) < AgcQueueLen /\ lent = FALSE
        /\ old \notin sent
    BY DEF PtrOK, OneInFlight, AgcActive, UdpActive, Marks
  <2>2. /\ agcq' = <<old>> /\ lent' = TRUE /\ pc' = [pc EXCEPT !["udp"] = "send"]
        /\ UNCHANGED <<buf, rxq, udpq, tcpq, old, count, ref, net, sent>>
    BY <2>1, AppendFirst
  <2>3. Holds("old", old)
    BY <2>1 DEF Holds
  <2>4. \A x \in Places : Holds(x, old) => x = "old"
    BY <2>1, <2>3 DEF Account, Places
  <2>5. \A p \in Pbufs, x \in Places :
            Holds(x, p)' <=> IF p = old THEN x = "agcq" ELSE Holds(x, p)
    BY <2>1, <2>2, <2>3, <2>4, SingleIs DEF Holds, Places, Tasks, PtrType
  <2>6. Account'
    BY <2>1, <2>2, <2>3, <2>5, AccountMoved DEF Places
  <2>7. Shape'
    BY <2>1, <2>2 DEF Shape, TaskType, PtrType, Tasks
  <2>8. Marks'
    BY <2>1, <2>2, <2>3, <2>5 DEF Marks, TaskType, PtrType, Tasks, Places, MemType
  <2> QED
    BY <2>6, <2>7, <2>8 DEF Ownership
<1>14. CASE UdpSend
  <2> USE <1>14 DEF UdpSend
  <2>1. old \in Pbufs /\ old \notin sent /\ lent = TRUE /\ agcq = <<old>>
    BY DEF PtrOK, OneInFlight, Marks
  <2>2. /\ pc' = [pc EXCEPT !["udp"] = "recheck"]
        /\ UNCHANGED <<buf, rxq, udpq, agcq, tcpq, old, lent, count>>
        /\ udp_send(old)
    OBVIOUS
  <2>3. Holds("agcq", old)
    BY <2>1 DEF Holds
  <2>4. Account' /\ sent' = sent \cup {old}
        /\ \A p \in Pbufs : net'[p] <= 1 /\ (net'[p] = 1 => p \in sent')
    BY <2>1, <2>2, <2>3, SendCounted DEF Places
  <2>5. Shape'
    BY <2>1, <2>2 DEF Shape, TaskType, PtrType, Tasks
  <2>6. \A p, x : Holds(x, p)' <=> Holds(x, p)
    BY <2>2, HoldsKept
  <2>7. ~Holds("rxq", old) /\ ~Holds("udpq", old) /\ ~Holds("input", old)
    BY <2>1, <2>3 DEF Account, Places
  <2>8. Marks'
    BY <2>1, <2>2, <2>4, <2>6, <2>7, SingleIs DEF Marks, TaskType, Tasks
  <2> QED
    BY <2>4, <2>5, <2>8 DEF Ownership
<1>15. CASE UdpRecheck
  <2> USE <1>15 DEF UdpRecheck
  <2>1. CASE st["agc"] = "suspended"
    <3>1. lent = FALSE
      BY <2>1 DEF OneInFlight
    <3> QED
      BY <2>1, <3>1, OwnershipQuiet DEF TaskType, Tasks
  <2>2. CASE st["agc"] # "suspended"
    <3>1. lent = TRUE /\ agcq = <<old>>
      BY <2>2 DEF OneInFlight
    <3>2. /\ pc' = [pc EXCEPT !["udp"] = "recv"] /\ old' = NoPbuf /\ lent' = FALSE
          /\ count' = 1 /\ UNCHANGED <<buf, rxq, udpq, agcq, tcpq, ref, net, sent>>
      BY <2>2 DEF FrameDone
    <3>3. \A p \in Pbufs, x \in Places : Holds(x, p)' <=> Holds(x, p)
      BY <3>1, <3>2 DEF Holds, Places
    <3>4. Account'
      BY <3>2, <3>3, AccountKept
    <3>5. Shape'
      BY <3>2 DEF Shape, TaskType, Tasks
    <3>6. Marks'
      BY <3>2, <3>3 DEF Marks, TaskType, Tasks, MemType, Places
    <3> QED
      BY <3>4, <3>5, <3>6 DEF Ownership
  <2> QED
    BY <2>1, <2>2
<1>16. CASE UdpSendOwn
  <2> USE <1>16 DEF UdpSendOwn
  <2>1. old \in Pbufs /\ old \notin sent /\ lent = FALSE /\ agcq # <<old>>
    BY SingleIs DEF PtrOK, OneInFlight, Marks
  <2>2. /\ pc' = [pc EXCEPT !["udp"] = "free"]
        /\ UNCHANGED <<buf, rxq, udpq, agcq, tcpq, old, lent, count>>
        /\ udp_send(old)
    OBVIOUS
  <2>3. Holds("old", old)
    BY <2>1 DEF Holds
  <2>4. Account' /\ sent' = sent \cup {old}
        /\ \A p \in Pbufs : net'[p] <= 1 /\ (net'[p] = 1 => p \in sent')
    BY <2>1, <2>2, <2>3, SendCounted DEF Places
  <2>5. Shape'
    BY <2>1, <2>2 DEF Shape, TaskType, PtrType, Tasks
  <2>6. \A p, x : Holds(x, p)' <=> Holds(x, p)
    BY <2>2, HoldsKept
  <2>7. ~Holds("rxq", old) /\ ~Holds("udpq", old) /\ ~Holds("input", old)
    BY <2>1, <2>3 DEF Account, Places
  <2>8. Marks'
    BY <2>1, <2>2, <2>4, <2>6, <2>7, SingleIs DEF Marks, TaskType, Tasks
  <2> QED
    BY <2>4, <2>5, <2>8 DEF Ownership
<1>17. CASE UdpFree
  <2> USE <1>17 DEF UdpFree
  <2>1. old \in Pbufs /\ lent = FALSE
    BY DEF PtrOK, OneInFlight
  <2>2. /\ pc' = [pc EXCEPT !["udp"] = "recv"] /\ old' = NoPbuf /\ lent' = FALSE
        /\ count' = 1 /\ ref' = Released(ref, old)
        /\ UNCHANGED <<buf, rxq, udpq, agcq, tcpq, net, sent>>
    BY DEF FrameDone
  <2>3. Holds("old", old)
    BY <2>1 DEF Holds
  <2>4. \A x \in Places : Holds(x, old) => x = "old"
    BY <2>1, <2>3 DEF Account, Places
  <2>5. \A p \in Pbufs, x \in Places : Holds(x, p)' <=> p # old /\ Holds(x, p)
    BY <2>1, <2>2, <2>3, <2>4 DEF Holds, Places, Tasks, PtrType
  <2>6. Account'
    BY <2>1, <2>2, <2>3, <2>5, AccountFreed DEF Places
  <2>7. Shape'
    BY <2>1, <2>2 DEF Shape, TaskType, PtrType, Tasks
  <2>8. Marks'
    BY <2>1, <2>2, <2>3, <2>5 DEF Marks, TaskType, PtrType, Tasks, Places, MemType
  <2> QED
    BY <2>6, <2>7, <2>8 DEF Ownership
<1>18. CASE AgcBlock
  BY <1>18, OwnershipQuiet DEF AgcBlock
<1>19. CASE AgcTake
  <2> USE <1>19 DEF AgcTake
  <2> DEFINE b == Head(agcq)
  <2>1. b \in Pbufs /\ agcq = <<b>> /\ agcq' = <<>> /\ buf["agc"] = NoPbuf
    BY QueueOne DEF QueueType, Shape, OneInFlight
  <2>2. /\ buf' = [buf EXCEPT !["agc"] = b] /\ pc' = [pc EXCEPT !["agc"] = "compute"]
        /\ UNCHANGED <<old, count, rxq, udpq, tcpq, lent, ref, net, sent>>
    OBVIOUS
  <2>3. Holds("agcq", b)
    BY <2>1 DEF Holds
  <2>4. \A x \in Places : Holds(x, b) => x = "agcq"
    BY <2>1, <2>3 DEF Account, Places
  <2>5. \A p \in Pbufs, x \in Places :
            Holds(x, p)' <=> IF p = b THEN x = "agc" ELSE Holds(x, p)
    BY <2>1, <2>2, <2>3, <2>4, SingleIs DEF Holds, Places, Tasks, PtrType
  <2>6. Account'
    BY <2>1, <2>2, <2>3, <2>5, AccountMoved DEF Places
  <2>7. Shape'
    BY <2>1, <2>2 DEF Shape, TaskType, PtrType, Tasks
  <2>8. pc["udp"] = "recv"
    BY TopIs DEF OneInFlight, UdpActive, Workers, Tasks
  <2>9. b \in sent
    BY <2>1, <2>8 DEF Marks
  <2>10. \A p \in Pbufs : agcq' # <<p>>
    BY <2>1, SingleIs
  <2>11. pc'["agc"] # "recv" => buf'["agc"] \in sent'
    BY <2>2, <2>9 DEF PtrType, Tasks
  <2>12. pc'["udp"] = pc["udp"]
    BY <2>2
  <2>13. Marks'
    BY <2>1, <2>2, <2>5, <2>10, <2>11, <2>12 DEF Marks, Places, MemType
  <2> QED
    BY <2>6, <2>7, <2>13 DEF Ownership
<1>20. CASE AgcCompute
  BY <1>20, OwnershipQuiet DEF AgcCompute, TaskType, Tasks
<1>21. CASE AgcFree
  <2> USE <1>21 DEF AgcFree
  <2> DEFINE b == buf["agc"]
  <2>1. b \in Pbufs
    BY DEF Shape, PtrType, Tasks
  <2>2. /\ buf' = [buf EXCEPT !["agc"] = NoPbuf] /\ ref' = Released(ref, b)
        /\ pc' = [pc EXCEPT !["agc"] = "recv"]
        /\ UNCHANGED <<rxq, udpq, agcq, tcpq, old, lent, count, net, sent>>
    OBVIOUS
  <2>3. Holds("agc", b)
    BY DEF Holds, Tasks
  <2>4. \A x \in Places : Holds(x, b) => x = "agc"
    BY <2>1, <2>3 DEF Account, Places
  <2>5. \A p \in Pbufs, x \in Places : Holds(x, p)' <=> p # b /\ Holds(x, p)
    BY <2>1, <2>2, <2>3, <2>4 DEF Holds, Places, Tasks, PtrType
  <2>6. Account'
    BY <2>1, <2>2, <2>3, <2>5, AccountFreed DEF Places
  <2>7. Shape'
    BY <2>1, <2>2 DEF Shape, TaskType, PtrType, Tasks
  <2>8. Marks'
    BY <2>1, <2>2, <2>3, <2>5 DEF Marks, TaskType, PtrType, Tasks, Places, MemType
  <2> QED
    BY <2>6, <2>7, <2>8 DEF Ownership
<1>22. CASE TcpBlock
  BY <1>22, OwnershipQuiet DEF TcpBlock
<1>23. CASE TcpTake
  <2> USE <1>23 DEF TcpTake
  <2> DEFINE b == Head(tcpq)
  <2>1. b \in Pbufs /\ tcpq = <<b>> /\ tcpq' = <<>> /\ buf["tcp"] = NoPbuf
    BY QueueOne DEF QueueType, Shape, OneInFlight
  <2>2. /\ buf' = [buf EXCEPT !["tcp"] = b] /\ pc' = [pc EXCEPT !["tcp"] = "parse"]
        /\ UNCHANGED <<old, count, rxq, udpq, agcq, lent, ref, net, sent>>
    OBVIOUS
  <2>3. Holds("tcpq", b)
    BY <2>1 DEF Holds
  <2>4. \A x \in Places : Holds(x, b) => x = "tcpq"
    BY <2>1, <2>3 DEF Account, Places
  <2>5. \A p \in Pbufs, x \in Places :
            Holds(x, p)' <=> IF p = b THEN x = "tcp" ELSE Holds(x, p)
    BY <2>1, <2>2, <2>3, <2>4, SingleIs DEF Holds, Places, Tasks, PtrType
  <2>6. Account'
    BY <2>1, <2>2, <2>3, <2>5, AccountMoved DEF Places
  <2>7. Shape'
    BY <2>1, <2>2 DEF Shape, TaskType, PtrType, Tasks
  <2>8. Marks'
    BY <2>1, <2>2, <2>3, <2>5 DEF Marks, TaskType, PtrType, Tasks, Places, MemType
  <2> QED
    BY <2>6, <2>7, <2>8 DEF Ownership
<1>24. CASE TcpParse
  BY <1>24, OwnershipQuiet DEF TcpParse, TaskType, Tasks
<1>25. CASE TcpEcho
  BY <1>25, OwnershipQuiet DEF TcpEcho, AfterEcho, TaskType, Tasks
<1>26. CASE TcpResume
  BY <1>26, OwnershipQuiet DEF TcpResume, TaskType, Tasks
<1>27. CASE TcpNominal
  BY <1>27, OwnershipQuiet DEF TcpNominal, TaskType, Tasks
<1>28. CASE TcpSuspend
  BY <1>28, OwnershipQuiet DEF TcpSuspend, TaskType, Tasks
<1>29. CASE TcpManual
  BY <1>29, OwnershipQuiet DEF TcpManual, TaskType, Tasks
<1>30. CASE TcpFree
  <2> USE <1>30 DEF TcpFree
  <2> DEFINE b == buf["tcp"]
  <2>1. b \in Pbufs
    BY DEF Shape, PtrType, Tasks
  <2>2. /\ buf' = [buf EXCEPT !["tcp"] = NoPbuf] /\ ref' = Released(ref, b)
        /\ pc' = [pc EXCEPT !["tcp"] = "recv"]
        /\ UNCHANGED <<rxq, udpq, agcq, tcpq, old, lent, count, net, sent>>
    OBVIOUS
  <2>3. Holds("tcp", b)
    BY DEF Holds, Tasks
  <2>4. \A x \in Places : Holds(x, b) => x = "tcp"
    BY <2>1, <2>3 DEF Account, Places
  <2>5. \A p \in Pbufs, x \in Places : Holds(x, p)' <=> p # b /\ Holds(x, p)
    BY <2>1, <2>2, <2>3, <2>4 DEF Holds, Places, Tasks, PtrType
  <2>6. Account'
    BY <2>1, <2>2, <2>3, <2>5, AccountFreed DEF Places
  <2>7. Shape'
    BY <2>1, <2>2 DEF Shape, TaskType, PtrType, Tasks
  <2>8. Marks'
    BY <2>1, <2>2, <2>3, <2>5 DEF Marks, TaskType, PtrType, Tasks, Places, MemType
  <2> QED
    BY <2>6, <2>7, <2>8 DEF Ownership
<1>31. ASSUME NEW b \in Pbufs, NEW k \in Kinds, NicReceive(b, k)
       PROVE  Ownership'
  <2> USE <1>31 DEF NicReceive
  <2>1. net[b] = 0 /\ ref[b] = 0 /\ \A x \in Places : ~Holds(x, b)
    <3>1. net[b] \in Nat /\ ref[b] = 0
      BY DEF MemType
    <3>2. ~Held(b) /\ net[b] = 0
      BY <3>1 DEF Account
    <3> QED
      BY <3>1, <3>2 DEF Held
  <2>2. /\ ref' = [ref EXCEPT ![b] = 1] /\ sent' = sent \ {b} /\ rxq' = Append(rxq, b)
        /\ UNCHANGED <<pc, buf, udpq, agcq, tcpq, old, lent, count, net>>
    OBVIOUS
  <2>3. ~\E i \in 1 .. Len(rxq) : rxq[i] = b
    BY <2>1, HoldsRx DEF Places
  <2>4. /\ \A i, j \in 1 .. Len(rxq') : rxq'[i] = rxq'[j] => i = j
        /\ \A p \in Pbufs : (\E i \in 1 .. Len(rxq') : rxq'[i] = p)
               <=> p = b \/ \E i \in 1 .. Len(rxq) : rxq[i] = p
    BY <2>2, <2>3, RxAppend DEF QueueType, Shape
  <2>5. \A p \in Pbufs : Holds("rxq", p)' <=> p = b \/ Holds("rxq", p)
    BY <2>4, HoldsRx, Zenon
  <2>6. \A p \in Pbufs, x \in Places :
            Holds(x, p)' <=> IF p = b THEN x = "rxq" ELSE Holds(x, p)
    BY <2>1, <2>2, <2>5 DEF Holds, Places, Tasks
  <2>7. Account'
    BY <2>1, <2>2, <2>6 DEF Account, Held, MemType, Places
  <2>8. Shape'
    BY <2>2, <2>4 DEF Shape
  <2>9. agcq # <<b>> /\ buf["agc"] # b /\ (old = b => lent = TRUE)
    BY <2>1 DEF Holds, Places, Tasks
  <2>10. old # b
    BY <2>9 DEF OneInFlight
  <2>11. Marks'
    BY <2>1, <2>2, <2>6, <2>9, <2>10 DEF Marks, MemType, Places
  <2> QED
    BY <2>7, <2>8, <2>11 DEF Ownership
<1>32. ASSUME NEW b \in Pbufs, TxDone(b)
       PROVE  Ownership'
  <2> USE <1>32 DEF TxDone
  <2>1. net[b] = 1 /\ ref[b] > 0
    BY DEF Marks, MemType, Account
  <2>2. /\ ref' = [ref EXCEPT ![b] = ref[b] - 1] /\ net' = [net EXCEPT ![b] = 0]
        /\ UNCHANGED <<pc, buf, rxq, udpq, agcq, tcpq, old, lent, count, sent>>
    BY <2>1, ReleasedOne
  <2>3. \A p, x : Holds(x, p)' <=> Holds(x, p)
    BY <2>2, HoldsKept
  <2>4. Account'
    BY <2>1, <2>2, <2>3 DEF Account, Held, MemType
  <2>5. Shape'
    BY <2>2 DEF Shape
  <2>6. Marks'
    BY <2>1, <2>2, <2>3 DEF Marks, MemType
  <2> QED
    BY <2>4, <2>5, <2>6 DEF Ownership
<1>33. CASE UNCHANGED vars
  BY <1>33, OwnershipQuiet DEF vars
<1> QED
  BY <1>1, <1>2, <1>3, <1>4, <1>5, <1>6, <1>7, <1>8, <1>9, <1>10, <1>11, <1>12,
     <1>13, <1>14, <1>15, <1>16, <1>17, <1>18, <1>19, <1>20, <1>21, <1>22, <1>23,
     <1>24, <1>25, <1>26, <1>27, <1>28, <1>29, <1>30, <1>31, <1>32, <1>33
  DEF Next, Input, Udp, Agc, Tcp

\* The inductive invariant of the pipeline: types, hand-over and ownership.
PipelineInv == TypeInv /\ HandOver /\ Ownership

\* Types, hand-over and ownership together are the invariant of the pipeline.
LEMMA PipelineInvariant == Spec => []PipelineInv
<1>1. Init => PipelineInv
  BY TypeInit, HandOverInit, OwnershipInit DEF PipelineInv
<1>2. PipelineInv /\ [Next]_vars => PipelineInv'
  BY TypeNext, HandOverNext, OwnershipNext DEF PipelineInv
<1> QED
  BY <1>1, <1>2, PTL DEF Spec

-----------------------------------------------------------------------------
(* The number of owners.                                                   *)

\* A queue of one entry holds p at its first index or not at all.
LEMMA QueueHolds ==
    ASSUME NEW s \in Seq(Pbufs), Len(s) <= 1, NEW p
    PROVE  {j \in DOMAIN s : s[j] = p} = IF s = <<p>> THEN {1} ELSE {}
<1>1. CASE s = <<>>
  BY <1>1
<1>2. CASE s # <<>>
  <2>1. s = <<Head(s)>>
    BY <1>2, QueueOne
  <2>2. DOMAIN s = {1} /\ s[1] = Head(s)
    BY <2>1
  <2>3. s = <<p>> <=> s[1] = p
    BY <2>1, <2>2, SingleIs
  <2> QED
    BY <2>2, <2>3
<1> QED
  BY <1>1, <1>2

\* The owners are the places that hold the buffer, each of them once.
LEMMA OwnersOne ==
    ASSUME PipelineInv, NEW p \in Pbufs
    PROVE  /\ Held(p) => \E o : Owners(p) = {o}
           /\ ~Held(p) => Owners(p) = {}
<1>0. /\ QueueType /\ PtrType /\ OneInFlight /\ Account /\ Shape
  BY DEF PipelineInv, TypeInv, TypeOK, HandOver, Ownership
<1> DEFINE rx == {<<"rxq", i>> : i \in {j \in DOMAIN rxq : rxq[j] = p}}
           one(n, s) == IF s = <<p>> THEN {<<n, 1>>} ELSE {}
           ptr == {<<t, 0>> : t \in {u \in Tasks : buf[u] = p}}
           own == IF old = p /\ ~lent THEN {<<"old", 0>>} ELSE {}
<1>1. Owners(p) = rx \cup one("udpq", udpq) \cup one("agcq", agcq)
                     \cup one("tcpq", tcpq) \cup ptr \cup own
  <2>1. /\ {j \in DOMAIN udpq : udpq[j] = p} = IF udpq = <<p>> THEN {1} ELSE {}
        /\ {j \in DOMAIN agcq : agcq[j] = p} = IF agcq = <<p>> THEN {1} ELSE {}
        /\ {j \in DOMAIN tcpq : tcpq[j] = p} = IF tcpq = <<p>> THEN {1} ELSE {}
    BY <1>0, QueueHolds DEF OneInFlight, QueueType
  <2>2. ASSUME NEW n, NEW s, NEW S, S = IF s = <<p>> THEN {1} ELSE {}
        PROVE  {<<n, i>> : i \in S} = one(n, s)
    BY <2>2, Zenon
  <2> QED
    BY <2>1, <2>2 DEF Owners
<1>2. IF Holds("rxq", p) THEN \E o : rx = {o} ELSE rx = {}
  <2>1. DOMAIN rxq = 1 .. Len(rxq)
    BY <1>0, LenProperties DEF QueueType
  <2>2. CASE ~Holds("rxq", p)
    BY <2>1, <2>2, HoldsRx
  <2>3. CASE Holds("rxq", p)
    <3>1. PICK i \in 1 .. Len(rxq) : rxq[i] = p
      BY <2>3, HoldsRx
    <3>2. {j \in DOMAIN rxq : rxq[j] = p} = {i}
      BY <1>0, <2>1, <3>1 DEF Shape
    <3>3. rx = {<<"rxq", i>>}
      BY <3>2
    <3> QED
      BY <2>3, <3>3
  <2> QED
    BY <2>2, <2>3
<1>3. /\ IF Holds("udpq", p) THEN \E o : one("udpq", udpq) = {o} ELSE one("udpq", udpq) = {}
      /\ IF Holds("agcq", p) THEN \E o : one("agcq", agcq) = {o} ELSE one("agcq", agcq) = {}
      /\ IF Holds("tcpq", p) THEN \E o : one("tcpq", tcpq) = {o} ELSE one("tcpq", tcpq) = {}
      /\ IF Holds("old", p) THEN \E o : own = {o} ELSE own = {}
  BY DEF Holds, Tasks
<1>4. \A t \in Tasks : Holds(t, p) <=> buf[t] = p
  BY DEF Holds, Tasks
<1>5. IF \E t \in Tasks : Holds(t, p) THEN \E o : ptr = {o} ELSE ptr = {}
  <2>1. CASE ~\E t \in Tasks : Holds(t, p)
    BY <1>4, <2>1
  <2>2. ASSUME NEW t \in Tasks, Holds(t, p) PROVE ptr = {<<t, 0>>}
    <3>1. \A u \in Tasks : Holds(u, p) => u = t
      BY <1>0, <2>2 DEF Account, Places, Tasks
    <3>2. {u \in Tasks : buf[u] = p} = {t}
      BY <1>4, <2>2, <3>1
    <3> QED
      BY <3>2
  <2> QED
    BY <2>1, <2>2
<1>6. Held(p) <=> \/ Holds("rxq", p) \/ Holds("udpq", p) \/ Holds("agcq", p)
                  \/ Holds("tcpq", p) \/ Holds("old", p) \/ \E t \in Tasks : Holds(t, p)
  BY DEF Held, Places, Tasks
<1>7. \A l, m \in Places : Holds(l, p) /\ Holds(m, p) => l = m
  BY <1>0 DEF Account
<1> HIDE DEF rx, one, ptr, own
<1>8. CASE ~Held(p)
  BY <1>1, <1>2, <1>3, <1>5, <1>6, <1>8
<1>9. CASE Holds("rxq", p)
  <2>1. /\ ~Holds("udpq", p) /\ ~Holds("agcq", p) /\ ~Holds("tcpq", p)
        /\ ~Holds("old", p) /\ ~\E t \in Tasks : Holds(t, p)
    BY <1>7, <1>9 DEF Places, Tasks
  <2> QED
    BY <1>1, <1>2, <1>3, <1>5, <1>6, <1>9, <2>1
<1>10. CASE Holds("udpq", p)
  <2>1. /\ ~Holds("rxq", p) /\ ~Holds("agcq", p) /\ ~Holds("tcpq", p)
        /\ ~Holds("old", p) /\ ~\E t \in Tasks : Holds(t, p)
    BY <1>7, <1>10 DEF Places, Tasks
  <2> QED
    BY <1>1, <1>2, <1>3, <1>5, <1>6, <1>10, <2>1
<1>11. CASE Holds("agcq", p)
  <2>1. /\ ~Holds("rxq", p) /\ ~Holds("udpq", p) /\ ~Holds("tcpq", p)
        /\ ~Holds("old", p) /\ ~\E t \in Tasks : Holds(t, p)
    BY <1>7, <1>11 DEF Places, Tasks
  <2> QED
    BY <1>1, <1>2, <1>3, <1>5, <1>6, <1>11, <2>1
<1>12. CASE Holds("tcpq", p)
  <2>1. /\ ~Holds("rxq", p) /\ ~Holds("udpq", p) /\ ~Holds("agcq", p)
        /\ ~Holds("old", p) /\ ~\E t \in Tasks : Holds(t, p)
    BY <1>7, <1>12 DEF Places, Tasks
  <2> QED
    BY <1>1, <1>2, <1>3, <1>5, <1>6, <1>12, <2>1
<1>13. CASE Holds("old", p)
  <2>1. /\ ~Holds("rxq", p) /\ ~Holds("udpq", p) /\ ~Holds("agcq", p)
        /\ ~Holds("tcpq", p) /\ ~\E t \in Tasks : Holds(t, p)
    BY <1>7, <1>13 DEF Places, Tasks
  <2> QED
    BY <1>1, <1>2, <1>3, <1>5, <1>6, <1>13, <2>1
<1>14. CASE \E t \in Tasks : Holds(t, p)
  <2>1. /\ ~Holds("rxq", p) /\ ~Holds("udpq", p) /\ ~Holds("agcq", p)
        /\ ~Holds("tcpq", p) /\ ~Holds("old", p)
    BY <1>7, <1>14 DEF Places, Tasks
  <2> QED
    BY <1>1, <1>2, <1>3, <1>5, <1>6, <1>14, <2>1
<1> QED
  BY <1>6, <1>8, <1>9, <1>10, <1>11, <1>12, <1>13, <1>14

\* No leak and no double free: the count of every buffer is the number of its
\* owners, one at most, plus the references of the network layers.
THEOREM CountsExact == Spec => []RefExact
<1>1. PipelineInv => RefExact
  <2> SUFFICES ASSUME PipelineInv, NEW p \in Pbufs
               PROVE  /\ Cardinality(Owners(p)) <= 1
                      /\ ref[p] = Cardinality(Owners(p)) + net[p]
    BY DEF RefExact
  <2>1. net[p] \in Nat /\ Account
    BY DEF PipelineInv, TypeInv, TypeOK, MemType, Ownership
  <2>2. CASE Held(p)
    <3>1. Cardinality(Owners(p)) = 1
      BY <2>2, OwnersOne, FS_Singleton
    <3> QED
      BY <2>1, <2>2, <3>1 DEF Account
  <2>3. CASE ~Held(p)
    <3>1. Cardinality(Owners(p)) = 0
      BY <2>3, OwnersOne, FS_EmptySet
    <3> QED
      BY <2>1, <2>3, <3>1 DEF Account
  <2> QED
    BY <2>2, <2>3
<1> QED
  BY <1>1, PipelineInvariant, PTL

\* No task follows a pointer to a freed buffer: each pointer that is set is a
\* place that holds the buffer, and the frame that was handed to gain control
\* is still in its queue when it is sent.
THEOREM NoTaskUsesFreed == Spec => []NoUseAfterFree
<1>1. PipelineInv => NoUseAfterFree
  <2> SUFFICES ASSUME PipelineInv PROVE NoUseAfterFree
    OBVIOUS
  <2>0. /\ PtrType /\ MemType /\ PtrOK /\ OneInFlight /\ Account /\ lent \in BOOLEAN
    BY DEF PipelineInv, TypeInv, TypeOK, HandOver, Ownership
  <2>1. \A p \in Pbufs : Held(p) => ref[p] > 0
    BY <2>0 DEF Account, MemType
  <2>2. \A t \in Tasks : buf[t] # NoPbuf => buf[t] \in Pbufs /\ Held(buf[t])
    BY <2>0 DEF PtrType, Held, Holds, Tasks, Places
  <2>3. pc["udp"] # "recv" => old \in Pbufs
    BY <2>0 DEF PtrOK
  <2>4. old \in Pbufs => Held(old)
    <3>1. CASE lent
      BY <2>0, <3>1 DEF OneInFlight, Held, Holds, Places
    <3>2. CASE ~lent
      BY <3>2 DEF Held, Holds, Places
    <3> QED
      BY <3>1, <3>2
  <2> QED
    BY <2>1, <2>2, <2>3, <2>4, PipelineAssumption DEF NoUseAfterFree, PipelineAssumption
<1> QED
  BY <1>1, PipelineInvariant, PTL

\* Gain control analyses a frame only after udp_send has moved its payload.
THEOREM AnalysedAfterSent == Spec => []AgcReadsSentFrame
<1>1. PipelineInv => AgcReadsSentFrame
  BY DEF PipelineInv, Ownership, Marks, AgcReadsSentFrame
<1> QED
  BY <1>1, PipelineInvariant, PTL

-----------------------------------------------------------------------------
(* The steps of Relay.                                                     *)

\* What the refinement needs besides: a frame at hand is complete, and the
\* branches of parse_msg belong to the command in the buffer.
Orders ==
    /\ FrameAtHand => count = PacketsPerFrame
    /\ pc["tcp"] \in {"resume", "nominal"} => kind[buf["tcp"]] = "auto"
    /\ pc["tcp"] \in {"suspend", "manual"} => kind[buf["tcp"]] = "manual"

RelayStep == [R!Next]_(R!vars)

\* A step that the mapping does not see.
LEMMA StepStutter ==
    ASSUME Collected' = Collected, Transmitted' = Transmitted, pl' = pl, Order' = Order
    PROVE  RelayStep
BY DEF RelayStep, R!vars, R!video, R!gain

\* A packet is merged: a step of the relay's frame.
LEMMA StepCollect ==
    ASSUME Collected < PacketsPerFrame, Collected' = Collected + 1,
           Transmitted' = Transmitted, pl' = pl, Order' = Order
    PROVE  RelayStep
BY DEF RelayStep, R!Next, R!Collect, R!gain

\* udp_send transmits the frame.
LEMMA StepTransmit ==
    ASSUME Collected = PacketsPerFrame, Transmitted = FALSE, Transmitted' = TRUE,
           Collected' = Collected, pl' = pl, Order' = Order
    PROVE  RelayStep
BY DEF RelayStep, R!Next, R!Transmit, R!gain

\* The first packet of the next frame.
LEMMA StepBegin ==
    ASSUME Transmitted = TRUE, Transmitted' = FALSE, Collected' = 0,
           pl' = pl, Order' = Order
    PROVE  RelayStep
BY DEF RelayStep, R!Next, R!Begin, R!gain

\* A command reaches the command task.
LEMMA StepAccept ==
    ASSUME Order = "none", Order' \in {"auto", "manual"}, Collected < PacketsPerFrame,
           Collected' = Collected, Transmitted' = Transmitted, pl' = pl
    PROVE  RelayStep
BY DEF RelayStep, R!Next, R!Accept, R!video, R!Wanted

\* The command takes effect on the gain.
LEMMA StepObey ==
    ASSUME \/ Order = "auto" /\ pl' = "agc"
           \/ Order = "manual" /\ pl' = "manual",
           Order' = "none", Collected' = Collected, Transmitted' = Transmitted
    PROVE  RelayStep
BY DEF RelayStep, R!Next, R!Obey, R!video, R!Wanted

\* Every step of the pipeline is a step of the relay or invisible to it.
LEMMA RelayNext ==
    PipelineInv /\ Orders /\ [Next]_vars => Orders' /\ RelayStep
<1> SUFFICES ASSUME PipelineInv, Orders, [Next]_vars PROVE Orders' /\ RelayStep
  OBVIOUS
<1>0. /\ TaskType /\ QueueType /\ PtrType /\ MemType /\ lent \in BOOLEAN /\ PtrOK
      /\ OneInFlight /\ GainInv /\ Account /\ Shape /\ Marks
  BY DEF PipelineInv, TypeInv, TypeOK, HandOver, Ownership
<1> USE <1>0, PipelineAssumption
    DEF PipelineAssumption, At, Goto, taskVars, queueVars, mergeVars, memVars,
        Collected, Transmitted, Order, FrameAtHand, Executing, Orders, Tasks,
        TaskType, PtrType
<1>1. CASE Preempt
  <2>1. UNCHANGED <<Collected, Transmitted, Order, pl>> /\ Orders'
    BY <1>1 DEF Preempt
  <2> QED
    BY <2>1, StepStutter
<1>2. CASE InputPoll
  <2>1. UNCHANGED <<Collected, Transmitted, Order, pl>> /\ Orders'
    BY <1>2 DEF InputPoll
  <2> QED
    BY <2>1, StepStutter
<1>3. CASE udp_receive_callback
  <2>1. UNCHANGED <<Collected, Transmitted, Order, pl>> /\ Orders'
    BY <1>3 DEF udp_receive_callback
  <2> QED
    BY <2>1, StepStutter
<1>4. CASE recv_callback
  <2>1. UNCHANGED <<Collected, Transmitted, Order, pl>> /\ Orders'
    BY <1>4 DEF recv_callback
  <2> QED
    BY <2>1, StepStutter
<1>5. CASE InputConsume
  <2>1. UNCHANGED <<Collected, Transmitted, Order, pl>> /\ Orders'
    BY <1>5 DEF InputConsume
  <2> QED
    BY <2>1, StepStutter
<1>6. CASE InputUnwind
  <2>1. UNCHANGED <<Collected, Transmitted, Order, pl>> /\ Orders'
    BY <1>6 DEF InputUnwind
  <2> QED
    BY <2>1, StepStutter
<1>7. CASE InputYield
  <2>1. UNCHANGED <<Collected, Transmitted, Order, pl>> /\ Orders'
    BY <1>7 DEF InputYield
  <2> QED
    BY <2>1, StepStutter
<1>8. CASE UdpBlock
  <2>1. UNCHANGED <<Collected, Transmitted, Order, pl>> /\ Orders'
    BY <1>8 DEF UdpBlock
  <2> QED
    BY <2>1, StepStutter
<1>9. CASE UdpFirst
  <2>1. /\ Collected = 0 /\ Collected' = 1 /\ 0 < PacketsPerFrame
        /\ UNCHANGED <<Transmitted, Order, pl>> /\ Orders'
    BY <1>9 DEF UdpFirst
  <2> QED
    BY <2>1, StepCollect
<1>10. CASE UdpNext
  <2>1. UNCHANGED <<Collected, Transmitted, Order, pl>> /\ Orders'
    BY <1>10 DEF UdpNext
  <2> QED
    BY <2>1, StepStutter
<1>11. CASE UdpMerge
  <2>1. Orders' /\ UNCHANGED <<Order, pl>>
    BY <1>11 DEF UdpMerge, FrameComplete
  <2>2. Transmitted = FALSE /\ Transmitted' = FALSE
    BY <1>11 DEF UdpMerge
  <2>3. Collected < PacketsPerFrame /\ Collected' = Collected + 1
    BY <1>11 DEF UdpMerge, FrameComplete
  <2> QED
    BY <2>1, <2>2, <2>3, StepCollect
<1>12. CASE UdpCheck
  <2>1. Transmitted = FALSE /\ Transmitted' = FALSE
    BY <1>12 DEF UdpCheck, Marks
  <2>2. UNCHANGED <<Collected, Order, pl>> /\ Orders'
    BY <1>12 DEF UdpCheck
  <2> QED
    BY <2>1, <2>2, StepStutter
<1>13. CASE UdpPost
  <2>1. UNCHANGED <<Collected, Transmitted, Order, pl>> /\ Orders'
    BY <1>13 DEF UdpPost
  <2> QED
    BY <2>1, StepStutter
<1>14. CASE UdpSend
  <2>1. Transmitted = FALSE /\ Transmitted' = TRUE
    BY <1>14 DEF UdpSend, udp_send
  <2>2. Collected = PacketsPerFrame /\ UNCHANGED <<Collected, Order, pl>> /\ Orders'
    BY <1>14 DEF UdpSend
  <2> QED
    BY <2>1, <2>2, StepTransmit
<1>15. CASE UdpRecheck
  <2>1. CASE st["agc"] = "suspended"
    <3>1. lent = FALSE /\ Transmitted = FALSE /\ Transmitted' = FALSE
      BY <1>15, <2>1 DEF UdpRecheck, Marks, OneInFlight
    <3>2. UNCHANGED <<Collected, Order, pl>> /\ Orders'
      BY <1>15, <2>1 DEF UdpRecheck
    <3> QED
      BY <3>1, <3>2, StepStutter
  <2>2. CASE st["agc"] # "suspended"
    <3>1. lent = TRUE /\ Transmitted = TRUE
      BY <1>15, <2>2 DEF UdpRecheck, Marks, OneInFlight
    <3>2. Transmitted' = FALSE /\ Collected' = 0 /\ UNCHANGED <<Order, pl>> /\ Orders'
      BY <1>15, <2>2 DEF UdpRecheck, FrameDone
    <3> QED
      BY <3>1, <3>2, StepBegin
  <2> QED
    BY <2>1, <2>2
<1>16. CASE UdpSendOwn
  <2>1. Transmitted = FALSE /\ Transmitted' = TRUE
    BY <1>16 DEF UdpSendOwn, udp_send
  <2>2. Collected = PacketsPerFrame /\ UNCHANGED <<Collected, Order, pl>> /\ Orders'
    BY <1>16 DEF UdpSendOwn
  <2> QED
    BY <2>1, <2>2, StepTransmit
<1>17. CASE UdpFree
  <2>1. Transmitted = TRUE
    BY <1>17 DEF UdpFree, Marks
  <2>2. Transmitted' = FALSE /\ Collected' = 0 /\ UNCHANGED <<Order, pl>> /\ Orders'
    BY <1>17 DEF UdpFree, FrameDone
  <2> QED
    BY <2>1, <2>2, StepBegin
<1>18. CASE AgcBlock
  <2>1. UNCHANGED <<Collected, Transmitted, Order, pl>> /\ Orders'
    BY <1>18 DEF AgcBlock
  <2> QED
    BY <2>1, StepStutter
<1>19. CASE AgcTake
  <2>1. UNCHANGED <<Collected, Transmitted, Order, pl>> /\ Orders'
    BY <1>19 DEF AgcTake
  <2> QED
    BY <2>1, StepStutter
<1>20. CASE AgcCompute
  <2>1. st["agc"] = "ready" /\ pc["tcp"] = "recv"
    BY <1>20, TopIs DEF AgcCompute, OneInFlight, TcpActive, Workers
  <2>2. pl' = pl
    BY <1>20, <2>1 DEF AgcCompute, GainInv
  <2>3. UNCHANGED <<Collected, Transmitted, Order>> /\ Orders'
    BY <1>20 DEF AgcCompute
  <2> QED
    BY <2>2, <2>3, StepStutter
<1>21. CASE AgcFree
  <2>1. UNCHANGED <<Collected, Transmitted, Order, pl>> /\ Orders'
    BY <1>21 DEF AgcFree
  <2> QED
    BY <2>1, StepStutter
<1>22. CASE TcpBlock
  <2>1. UNCHANGED <<Collected, Transmitted, Order, pl>> /\ Orders'
    BY <1>22 DEF TcpBlock
  <2> QED
    BY <2>1, StepStutter
<1>23. CASE TcpTake
  <2>1. pc["udp"] = "recv"
    BY <1>23 DEF TcpTake, OneInFlight, TcpActive, UdpActive
  <2>2. Collected < PacketsPerFrame /\ UNCHANGED <<Collected, Transmitted, pl>> /\ Orders'
    BY <1>23, <2>1 DEF TcpTake
  <2>3. Order = "none" /\ Order' \in {"none", "auto", "manual"}
    BY <1>23 DEF TcpTake
  <2> QED
    BY <2>2, <2>3, StepAccept, StepStutter
<1>24. CASE TcpParse
  <2>1. UNCHANGED <<Collected, Transmitted, Order, pl>> /\ Orders'
    BY <1>24 DEF TcpParse
  <2> QED
    BY <2>1, StepStutter
<1>25. CASE TcpEcho
  <2>1. UNCHANGED <<Collected, Transmitted, Order, pl>> /\ Orders'
    BY <1>25 DEF TcpEcho, AfterEcho
  <2> QED
    BY <2>1, StepStutter
<1>26. CASE TcpResume
  <2>1. UNCHANGED <<Collected, Transmitted, Order, pl>> /\ Orders'
    BY <1>26 DEF TcpResume
  <2> QED
    BY <2>1, StepStutter
<1>27. CASE TcpNominal
  <2>1. Order = "auto" /\ pl' = "agc" /\ Order' = "none"
    BY <1>27 DEF TcpNominal
  <2>2. UNCHANGED <<Collected, Transmitted>> /\ Orders'
    BY <1>27 DEF TcpNominal
  <2> QED
    BY <2>1, <2>2, StepObey
<1>28. CASE TcpSuspend
  <2>1. UNCHANGED <<Collected, Transmitted, Order, pl>> /\ Orders'
    BY <1>28 DEF TcpSuspend
  <2> QED
    BY <2>1, StepStutter
<1>29. CASE TcpManual
  <2>1. Order = "manual" /\ pl' = "manual" /\ Order' = "none"
    BY <1>29 DEF TcpManual
  <2>2. UNCHANGED <<Collected, Transmitted>> /\ Orders'
    BY <1>29 DEF TcpManual
  <2> QED
    BY <2>1, <2>2, StepObey
<1>30. CASE TcpFree
  <2>1. UNCHANGED <<Collected, Transmitted, Order, pl>> /\ Orders'
    BY <1>30 DEF TcpFree
  <2> QED
    BY <2>1, StepStutter
<1>31. ASSUME NEW b \in Pbufs, NEW k \in Kinds, NicReceive(b, k)
       PROVE  Orders' /\ RelayStep
  <2>1. ~Held(b)
    BY <1>31 DEF NicReceive, Account, MemType
  <2>2. buf["tcp"] # b /\ (old = b => lent = TRUE) /\ agcq # <<b>>
    BY <2>1 DEF Held, Holds, Places
  <2>3. old # b
    BY <2>2 DEF OneInFlight
  <2>4. pc["tcp"] # "recv" => buf["tcp"] \in Pbufs
    BY DEF Shape
  <2>5. UNCHANGED <<Collected, Transmitted, Order, pl>> /\ Orders'
    BY <1>31, <2>2, <2>3, <2>4 DEF NicReceive, MemType
  <2> QED
    BY <2>5, StepStutter
<1>32. ASSUME NEW b \in Pbufs, TxDone(b)
       PROVE  Orders' /\ RelayStep
  <2>1. UNCHANGED <<Collected, Transmitted, Order, pl>> /\ Orders'
    BY <1>32 DEF TxDone
  <2> QED
    BY <2>1, StepStutter
<1>33. CASE UNCHANGED vars
  <2>1. UNCHANGED <<Collected, Transmitted, Order, pl>> /\ Orders'
    BY <1>33 DEF vars
  <2> QED
    BY <2>1, StepStutter
<1> QED
  BY <1>1, <1>2, <1>3, <1>4, <1>5, <1>6, <1>7, <1>8, <1>9, <1>10, <1>11, <1>12,
     <1>13, <1>14, <1>15, <1>16, <1>17, <1>18, <1>19, <1>20, <1>21, <1>22, <1>23,
     <1>24, <1>25, <1>26, <1>27, <1>28, <1>29, <1>30, <1>31, <1>32, <1>33
  DEF Next, Input, Udp, Agc, Tcp

\* The pipeline starts where the relay does.
LEMMA RelayInit == Init => Orders /\ R!Init
<1> SUFFICES ASSUME Init PROVE Orders /\ R!Init
  OBVIOUS
<1>1. /\ pc = [t \in Tasks |-> IF t = "input" THEN "poll" ELSE "recv"]
      /\ count = 1 /\ pl = "agc"
  BY DEF Init
<1>2. Orders
  BY <1>1 DEF Orders, FrameAtHand, Tasks
<1>3. Collected = 0 /\ Transmitted = FALSE /\ Order = "none"
  BY <1>1 DEF Collected, Transmitted, Order, FrameAtHand, Executing, Tasks
<1> QED
  BY <1>1, <1>2, <1>3 DEF R!Init

\* Whatever is preempted where, each step of the tasks is a step of Relay or
\* invisible: a frame is made of PacketsPerFrame packets and leaves exactly once
\* before the next one is begun, the gain changes hands only on a command, and
\* commands and frames do not overlap.  (That frames and commands do not get
\* stuck, the fairness part of Relays, is left to TLC.)
THEOREM RelaySteps == Spec => R!Init /\ [][R!Next]_(R!vars)
<1>1. PipelineInv /\ Orders /\ [Next]_vars => Orders' /\ [R!Next]_(R!vars)
  BY RelayNext DEF RelayStep
<1> QED
  BY <1>1, RelayInit, PipelineInvariant, PTL DEF Spec
=============================================================================

------------------------ MODULE CommandDecodeProofs ------------------------
(***************************************************************************)
(* What parse_msg does with every message, of any length and content: the  *)
(* answer is the command, the gain is in range and of the documented       *)
(* commands all but one are recorded as what they are.                     *)
(***************************************************************************)
EXTENDS CommandDecode, TLAPS

Message == [len : Nat, first : 0 .. 255, key : 0 .. 255]

\* A segment that is independent of the buffer.
Answers == {tcp_write(m) : m \in Message}

\* The message stays a message while it is changed in place, every segment is
\* a copy of its command, and the monitor is set before the buffer is freed.
DecodeInv ==
    /\ pbuf \in Message
    /\ pc \in {"wait", "amplitude", "finish", "free"}
    /\ tx \in Seq(Answers) /\ wire \in Answers
    /\ plw \in 1 .. 127
    /\ pc = "free" => \E before : mon = Decode(pbuf, before)

\* The environment sends messages.
LEMMA MessagesTyped == Messages \subseteq Message /\ None \in Message
<1>1. None \in Message
  BY DEF Message, None
<1>2. ASSUME NEW m \in Messages PROVE m \in Message
  <2>1. m \in [len : Lengths, first : Firsts, key : Keys]
    BY DEF Messages
  <2>2. /\ Lengths \subseteq Nat /\ Firsts \subseteq 0 .. 255 /\ Keys \subseteq 0 .. 255
    BY DecodeAssumption DEF DecodeAssumption
  <2> QED
    BY <2>1, <2>2 DEF Message
<1> QED
  BY <1>1, <1>2

\* Sending a copy does not look at the buffer, whatever it holds by then.
LEMMA CopySent ==
    ASSUME NEW a \in Answers, NEW p
    PROVE  [a EXCEPT !.data = IF a.ref THEN p ELSE @] \in Answers
<1>1. PICK m \in Message : a = [data |-> m, ref |-> FALSE, answers |-> m]
  BY DEF Answers, tcp_write
<1>2. [a EXCEPT !.data = IF a.ref THEN p ELSE @] = [data |-> m, ref |-> FALSE, answers |-> m]
  BY <1>1
<1> QED
  BY <1>2 DEF Answers, tcp_write

\* The invariant holds before the first message.
LEMMA DecodeInit == Init => DecodeInv
<1> SUFFICES ASSUME Init PROVE DecodeInv
  OBVIOUS
<1>1. wire \in Answers /\ pbuf \in Message
  BY MessagesTyped DEF Init, Answers
<1>2. tx \in Seq(Answers)
  BY DEF Init
<1>3. pc = "wait" /\ plw \in 1 .. 127
  BY DEF Init, CMD_CTRL_AMPL_MAX_VALUE
<1> QED
  BY <1>1, <1>2, <1>3 DEF DecodeInv

\* Every step keeps the invariant.
LEMMA DecodeNext == DecodeInv /\ [Next]_vars => DecodeInv'
<1> SUFFICES ASSUME DecodeInv, [Next]_vars PROVE DecodeInv'
  OBVIOUS
<1>1. ASSUME NEW m \in Messages, Receive(m) PROVE DecodeInv'
  <2>1. m \in Message /\ tcp_write(m) \in Answers /\ tcp_write(None) \in Answers
    BY MessagesTyped DEF Answers
  <2>2. tx' \in Seq(Answers) /\ wire' \in Answers
    BY <1>1, <2>1 DEF Receive, DecodeInv
  <2>3. pbuf' = m /\ pc' \in {"amplitude", "finish"} /\ plw' = plw
    BY <1>1 DEF Receive
  <2> QED
    BY <2>1, <2>2, <2>3 DEF DecodeInv
<1>2. CASE Automatic
  <2>1. pbuf \in Message
    BY DEF DecodeInv
  <2>2. [pbuf EXCEPT !.first = 127] \in Message
    BY <2>1 DEF Message
  <2>3. pbuf' \in Message
    BY <1>2, <2>2 DEF Automatic
  <2>4. plw' \in 1 .. 127 /\ pc' = "finish" /\ UNCHANGED <<tx, wire>>
    BY <1>2 DEF Automatic
  <2> QED
    BY <2>3, <2>4 DEF DecodeInv
<1>3. CASE Manual
  <2>1. pbuf.first \in 0 .. 255
    BY DEF DecodeInv, Message
  <2>2. pbuf.first \in 1 .. 127
    BY <1>3, <2>1 DEF Manual, CMD_CTRL_AMPL_MIN_VALUE, CMD_CTRL_AMPL_MAX_VALUE
  <2> QED
    BY <1>3, <2>2 DEF Manual, DecodeInv
<1>4. CASE Miss
  BY <1>4 DEF Miss, DecodeInv
<1>5. CASE Finish
  <2>1. mon' = Decode(pbuf, mon) /\ UNCHANGED <<pbuf, tx, wire, plw>> /\ pc' = "free"
    BY <1>5 DEF Finish
  <2>2. (\E before : mon = Decode(pbuf, before))'
    BY <2>1 DEF Decode
  <2> QED
    BY <2>1, <2>2 DEF DecodeInv
<1>6. CASE Free
  BY <1>6, MessagesTyped DEF Free, DecodeInv
<1>7. CASE Transmit
  <2>1. Head(tx) \in Answers /\ Tail(tx) \in Seq(Answers)
    BY <1>7 DEF Transmit, DecodeInv
  <2>2. wire' \in Answers
    BY <1>7, <2>1, CopySent DEF Transmit
  <2>3. tx' \in Seq(Answers) /\ UNCHANGED <<pbuf, pc, mon, plw>> /\ pc = "wait"
    BY <1>7, <2>1 DEF Transmit
  <2> QED
    BY <2>2, <2>3 DEF DecodeInv
<1>8. CASE UNCHANGED vars
  BY <1>8 DEF vars, DecodeInv, Decode, get_tetrada
<1> QED
  BY <1>1, <1>2, <1>3, <1>4, <1>5, <1>6, <1>7, <1>8 DEF Next

\* The inductive invariant of the command task.
THEOREM DecodeInvariant == Spec => []DecodeInv
BY DecodeInit, DecodeNext, PTL DEF Spec

\* "the response matches the command", however late the answer is sent.
THEOREM EchoCorrect == Spec => []EchoMatchesCommand
<1>1. DecodeInv => EchoMatchesCommand
  BY DEF DecodeInv, Answers, tcp_write, EchoMatchesCommand
<1> QED
  BY <1>1, DecodeInvariant, PTL

\* The programmable logic never gets a gain outside 1 .. 127.
THEOREM GainCorrect == Spec => []GainInRange
<1>1. DecodeInv => GainInRange
  BY DEF DecodeInv, GainInRange
<1> QED
  BY <1>1, DecodeInvariant, PTL

\* A message in a documented form is decoded to its command, whatever the
\* monitor held before; only 01C9 is decoded to a telemetry request.
LEMMA DocumentedDecodes ==
    ASSUME NEW m \in Message, NEW before, Documented(m) # 0
    PROVE  \/ Decode(m, before) = Documented(m)
           \/ /\ Documented(m) = CMD_RESET_FAULTS
              /\ Decode(m, before) = CMD_TELEMETRY_REQS
<1> USE DEF u8, get_tetrada, Message, Compared, CMD_STOP, CMD_START, CMD_WORKTYPE_SET,
            CMD_CTRL_AMPL, CMD_SEA_FILTER, CMD_PREC_FILTER, CMD_VELOCITY,
            CMD_FREQ_CHGE, CMD_TELEMETRY_REQS, CMD_BLANK_SEC, CMD_TOB_VALUE_REQS,
            CMD_WORKTYPE_REQS, CMD_TOB_POINT, CMD_RESET_FAULTS
<1>1. CASE m.len = 2 /\ m.key \in Compared
  <2>1. Decode(m, before) = m.key
    BY <1>1 DEF Decode
  <2> QED
    BY <1>1, <2>1 DEF Documented
<1>2. CASE m.len = 6 /\ m.key = 199
  <2>1. Documented(m) = CMD_BLANK_SEC
    BY <1>2 DEF Documented
  <2>2. u8(m.len) >= 6
    BY <1>2
  <2>3. Decode(m, before) = CMD_BLANK_SEC
    BY <2>2 DEF Decode
  <2> QED
    BY <2>1, <2>3
<1>3. CASE m.len = 2 /\ m.key \in 242 .. 248
  BY <1>3 DEF Documented, Decode
<1>4. CASE m.len = 3 /\ m.key = 208
  BY <1>4 DEF Documented, Decode
<1>5. \/ m.len = 2 /\ m.key \in Compared
      \/ m.len = 6 /\ m.key = 199
      \/ m.len = 2 /\ m.key \in 242 .. 248
      \/ m.len = 3 /\ m.key = 208
  BY DEF Documented
<1> QED
  BY <1>1, <1>2, <1>3, <1>4, <1>5

\* For every message: of the commands cmd.h documents, 01C9 is the only one that
\* is not recorded as itself, and it is recorded as a telemetry request.
THEOREM MisreadOnlyOne == Spec => []OnlyResetFaultsMisread
<1>1. DecodeInv => OnlyResetFaultsMisread
  <2> SUFFICES ASSUME DecodeInv, pc = "free", Documented(pbuf) # 0,
                      mon # Documented(pbuf)
               PROVE  Documented(pbuf) = CMD_RESET_FAULTS /\ mon = CMD_TELEMETRY_REQS
    BY DEF OnlyResetFaultsMisread
  <2>1. PICK before : mon = Decode(pbuf, before)
    BY DEF DecodeInv
  <2> QED
    BY <2>1, DocumentedDecodes DEF DecodeInv
<1> QED
  BY <1>1, DecodeInvariant, PTL
=============================================================================

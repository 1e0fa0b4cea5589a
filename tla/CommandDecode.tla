--------------------------- MODULE CommandDecode ---------------------------
(***************************************************************************)
(* parse_msg: how a command of the TCP link is recognised, answered and    *)
(* passed on to the programmable logic.                                    *)
(*                                                                         *)
(* parse_msg looks at three things only: the length, truncated to uint8_t, *)
(* the first byte and the byte at the (truncated) end.  A message is the   *)
(* record of these: len, first and key.                                    *)
(***************************************************************************)
EXTENDS Naturals, Sequences

CONSTANTS
    Lengths,   \* lengths of a message (p->len)
    Firsts,    \* values of the first byte
    Keys,      \* values of the byte parse_msg takes for the last one
    TxBound    \* bound on unsent answers

ASSUME DecodeAssumption ==
    /\ Lengths \subseteq Nat \ {0}
    /\ Firsts \subseteq 0 .. 255 /\ Keys \subseteq 0 .. 255
    /\ TxBound \in Nat \ {0}

VARIABLES
    pbuf,   \* the message in the buffer, None when the command task waits
    pc,     \* where parse_msg is
    tx,     \* segments tcp_write has queued: data, by reference or not, and
            \* (auxiliary) the command answered
    wire,   \* the segment sent since the last command
    mon,    \* monitor->last_recv_cmd
    plw     \* the last gain written to the programmable logic

vars == <<pbuf, pc, tx, wire, mon, plw>>

None == [len |-> 0, first |-> 0, key |-> 0]

CMD_STOP == 192
CMD_START == 193
CMD_WORKTYPE_SET == 194
CMD_CTRL_AMPL == 195
CMD_SEA_FILTER == 196
CMD_PREC_FILTER == 197
CMD_VELOCITY == 198
CMD_BLANK_SEC == 199
CMD_FREQ_CHGE == 200
CMD_TELEMETRY_REQS == 201
CMD_RESET_FAULTS == 457
CMD_WORKTYPE_REQS == 15
CMD_TOB_POINT == 13
CMD_TOB_VALUE_REQS == 14

\* The commands of the 0xC group that parse_msg compares the last byte with.
Compared == {CMD_STOP, CMD_START, CMD_WORKTYPE_SET, CMD_CTRL_AMPL,
             CMD_SEA_FILTER, CMD_PREC_FILTER, CMD_VELOCITY, CMD_FREQ_CHGE,
             CMD_TELEMETRY_REQS}

-----------------------------------------------------------------------------
u8(n) == n % 256

\* The upper half of the last byte; 0 for a length that truncates to 0.
get_tetrada(m) == IF u8(m.len) = 0 THEN 0 ELSE m.key \div 16

\* Mutation: the blank sector is recognised from seven bytes on.
DecodeLate(m, before) ==
    IF u8(m.len) > 6 THEN CMD_BLANK_SEC
    ELSE CASE get_tetrada(m) = 14 -> CMD_TOB_VALUE_REQS
           [] get_tetrada(m) = 15 -> CMD_WORKTYPE_REQS
           [] get_tetrada(m) = 13 -> CMD_TOB_POINT
           [] get_tetrada(m) = 12 ->
                 IF m.key \in Compared THEN m.key ELSE CMD_RESET_FAULTS
           [] OTHER -> before

\* What parse_msg stores in last_recv_cmd, given the value before.
Decode(m, before) ==
    IF u8(m.len) >= 6 THEN CMD_BLANK_SEC
    ELSE CASE get_tetrada(m) = 14 -> CMD_TOB_VALUE_REQS
           [] get_tetrada(m) = 15 -> CMD_WORKTYPE_REQS
           [] get_tetrada(m) = 13 -> CMD_TOB_POINT
           [] get_tetrada(m) = 12 ->
                 IF m.key \in Compared THEN m.key ELSE CMD_RESET_FAULTS
           [] OTHER -> before   \* "Command not found!"

IsAmplitude(m) ==
    u8(m.len) < 6 /\ get_tetrada(m) = 12 /\ m.key = CMD_CTRL_AMPL

CMD_CTRL_AMPL_AUTO_VALUE == 255
CMD_CTRL_AMPL_MAX_VALUE == 127
CMD_CTRL_AMPL_MIN_VALUE == 0

\* Mutation: the payload is queued by reference, without TCP_WRITE_FLAG_COPY.
WriteByReference(m) == [data |-> m, ref |-> TRUE, answers |-> m]

\* tcp_write(tcp_pcb, p->payload, p->len, 1): a copy of the payload.
tcp_write(m) == [data |-> m, ref |-> FALSE, answers |-> m]

-----------------------------------------------------------------------------
\* With the length truncated to one, first and last byte are the same.
Messages == {m \in [len : Lengths, first : Firsts, key : Keys] :
                u8(m.len) = 1 => m.first = m.key}

Init ==
    /\ pbuf = None /\ pc = "wait" /\ tx = <<>>
    /\ wire = tcp_write(None)
    /\ mon = 0 /\ plw = CMD_CTRL_AMPL_MAX_VALUE

\* xQueueReceive and the first half of parse_msg.
Receive(m) ==
    /\ pc = "wait" /\ Len(tx) < TxBound
    /\ pbuf' = m
    /\ IF IsAmplitude(m)
       THEN tx' = Append(tx, tcp_write(m)) /\ pc' = "amplitude"
       ELSE tx' = tx /\ pc' = "finish"
    /\ wire' = tcp_write(None)
    /\ UNCHANGED <<mon, plw>>

\* Mutation: the gain is not replaced before it is passed on.
AutomaticRaw ==
    /\ pc = "amplitude" /\ pbuf.first = CMD_CTRL_AMPL_AUTO_VALUE
    /\ plw' = pbuf.first
    /\ pc' = "finish"
    /\ UNCHANGED <<pbuf, tx, wire, mon>>

\* FF: the first byte is overwritten in place, then sent to the logic.
Automatic ==
    /\ pc = "amplitude" /\ pbuf.first = CMD_CTRL_AMPL_AUTO_VALUE
    /\ pbuf' = [pbuf EXCEPT !.first = 127]
    /\ plw' = 127
    /\ pc' = "finish"
    /\ UNCHANGED <<tx, wire, mon>>

Manual ==
    /\ pc = "amplitude"
    /\ pbuf.first > CMD_CTRL_AMPL_MIN_VALUE
    /\ pbuf.first < CMD_CTRL_AMPL_MAX_VALUE
    /\ plw' = pbuf.first
    /\ pc' = "finish"
    /\ UNCHANGED <<pbuf, tx, wire, mon>>

Miss ==
    /\ pc = "amplitude"
    /\ pbuf.first # CMD_CTRL_AMPL_AUTO_VALUE
    /\ \/ pbuf.first <= CMD_CTRL_AMPL_MIN_VALUE
       \/ pbuf.first >= CMD_CTRL_AMPL_MAX_VALUE
    /\ pc' = "finish"
    /\ UNCHANGED <<pbuf, tx, wire, mon, plw>>

\* monitor->last_recv_cmd = ...
Finish ==
    /\ pc = "finish"
    /\ mon' = Decode(pbuf, mon)
    /\ pc' = "free"
    /\ UNCHANGED <<pbuf, tx, wire, plw>>

\* pbuf_free: the contents of the buffer are lost.
Free ==
    /\ pc = "free"
    /\ pbuf' = None
    /\ pc' = "wait"
    /\ UNCHANGED <<tx, wire, mon, plw>>

\* tcp_output, some time later: a segment queued by reference would go out
\* with what the buffer holds then.
Transmit ==
    /\ tx # <<>> /\ pc = "wait"
    /\ wire' = [Head(tx) EXCEPT !.data = IF Head(tx).ref THEN pbuf ELSE @]
    /\ tx' = Tail(tx)
    /\ UNCHANGED <<pbuf, pc, mon, plw>>

Next ==
    \/ \E m \in Messages : Receive(m)
    \/ Automatic \/ Manual \/ Miss \/ Finish \/ Free \/ Transmit

Spec == Init /\ [][Next]_vars

-----------------------------------------------------------------------------
\* "the response matches the command": what goes out is what came in, although
\* the buffer is changed and freed before the answer is sent.
EchoMatchesCommand == wire.data = wire.answers

\* The logic is only ever given a gain the manual range or the nominal value
\* allow: neither 0, nor the AUTO code, nor a byte of another command.
GainInRange == plw \in 1 .. 127

\* The messages cmd.h documents, by the command they stand for.
Documented(m) ==
    CASE m.len = 2 /\ m.key \in Compared \ {CMD_TELEMETRY_REQS} -> m.key
      [] m.len = 2 /\ m.key = 201 /\ m.first = 0 -> CMD_TELEMETRY_REQS
      [] m.len = 2 /\ m.key = 201 /\ m.first = 1 -> CMD_RESET_FAULTS
      [] m.len = 6 /\ m.key = 199 -> CMD_BLANK_SEC
      [] m.len = 2 /\ m.first = 0 /\ m.key \in 242 .. 248 -> CMD_WORKTYPE_REQS
      [] m.len = 3 /\ m.key = 208 -> CMD_TOB_POINT
      [] OTHER -> 0

\* cmd.h: every command in the form it documents there is recorded as that
\* command in last_recv_cmd.
DocumentedDecoded ==
    pc = "free" /\ Documented(pbuf) # 0 => mon = Documented(pbuf)

\* The only documented command that parse_msg takes for another one is 01C9,
\* reset faults, and it is always taken for a telemetry request.
OnlyResetFaultsMisread ==
    pc = "free" /\ Documented(pbuf) # 0 /\ mon # Documented(pbuf)
        => Documented(pbuf) = CMD_RESET_FAULTS /\ mon = CMD_TELEMETRY_REQS
=============================================================================

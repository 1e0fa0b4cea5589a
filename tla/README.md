# A TLA+ model of the Zynq radar video relay

The firmware in `src/` runs on CPU0 of a Zynq-7000 under FreeRTOS 10 and lwIP
2.1.1 (raw API, `NO_SYS 1`). It receives radar video as ASTERIX CAT240 packets
on UDP port 5005, merges every ten packets into one frame by taking the peak of
each sample, sends the frame on, and derives from it the gain of the receiver. An
operator's station at 192.168.1.100 commands it over a TCP link (port 7). This
directory holds the TLA+ modules that model it, their TLC configurations, and
TLAPS proofs of the results that hold for every value of the constants.
`PROJECT.json` lists components, runs, mutants, source lines of every
definition, hazards, findings and theorems.

Paths are relative to the directory that contains `src/`: the firmware is in
`src/src/`, the vendored kernel and network stack in
`src/external/ps7_cortexa9_0/libsrc/`.

## 1. Inventory

### Components

| Component | State | Operations | Module |
|---|---|---|---|
| Video pipeline (`main.c` 47-170, `iwip.c` callbacks) | 4 tasks, 3 queues of pbuf pointers, `counter_of_packets`, `old_pbuf`, pbuf reference counts | receive callbacks, merge loop, hand-over to gain control, `udp_send`, `pbuf_free` | `VideoPipeline`, `PipelineRelay`; abstract: `Relay` |
| Peak merge (`main.c` 82-111) | `kursor`, `total_len`, two chains of fragments | one pass along the chain per packet | `PeakMerge` |
| Automatic gain control (`auto_gain_control.c`) | per line: `counter_repetition`, `flag_cgange`, `curent_gain`; `old_gain_value` | one frame: mark the weakening zone, weaken, clean the line behind the zone, write the gain; the scan over the samples of a sent frame | `AutoGain`, `AutoGainSweep`; the scan: `FrameScan` |
| Command decoding (`iwip.c` 249-373, `cmd.h`) | `monitor->last_recv_cmd`, lwIP's send queue, gain in the logic | `parse_msg`, `get_tetrada` | `CommandDecode` |
| Command link (`iwip.c` 136-246, 376-387) | `tcp_pcb`, `stat_tcp_con`, lwIP's PCB, receive window, the SYN and the peer's ARP entry | connect, error, connected and receive callbacks, close, retransmission | `TcpLink`, composed in `BootSequence` |
| Start-up (`main.c` 24-44, `diag.c`) | which queues and tasks exist, the FreeRTOS heap | the steps of `network_init_task` | `BootSequence` |
| TCP timer flags (`ttc_timer.c`, `main.c` 156-166) | three counters, `TcpFastTmrFlag`, `TcpSlowTmrFlag`, `flag_for_led` | `vInitialiseTimer`, timer interrupt, test-call-lower in the input thread | `TimerFlags`, composed in `BootSequence` |
| UDP sender (`udp_stack.c`) | a list of senders | `add_sender` (start-up only), `send_udp_data` (not called) | a step of `BootSequence` that may fail |
| CAT240 parser (`asterix_parse.c`) | pointer, remaining length, the message struct | `parse_cat240` (linked, not called in this commit) | `Cat240Parser` |
| `compose`, `refactor`, `refactor_more`, `set_mode` (`iwip.c`) | frame storage | not called | not modelled |
| Programmable logic interface (`pl_interface.c`) | none: prints the bytes | `send_to_PL` | the gain in `AutoGain`, `CommandDecode`, `VideoPipeline` |
| CPU1 release, platform, GPIO, newlib glue | hardware registers | set-up | not modelled |
| FreeRTOS, lwIP, EMAC driver (vendored) | | | as far as the firmware relies on them |

### How they interact

`x1emacif_input_thread` polls the EMAC driver, one packet per call. lwIP runs
inside this thread and calls `udp_receive_callback` or `recv_callback`, which put
the pointer of the packet buffer into `xPbufQueueudp` or `xPbufQueuetcp`.
`udp_parse_task` merges video packets into `old_pbuf`, queues the finished frame
for `udp_auto_gain_control_task` and *then* sends it; gain control frees it.
`tcp_parse_task` executes commands. An amplitude command suspends or resumes the
gain control task from outside. All of them share the pbuf pool, the lwIP core
(without a lock) and the gain register of the programmable logic.

The priorities are 0 (input), 1 (gain control), 2 (merge) and 3 (commands and
start-up). They do the work of locks: most of the properties below hold because
of them and of nothing else.

### What is hard

* The callbacks run in a task but use the `FromISR` interface. Its yield only
  sets a request that the next interrupt exit honours, so that the lowest
  priority thread goes on inside lwIP with a more urgent task ready.
* The tick is 100 Hz: `vTaskDelay(pdMS_TO_TICKS(1))` is `vTaskDelay(0)`, a yield.
* A frame is sent after it was given away to a task that frees it.
* The state of gain control is queried twice per frame; a command may change it.
* `vTaskSuspend` may hit gain control anywhere in its loop.
* lwIP frees the TCP connection block by itself, on a reset or a timeout.
* Of lwIP's timers only TCP's are called. An ARP request is sent once, when its
  entry is created, and what waits in the queue of the entry waits until the peer
  sends an ARP packet of its own.
* Sending a frame moves its payload pointer, by a distance that depends on its
  length and on the ARP table, and gain control reads at fixed offsets from it.
* Callbacks are registered two seconds before the queues they use exist.
* The timer interrupt may raise a flag while the thread is about to lower it.
* A `uint8_t` counter, an azimuth without a limit, lengths at the multiples of
  the fragment size, a length truncated to `uint8_t`.

The list, with lines and properties, is under `hazards` in `PROJECT.json`. Some
hazards have no property; the notes there say why.

### What makes each component correct

* Pipeline: each buffer is freed once and not used afterwards, whatever is
  preempted where; no queue overflows; suspending gain control strands nothing;
  the operator's gain is not overwritten; nobody starves; only one context
  is inside lwIP; from outside it is a relay that sends each frame once.
* Peak merge and scan: the merged sample is the peak; the loops stay in the
  buffers; a saturated sample of any packet is found; the header is read where
  it is.
* Gain control: gains stay in range in any order of frames; in a regular sweep
  the table agrees with the history of the last revolutions; while gain control is
  active the logic works with the gain of the line to come.
* Commands: every documented command is recognised; the answer repeats it;
  the logic gets legal gains only.
* Parser: pointer and remaining length agree; the message points into its own
  packet.
* Link: no read through a stale `tcp_pcb`; the status is true; an attempt ends,
  answered or not; the window reopens.
* Start-up: it ends, with nobody using an object that does not exist yet, within
  the heap.
* Timer flags: both timers run for ever, the slow one never too often, and they
  start whatever state they are found in.

## 2. Modules and the code

Every module keeps the control of the code and reduces its data. A step is a
stretch of code that no other task observes from inside; where another context
may come in between, the code is split and `pc` says where the task is.

**VideoPipeline** models the four loops of `main.c`. The scheduler is explicit:
`st` is each task's state, `running` the task that has the CPU, `Top` the ready
tasks of the highest priority. `Wake` (queue operations in a task, `vTaskResume`)
switches at once, `WakeDeferred` (the `FromISR` calls) leaves it to `Preempt`,
the exit of the next interrupt. `NicReceive` and `TxDone` are the EMAC's
interrupts. A packet is a buffer address with a `kind`: video, one of the classes
of commands that `parse_msg` treats differently, or other traffic. `ref` is
`pbuf->ref` with its 8 bits, `net` the part of it that lwIP's ARP queue and the
transmit ring hold. `sent` records that `udp_send` has moved the payload pointer:
gain control reads at offsets that presuppose it. The auxiliary `lent` says that
`old_pbuf` was offered to gain control. The merge itself is a step here and a
module of its own; so is the computation of gain control. `udp_send` always gets as
far as the headers: its early returns (no route, no port) cannot be taken, since
`udp_connect` has bound the port, the interface is up, with `NETIF_FLAG_LINK_UP`
set at initialisation (`xemacpsif.c:331`), and the thread that would watch the link
is not compiled (`OS_IS_FREERTOS` is not defined).

**Relay** says what the firmware promises to the outside, without tasks, queues
and buffers: packets are collected into a frame, a complete frame is transmitted
once before the next one is begun, the gain changes hands only on a command, and
a command that was accepted is obeyed. **PipelineRelay** maps the state of
VideoPipeline to it (`R == INSTANCE Relay WITH ...`): the number of packets is read
off `counter_of_packets` and the position of the merge task, `transmitted` off
the position behind `udp_send` together with `sent`, the order being executed off
the command task. `Relays` is the whole specification of Relay, its fairness
included. The refinement also shows that no gain command is taken up while a
frame leaves.

**PeakMerge** follows one 16-bit sample, at any offset, through a frame of packets
of one length. `MergeFragment` is one round of the `for` loop along the chain
with `total_len`, `predel_na_shag` (`Step`) and `kursor`; `reach` records how far
into a pool buffer the loop goes. That the packets of a frame have one length is
an assumption: with unequal lengths the code follows the end of a chain. The
samples lie at even distances from the start of the data.

**FrameScan** extends it to gain control's reading of the frame. `SendFrame`
decides how many header bytes `udp_send` leaves in front of the data (`Headers`: 42,
or 28 if the frame exceeds the MTU of 1486 or the peer's hardware address is not
known yet); `ReadHeader` takes the number of samples from 70 bytes behind the
payload pointer, or, if it is not there, any value of `Misread`; `ScanFragment` is
one round of the loop in `filling_auto_gain_control_array`, which counts the
announced number anew in every fragment. The announced number is the sender's: it
may be smaller or larger than what the frame holds (`Unused`, `Surplus`), and it is
24 bits wide where the code keeps 16. What lies behind the end of a fragment
may or may not look saturated.

**AutoGain** is `auto_gain_control` on one frame as one step (justified by
`SuspendQuiescent` of VideoPipeline: the task is only suspended between frames)
and the two gain commands. Samples are reduced to "one of them saturates".
**AutoGainSweep** adds a regular sweep with its history, from which a reference
gain is computed without counting; a command or a frame out of order ends the
sweep, and the steps from then on are those of AutoGain.

**CommandDecode** is `parse_msg`, on messages reduced to what it looks at: the
length (truncated to 8 bits as in the code), the first and the last byte. The
answer passes through lwIP's send queue while the buffer is overwritten and freed.

**Cat240Parser** is `parse_cat240` called for one packet after the other with the
same message struct. The fourteen fields are tables: the bytes a field is checked
for, the bytes it reads and the bytes it takes off `remaining` are written
separately in the code and are separate tables here.

**TcpLink** is `tcp_connection_cl` and the callbacks against lwIP's ownership of
the PCB. A segment is handled only while the start-up task is delayed or gone and
no command is pending, which follows from the priorities. The SYN is followed on
its way: while the peer's hardware address is not known it waits in the queue of
the ARP entry (`syn = "arp"`), where `tcp_rexmit_rto_prepare` finds it referenced
and neither sends nor counts it again; frames to the same peer may push it out of
that queue (`FrameQueued`), any ARP packet of the peer sends it (`etharp_input`).
`tcp_slowtmr` gives up after `TCP_SYNMAXRTX` counted retransmissions. ARP entries
of other hosts are not modelled; the table of 10 is assumed to hold them, so that
no entry is recycled. `need_reconnect` and
`reconnection_tcp` are not reachable: the `tcp_poll` that would call them
is commented out.

**BootSequence** composes TcpLink and TimerFlags with the rest of the start-up.
`BootOrder` lists the steps of `network_init_task`; `Create` takes the ones that
cannot fail and their memory from the heap (`heap_4.c` with its headers and
rounding, the structure sizes of this build: TCB 88, queue 84, stream buffer 36
bytes), `lwip_network_setup` and `udp_connection` may delete the task,
`tcp_connection_cl` takes the steps of TcpLink and `StartTimers` those of
`vInitialiseTimer`. Meanwhile `x1emacif_input_thread` goes through its loop: it
tests the flags, calls the timers (`SlowTimer` is `tcp_slowtmr` of TcpLink), and
polls the driver, where it finds video (`VideoArrives`), a segment or an ARP packet
(`LinkSegment`) or nothing, at most one packet per round, as `xemacif_input`
does without an operating system layer. The workers that exist run, and a finished frame is sent to the
same peer as the SYN. The modules share the variable `halted`: whichever callback
meets a null queue handle stops everything.

**TimerFlags** splits the input thread's polling at every access to a flag that
the interrupt can separate. `vInitialiseTimer` is modelled one counter at a time,
starting with any subset of the three counters running, as a reset of the processor
alone leaves them; until it returns there are no interrupts of timer 2.
It has no run of its own: its invariant is checked where the loop does its work, in
BootSequence.

**MCVideoPipeline** declares the buffers as model values. The
other modules are given their constants by the configuration directly.

## 3. Runs

| Run | Configuration | Result |
|---|---|---|
| `pipeline` | 3 buffers, 3 packets per frame, queues of 2, fairness | `RefExact`, `NoUseAfterFree`, `AgcReadsSentFrame`, `QueuesShallow`, `SuspendQuiescent`, `VerdictsAgree`, `GainAuthority`, `OneInFlight`, `TypeOK` and, under fairness, `InputNotStarved`, `BufferReturned` and the refinement `Relays` hold |
| `pipeline_core` | 3 buffers | `CoreExclusive` is violated |
| `frame` | 24 lengths around the fragment boundaries up to 4 fragments, 23 offsets, bytes 0, 1, 255, one sample too few, all of them or 65537 too many announced, peer known or not | `MergedIsPeak`, `NeverAbovePeak`, `InsideBuffer`, `SaturationSeen` hold |
| `frame_fields` | 4 lengths on both sides of the MTU | `FieldsInPlace` is violated |
| `autogain` | 4 lines, zone 1, history of 3 revolutions, counter modulo 4, disturbed by commands and by azimuths 1 and 4 (beyond the table) | `GainMatchesReference`, `TypeOK`, `LogicServesNextLine` hold |
| `autogain_lines` | the constants of the header | `LineInTable` is violated |
| `command_decode` | lengths around 6 and 256, 7 first and 14 last bytes | `EchoMatchesCommand`, `GainInRange`, `OnlyResetFaultsMisread` hold |
| `command_documented` | the same | `DocumentedDecoded` is violated |
| `parser` | packets up to 300 bytes, 10 block lengths, repetition factors 0, 1, 3 | `CursorInside`, `VideoInside` hold |
| `link_window` | window of 12 bytes, 2 answers | `WindowReopens` is violated |
| `startup` | the code's order and sizes, window of 12 bytes, 2 answers, 3 retransmissions of the SYN every 2 calls, any counters running at the start, lead saturates at 6, fairness | `WorkersSeeHandles`, `HeapSuffices`, `AssertOnlyWhileConnecting`, `PcbReadLive`, `StatusTruthful`, `SlowAtHalfRate`, `BootEnds`, `TimersRun`, `AttemptResolved` hold |
| `boot_queues` | the same | `QueuesExist` is violated |

For each property of a passing run `PROJECT.json` names a mutant: a variant of
one mapped definition, as a plausible slip in that code would make it, under
which TLC finds the property violated. The variants stand beside the definitions
they vary, marked "Mutation". Several of them say how much rests on priorities:
gain control above the merge task (use after free), the input thread as urgent as
gain control or as the merge task (more than one packet in flight).

### What the runs show

The queues of 200 entries never hold more than one buffer. The priorities turn
them into a synchronous hand-over: the input thread polls only while every worker
waits, so the "queue full" branches are dead code, among them the one at
`main.c:119` that would free a frame just before it is sent. For the same reason
a frame that was handed to gain control is not freed before it is sent, the two
state queries agree, and `vTaskSuspend` meets gain control only where it waits.
Each of these would fail if the priorities were changed.

Seen from outside (`Relays`) the four tasks are one sequential relay. A frame that
passes the first query of gain control's state and not the second would be sent
twice or not at all; the refinement shows that neither happens around a command.

Gain control does what it should for frames that leave in one piece to a peer
whose address is known (`SaturationSeen`): merge, send and scan together lose no
saturated sample, although merge and scan use different offsets into the same
buffer. A header that announces more samples than the frame holds makes the scan
run on into other memory, with a false alarm as its only effect. For all other
frames see finding 5.

Between an automatic-gain command and the next line whose gain differs, the logic
keeps the nominal gain the command wrote even if the line is weakened:
`update_gain_value` compares with the value it wrote itself. `LogicServesNextLine`
shows that this is the only deviation: no operator's amplitude and no other line's
gain stays in the logic.

A connection attempt can hang, in one way only (`AttemptResolved`). If the request
for the peer's hardware address or its answer is lost, the SYN stays in the queue
of the pending entry. lwIP does not count retransmissions of a referenced segment,
so `TCP_SYNMAXRTX` is not reached and the error callback, which `tcp.c:1057-1061`
promises if the other host does not answer, is not called; `etharp_tmr`, which "should be called every
ARP_TMR_INTERVAL milliseconds" (`etharp.c:193`), would repeat the request and drop
the entry, and nothing calls it. The attempt goes on when the peer sends an ARP
packet. Video frames that push the SYN out of the queue make lwIP count again;
under a continuous stream of them the attempt is given up.

### Findings

1. `pipeline_core`: a tick between the return of a callback and the end of
   `tcp_input` or `udp_input` lets a worker call `udp_send` or `tcp_write` while
   the input thread is inside lwIP, which `lwip/opt.h` forbids for `NO_SYS 1`.
2. `autogain_lines`: `azimuth / 0x36` reaches 1213, the tables have 1200 lines.
3. `link_window`: `tcp_recved` is never called; after 2048 bytes of commands the
   link accepts nothing more.
4. `boot_queues`: a packet during the two-second wait for the connection meets a
   null queue handle and fails `configASSERT` in `queue.c`.
5. `frame_fields`: gain control reads azimuth and sample number at 54 and 70 bytes
   behind the payload pointer in every frame. A frame that lwIP fragments again, or
   that waits for the ARP answer, has them at 40 and 56, the places the comments at
   `auto_gain_control.c:171-173` give for the other mode; the branch that reads there
   is overwritten by the lines behind it. Line and sample number are then arbitrary,
   and a sample number of 0 is the divisor at line 112.
6. `command_documented`: 01C9 ("reset faults" in `cmd.h:28`) is recorded as a
   telemetry request, since `parse_msg` compares the last byte only. It is the only
   documented command that is misread (`OnlyResetFaultsMisread`).

A timer tick that falls into a timer call is erased, since the flag is lowered
after the call; `startup` shows that nothing worse follows: the timers go on, and
never run too often.

Some deviations have no violated run of their own; the passing properties are stated
so that they single them out. For most of them nothing in the repository says what
should happen: the hanging connection attempt and the nominal gain in a weakened
line (above), the samples of datagrams whose length is a multiple of 1480 and of the last 8 bytes, which
the merge leaves out (`MergedIsPeak` excepts exactly these), and a CAT240 block of
3 bytes (`CursorInside` excepts it).

### Bounds, and why they are enough

* Buffers: at most one packet is in flight besides the frame being merged
  (`OneInFlight`), so three buffers hold a frame being merged, a packet with a
  task and a frame on the transmit ring or a packet waiting in the driver. Three
  packets per frame have a first, a middle and a last one. Queues of 2 overflow
  at a third entry, which would violate `QueuesShallow` before. The safety
  invariants were also checked with four buffers (354 000 states up to symmetry);
  the theorems below remove the bounds for those they cover.
* `PeakMerge`: lengths and offsets lie on both sides of each boundary of the
  first three fragments and in the last 8 bytes; the loop treats later fragments
  like the second one. The scan's lengths lie on both sides of
  1458, the longest frame that leaves in one piece; 65537 samples too many become one
  too many when the number is cut to 16 bits. `Misread` holds 0, a small and the
  largest number.
* `AutoGain`: with 4 lines a zone of 3 leaves one line outside, with a zone
  that wraps around. A counter modulo 4 wraps, as the code's does after 256.
  Three revolutions reach the minimum gain with the decrement 20 (asserted by
  `SweepAssumption`), after which longer runs look alike.
* `Cat240Parser`: the block lengths end before, in and behind each kind of field;
  one high-resolution video block fits into 290 bytes and two do not.
* `CommandDecode`: a byte matters by the comparisons made with it; the sets hold a
  value on each side of each. `TxBound` bounds the unsent answers.
* `TcpLink`, `BootSequence`: 12 bytes admit several commands before the window
  closes; frames of 3 packets reach the last packet, where the handles are used.
  Three retransmissions have a first, a middle and a last one, and two calls of
  `tcp_slowtmr` between them one that waits; the code's numbers are 6 and 6.
* `TimerFlags`: `MaxLead` saturates a counter whose lower end is of interest.

Deadlock is checked except in `TcpLink` and `BootSequence`, where the system may
really stop: the assertion halts it, and a link that is gone stays gone.

### Fairness

* `VideoPipeline`: weak fairness of each task's steps (the CPU always executes
  the running task) and of `Preempt` (ticks keep coming). Nothing is assumed of
  arrivals, nor of `TxDone`: a frame may wait in the ARP queue for ever, since
  nothing repeats a lost ARP request. That the input thread runs for ever is the
  result and not assumed. `Relay`'s fairness is part of what is shown.
* `BootSequence`: weak fairness of the start-up task (its delays end), of the
  workers, of the input thread (`InputNotStarved` of VideoPipeline) and of the timer
  interrupt, which is free-running once started. Nothing is assumed of the peer,
  neither that it answers nor that it is ever silent: the input thread looks at the
  flags in every round, whatever it polls. That the timers run for ever is a result
  (`TimersRun`).

## 4. Proofs

All proofs are checked by TLAPS, for all values of the constants that satisfy the
named assumptions of the modules (`PipelineAssumption`: a null pointer that is no
buffer, queues of at least one entry, frames of at least two packets;
`AutoGainAssumption`: the zone is smaller than a revolution, the counter larger
than the permissible number; `ParserAssumption`: a block length fits into a
`size_t`; `SweepAssumption`: see below; `MergeAssumption`, `ScanAssumption`,
`LinkAssumption`, `TimerAssumption`: ranges).

* **VideoPipelineProofs**: `TypeCorrect`; then `HandOverCorrect`, the inductive
  invariant `OneInFlight`. None of the properties is inductive: that a queue holds
  at most one entry rests on the input thread delivering only while all workers
  wait, that in turn on a worker with work being ready, on the running
  worker being a most urgent one, and on a lent frame staying in the queue
  until it is sent. `OneInFlight` is the conjunction of these facts. It implies
  `QueuesNeverFill`, `SuspendSafe` and `OneVerdict`. `OperatorGainHolds` adds
  where the command task is between suspending and writing the gain.
* **PipelineRelayProofs**: who owns a buffer. `Places` are the places a pointer
  can be in (the driver's queue, the three queues, the four tasks, `old_pbuf`),
  `Holds` says that a place has it. `Account` states the count: a buffer in no
  place has only the references of the network stack, one in a place has one more,
  and none is in two places; `old_pbuf` is a place only while its frame is not
  lent to gain control. `Shape` says at which labels a task has a buffer, `Marks`
  which buffers `udp_send` has been called for. Together with the hand-over
  invariant (`PipelineInv`) they are inductive; without the hand-over they are not,
  since a second buffer in a queue would be lost with its place. Results:
  `CountsExact`, `NoTaskUsesFreed`, `AnalysedAfterSent`. `RelaySteps` is the
  refinement step by step, `Spec => R!Init /\ [][R!Next]_R!vars`: each action is
  one of `Collect`, `Transmit`, `Begin`, `Accept`, `Obey` or leaves the mapped
  state unchanged. It needs `Orders`: a frame at hand is complete, and the branch
  the command task is in is that of its command.
* **AutoGainProofs**: `GainBounded` (the types, in particular the range of the
  gains, for frames in any order, also with lines beyond the table) and
  `LogicServed`, whose invariant `LogicInv` adds that the remembered value is the
  gain of the line to come; the same for the sweep in `SweepBounded`. `TableMatchesHistory`
  proves `GainMatchesReference`. The property speaks of the line cleaned
  last only; the invariant `SweepInv` speaks of every line at every `Age`, the
  number of frames since its cleaning: its flag is set exactly if a frame of the
  part of its zone passed since then saturated (`Passing`), the zone saturated
  in k revolutions before (`Streak`, as far as the history reaches), and counter
  and gain are those of k or k + 1 revolutions (`Counted`). The counter is given
  up once it wraps; that the gain is right nevertheless needs an assumption which
  the proof brought up and TLC's constants happen to satisfy: the minimum is
  reached before the counter wraps (`SweepAssumption`; 10 * 252 against 27 in the
  code).
* **FrameScanProofs**: of the merge `MergedIsMaximum` (comparing upper, then lower
  byte is the numeric maximum), the invariant `MergeInv`, from it
  `LoopInsideBuffer` for every datagram length and `MergeMakesNothingUp`. `kursor` is
  at most 32 in the first and 0 in the other fragments, and a step at most 1480:
  with 42 header bytes that stays below the 1700 of a pool buffer. `Walk` adds
  where the loop is: `total_len` is what is left of the datagram behind fragment
  `q` on, and the peak is in the frame once the sample's fragment is passed, and
  otherwise in the frame or in the packet being merged. `MergeFindsPeak` follows. `ScanIsMerge` carries all of it over to the
  composition (`FrameMerged`); `ScanInv` says what the scan has met in a frame
  that left in one piece, from which `SaturationFound`, for every announced number.
* **CommandDecodeProofs**: `DecodeInv` says that every answer in lwIP's queue and
  on the wire is one that repeats its command, whatever has happened to the receive
  buffer since, and that what was recorded is the decoding of the message at hand.
  `EchoCorrect`, `GainCorrect` and `MisreadOnlyOne` hold for all lengths and bytes.
* **Cat240ParserProofs**: for every packet, choice of fields and repetition factor
  `CursorStaysInside` and `VideoStaysInside`. The invariant adds what the header
  and the mandatory fields have established. A block of 3 bytes is excepted:
  there the code reads the FSPEC from behind the block and `remaining` wraps.
* **BootSequenceProofs**: the link by itself (`PcbNeverStale`, `StatusSound`) and
  in the start-up (`BootPcbNeverStale`, `BootStatusSound`). The invariant `Inv`
  ties the pointer, the error callback and the life of the PCB together: until
  the start-up has looked at it, a non-null pointer has a live PCB with the error
  callback registered, so that lwIP's freeing it resets the pointer. `Progress`
  says which handles exist at each step of `network_init_task` and how much heap
  is left, `Delays` how these steps and the states of the link go together, and
  that the assertion fails only while the link waits. From
  these `HandlesSeen`, `HeapLasts` and `AssertWindow`, for every frame length,
  window, number of answers and of retransmissions. `BootRunsClock` shows that the
  composition implements TimerFlags (every step is one of the clock or leaves it
  alone), which carries the rate over (`BootSlowRate`).
* **TimerFlagsProofs**: `SlowTimerPaid` relates the lead of the interrupts over
  the calls to the flag and the LED that divides the rate: a raised slow flag has
  been paid for by interrupts. `SlowRateBounded` follows.

With this every safety invariant that a run checks is also a theorem. The
inductive invariants were checked by TLC on the configurations above before they
were proved.

Only model-checked: liveness (`InputNotStarved`, `BufferReturned`,
`AttemptResolved`, `BootEnds`, `TimersRun`) and the fairness of
`Relay` in `Relays`, since reasoning with fairness and ENABLED is out of the
prover's reach.

## 5. Not modelled, and why

* Code that nothing calls in this commit: the frame storage helpers,
  `send_udp_data`, reconnection, `start_stop_ttc_timer`, `get_ttc_counter_value`. The parser is not called either, and modelled
  on its own.
* The running averages of gain control, which are only printed.
* The monitor of the link (`tcp_stack.c`), whose fields are only read by the
  reconnection that nothing calls, and failure of its `mem_malloc` (an empty heap of 128 KB at that time).
* Reassembly of datagrams of which a fragment was lost (`ip_reass_tmr` is not called).
* Stack depths, hardware set-up (`platform.c`, C library glue), the second core, whose program is not here.
* What lwIP does when its core is entered twice (finding 1): the model shows that
  it can happen and goes on as if each call were undisturbed.
* Streams of commands that TCP delivers in one segment: no source says what should
  happen.

## 6. Plan

Done, in this order: the pipeline with its scheduler (the behaviour everything
else rests on), gain control, commands, start-up, link, timers, peak merge, parser;
and the first proofs of each.

Then the extensions: `Relay` and its refinement, `FrameScan` (header fields before and
after `udp_send`, with and without fragmentation and a resolved ARP entry), the
composition of start-up, link and clock, the initialisation of the timers, the ARP
entry a connection attempt depends on. What is left
of the code is not called, only prints or sets up hardware (section 5).

Then the proofs of section 4: reference counts and refinement of the pipeline,
merge and scan, commands, start-up, the table of the sweep.

Left: nothing of the safety properties. A longer list of theorems would have to
start from new properties, for example of frames whose packets differ in length
or of the running averages, for which the code would first have to say what it
intends.

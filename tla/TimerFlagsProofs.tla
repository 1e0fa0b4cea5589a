-------------------------- MODULE TimerFlagsProofs --------------------------
(***************************************************************************)
(* tcp_slowtmr never runs more often than the interrupts pay for.  The     *)
(* calls are bounded by the slow ticks, one of which the LED lets through  *)
(* for every two interrupts; a flag that is raised and not yet being       *)
(* served stands for two interrupts that no call has used.                 *)
(***************************************************************************)
EXTENDS TimerFlags, TLAPS

Pending == flag["slow"] = 1 /\ loop # "slowclear"

Paid == lead >= (IF Pending THEN 2 ELSE 0) - led

TimerInv == TimerTypeOK /\ Paid

\* The first state: no flag is raised and no interrupt has been counted.
LEMMA TimerInitInv == TimerInit => TimerInv
<1> SUFFICES ASSUME TimerInit PROVE TimerInv
  OBVIOUS
<1>1. started \in SUBSET Counters /\ refused \in BOOLEAN
  BY DEF TimerInit
<1>2. xTimer \in 0 .. 3 /\ loop \in Labels /\ led \in {0, 1} /\ lead \in -1 .. MaxLead
  BY TimerAssumption DEF TimerAssumption, TimerInit, Labels
<1>3. flag \in [Timers -> {0, 1}] /\ Paid
  BY DEF TimerInit, Paid, Pending, Timers
<1> QED
  BY <1>1, <1>2, <1>3 DEF TimerInv, TimerTypeOK

\* The interrupt keeps the account, also when lead is saturated.
LEMMA HandlerInv == ASSUME TimerInv, prvTimerHandler PROVE TimerInv'
<1> USE DEF TimerInv, TimerTypeOK, Timers, Labels
<1>5. UNCHANGED setup
  BY DEF prvTimerHandler, setup
<1>1. loop' \in Labels /\ led' \in {0, 1}
  BY DEF prvTimerHandler
<1>2. flag' \in [Timers -> {0, 1}]
  BY DEF prvTimerHandler
<1>3. Paid'
  <2>1. lead' = IF lead < MaxLead THEN lead + 1 ELSE lead
    BY DEF prvTimerHandler
  <2>2. led' = 1 - led /\ loop' = loop
    BY DEF prvTimerHandler
  <2>3. flag'["slow"] = IF led = 0 THEN 1 ELSE flag["slow"]
    BY DEF prvTimerHandler
  <2> QED
    BY <2>1, <2>2, <2>3, TimerAssumption DEF TimerAssumption, Paid, Pending
<1>4. lead' \in -1 .. MaxLead
  BY TimerAssumption DEF TimerAssumption, prvTimerHandler
<1> QED
  BY <1>1, <1>2, <1>3, <1>4, <1>5 DEF setup

\* vInitialiseTimer leaves the flags and the account alone.
LEMMA SetupInv == ASSUME TimerInv, vInitialiseTimer PROVE TimerInv'
<1>1. UNCHANGED loopVars
  BY DEF vInitialiseTimer
<1>2. xTimer' \in 0 .. 3
  BY DEF vInitialiseTimer, TimerInv, TimerTypeOK
<1>3. refused' \in BOOLEAN
  BY DEF vInitialiseTimer, TimerInv, TimerTypeOK
<1>4. started' \in SUBSET Counters
  <2>1. xTimer \in Counters
    BY DEF vInitialiseTimer, TimerInv, TimerTypeOK, Counters
  <2>2. started' \subseteq started \cup {xTimer}
    BY DEF vInitialiseTimer
  <2>3. started \subseteq Counters
    BY DEF TimerInv, TimerTypeOK
  <2> QED
    BY <2>1, <2>2, <2>3
<1> QED
  BY <1>1, <1>2, <1>3, <1>4 DEF TimerInv, TimerTypeOK, Paid, Pending, loopVars

\* A step of the loop keeps the account: a call spends what its flag stands
\* for, and lowering a flag after the call earns nothing.
LEMMA InputInv == ASSUME TimerInv, InputThread PROVE TimerInv'
<1> USE DEF TimerInv, TimerTypeOK, Timers, Labels, Paid, Pending, setup
<1>1. CASE Poll
  BY <1>1 DEF Poll
<1>2. ASSUME NEW f \in Timers, Begin(f) PROVE TimerInv'
  <2>1. loop' \in Labels /\ flag' = flag /\ led' = led /\ UNCHANGED setup
    BY <1>2 DEF Begin, Lower
  <2>2. Paid' /\ lead' \in -1 .. MaxLead
    BY <1>2, TimerAssumption DEF TimerAssumption, Begin, Lower
  <2> QED
    BY <2>1, <2>2
<1>3. ASSUME NEW f \in Timers, Skip(f) PROVE TimerInv'
  BY <1>3 DEF Skip, After
<1>4. ASSUME NEW f \in Timers, End(f) PROVE TimerInv'
  BY <1>4 DEF End, After, Lower
<1> QED
  BY <1>1, <1>2, <1>3, <1>4 DEF InputThread

\* Type correctness and the account, for every saturation bound.
THEOREM SlowTimerPaid == TimerSpec => []TimerInv
<1>1. TimerInv /\ [TimerNext]_timerVars => TimerInv'
  <2> SUFFICES ASSUME TimerInv, [TimerNext]_timerVars PROVE TimerInv'
    OBVIOUS
  <2>1. CASE prvTimerHandler
    BY <2>1, HandlerInv
  <2>2. CASE InputThread
    BY <2>2, InputInv
  <2>3. CASE UNCHANGED timerVars
    BY <2>3 DEF timerVars, setup, loopVars, TimerInv, TimerTypeOK, Paid, Pending
  <2>4. CASE vInitialiseTimer
    BY <2>4, SetupInv
  <2> QED
    BY <2>1, <2>2, <2>3, <2>4 DEF TimerNext
<1> QED
  BY <1>1, TimerInitInv, PTL DEF TimerSpec

\* tcp_slowtmr is called at most every second interrupt: lowering the flag
\* after the call can lose a tick and can never add a call.
THEOREM SlowRateBounded == TimerSpec => []SlowAtHalfRate
<1>1. TimerInv => SlowAtHalfRate
  BY DEF TimerInv, TimerTypeOK, SlowAtHalfRate, Paid
<1> QED
  BY <1>1, SlowTimerPaid, PTL
=============================================================================

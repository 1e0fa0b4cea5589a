----------------------------- MODULE TimerFlags -----------------------------
(***************************************************************************)
(* The clock of lwIP's TCP.  The interrupt of timer 2 (4 Hz) raises two    *)
(* flags; x1emacif_input_thread tests each flag, runs the TCP timer behind *)
(* it and only then lowers the flag.  The interrupt may come between any   *)
(* two of these accesses, and the call itself may be preempted for long.   *)
(*                                                                         *)
(* vInitialiseTimer sets the timers up while the input thread is already   *)
(* in its loop, and may find them running: a reset of the processor alone  *)
(* leaves the triple timer counter as it was.                              *)
(* BootSequence puts the clock into its surroundings.                      *)
(***************************************************************************)
EXTENDS Integers

CONSTANT MaxLead   \* saturation bound of the auxiliary counter lead

ASSUME TimerAssumption == MaxLead \in Nat \ {0, 1}

VARIABLES
    xTimer,     \* the timer vInitialiseTimer sets up next, 3 when it returned
    started,    \* the counters that run
    refused,    \* a second refusal has failed an assertion
    loop,   \* where the input thread is in its loop
    flag,   \* TcpFastTmrFlag and TcpSlowTmrFlag
    led,    \* flag_for_led
    lead    \* auxiliary: interrupts minus twice the calls of tcp_slowtmr

loopVars == <<loop, flag, led, lead>>
setup == <<xTimer, started, refused>>
timerVars == <<setup, loopVars>>

Counters == 0 .. 2
Timers == {"fast", "slow"}
Labels == {"fast", "fastclear", "slow", "slowclear", "poll"}

TimerInit ==
    /\ xTimer = 0 /\ started \in SUBSET Counters /\ refused = FALSE
    /\ loop = "fast"
    /\ flag = [f \in Timers |-> 0]
    /\ led = 0
    /\ lead = 0

-----------------------------------------------------------------------------
(* vInitialiseTimer.                                                       *)

\* Mutation: the call is repeated without XTtcPs_Stop.
InitialiseRunning ==
    /\ xTimer < 3 /\ ~refused
    /\ IF xTimer \in started
       THEN refused' = TRUE /\ UNCHANGED <<xTimer, started>>
       ELSE /\ xTimer' = xTimer + 1
            /\ started' = IF xTimer # 1 THEN started \cup {xTimer} ELSE started
            /\ UNCHANGED refused
    /\ UNCHANGED loopVars

\* One round of the loop.  XTtcPs_CfgInitialize refuses a counter that runs and
\* disables one that does not; the counter is stopped and the call repeated, and
\* a second refusal fails an assertion.  Timer 1 is not started again.
vInitialiseTimer ==
    LET stopped == IF xTimer \in started THEN started \ {xTimer} ELSE started
    IN  /\ xTimer < 3 /\ ~refused
        /\ IF xTimer \in stopped
           THEN refused' = TRUE /\ UNCHANGED <<xTimer, started>>
           ELSE /\ xTimer' = xTimer + 1
                /\ started' = IF xTimer # 1 THEN stopped \cup {xTimer} ELSE stopped
                /\ UNCHANGED refused
        /\ UNCHANGED loopVars

-----------------------------------------------------------------------------
(* The interrupt.  Until vInitialiseTimer has connected the handler the    *)
(* interrupt is masked; timer 0's branch does nothing.                     *)

Ticks == xTimer = 3 /\ 2 \in started /\ ~refused

\* Mutation: the slow flag is raised at every interrupt.
HandlerUndivided ==
    /\ Ticks
    /\ led' = 1 - led
    /\ flag' = [f \in Timers |-> 1]
    /\ lead' = IF lead < MaxLead THEN lead + 1 ELSE lead
    /\ UNCHANGED <<setup, loop>>

\* The interrupt of timer 2: the LED divides the rate for the slow timer.
prvTimerHandler ==
    LET raised == IF led = 0 THEN Timers ELSE {"fast"}
    IN  /\ Ticks
        /\ led' = 1 - led
        /\ flag' = [f \in Timers |-> IF f \in raised THEN 1 ELSE flag[f]]
        /\ lead' = IF lead < MaxLead THEN lead + 1 ELSE lead
        /\ UNCHANGED <<setup, loop>>

-----------------------------------------------------------------------------
(* The input thread.  It does not run while the start-up task, of priority *)
(* 3, is in the loop of vInitialiseTimer.                                  *)

Scheduled == xTimer \in {0, 3} /\ ~refused

After(f) == IF f = "fast" THEN "slow" ELSE "poll"
Lower(f) == IF f = "fast" THEN "fastclear" ELSE "slowclear"

\* if (TcpXxxTmrFlag): tcp_fasttmr or tcp_slowtmr begins.
Begin(f) ==
    /\ Scheduled
    /\ loop = f /\ flag[f] = 1
    /\ loop' = Lower(f)
    /\ lead' = IF f = "slow" THEN lead - 2 ELSE lead
    /\ UNCHANGED <<setup, flag, led>>

Skip(f) ==
    /\ Scheduled
    /\ loop = f /\ flag[f] = 0
    /\ loop' = After(f)
    /\ UNCHANGED <<setup, flag, led, lead>>

\* The call has returned: TcpXxxTmrFlag = 0.
End(f) ==
    /\ Scheduled
    /\ loop = Lower(f)
    /\ loop' = After(f)
    /\ flag' = [flag EXCEPT ![f] = 0]
    /\ UNCHANGED <<setup, led, lead>>

\* xemacif_input and vTaskDelay.
Poll ==
    /\ Scheduled
    /\ loop = "poll"
    /\ loop' = "fast"
    /\ UNCHANGED <<setup, flag, led, lead>>

InputThread == Poll \/ \E f \in Timers : Begin(f) \/ Skip(f) \/ End(f)

TimerNext == vInitialiseTimer \/ prvTimerHandler \/ InputThread

TimerSpec == TimerInit /\ [][TimerNext]_timerVars

-----------------------------------------------------------------------------
\* The labels, flags and counters keep their ranges.
TimerTypeOK ==
    /\ xTimer \in 0 .. 3 /\ started \in SUBSET Counters /\ refused \in BOOLEAN
    /\ loop \in Labels
    /\ flag \in [Timers -> {0, 1}]
    /\ led \in {0, 1}
    /\ lead \in -1 .. MaxLead

\* tcp_slowtmr is called at most every second interrupt (500 ms on average), no
\* matter where the interrupts fall in the loop: a flag that is lowered after
\* the call, or raised again during it, never yields an additional call.
SlowAtHalfRate == lead >= -1
=============================================================================

---------------------------- MODULE PulseScheduler ----------------------------
(***************************************************************************)
(* The timer chain and the single flight of                                *)
(* packages/server/src/simulation/pulse-scheduler.ts.                      *)
(*                                                                         *)
(* A chain is one loop  setTimeout -> runPulse().finally(scheduleNext).    *)
(* Nothing ties a chain to the start() that began it: a continuation only  *)
(* looks at `running` when it runs.  `this.timer` remembers one armed      *)
(* timer, the newest; the older ones still armed are counted as orphans.   *)
(*                                                                         *)
(* A step is one turn of the event loop: everything between two awaits.    *)
(***************************************************************************)
EXTENDS Naturals, FiniteSets

CONSTANTS
    Execs,      \* identities of executePulse() activations, reused when idle
    NoPulse,    \* inFlight = null
    MaxPulses,  \* bound: pulses begun
    MaxChains   \* bound: timer chains alive when start() begins one more

ASSUME ExecsAssumption == NoPulse \notin Execs /\ Execs # {}
ASSUME BoundAssumption == MaxPulses \in Nat /\ MaxChains \in Nat

VARIABLES
    running,        \* this.running
    timerArmed,     \* this.timer is armed (neither fired nor cleared)
    orphans,        \* armed timers this.timer no longer refers to
    inFlight,       \* this.inFlight: the activation whose promise is shared
    phase,          \* where each activation of executePulse() stands
    waiters,        \* .finally(scheduleNext) attached to the shared promise
    continuations,  \* the same, promise settled, not yet run
    pulseIndex      \* this.pulseIndex

schedVars == <<running, timerArmed, orphans, inFlight, phase, waiters,
               continuations, pulseIndex>>

\* load: reading the pulse's context.  turns: the agents, one by one.
\* review: the world review.  settling: result known, promise not settled.
Phases == {"idle", "load", "turns", "review", "settling"}

SchedTypeOK ==
    /\ running \in BOOLEAN
    /\ timerArmed \in BOOLEAN
    /\ orphans \in Nat
    /\ inFlight \in Execs \cup {NoPulse}
    /\ phase \in [Execs -> Phases]
    /\ waiters \in Nat
    /\ continuations \in Nat
    /\ pulseIndex \in Nat

SchedInit ==
    /\ running = FALSE
    /\ timerArmed = FALSE
    /\ orphans = 0
    /\ inFlight = NoPulse
    /\ phase = [e \in Execs |-> "idle"]
    /\ waiters = 0
    /\ continuations = 0
    /\ pulseIndex = 0

\* The chains that may yet arm or fire a timer.
Chains == (IF timerArmed THEN 1 ELSE 0) + orphans + waiters + continuations

-------------------------------------------------------------------------------
\* Fault: scheduleNext() skipped while a pulse is in flight.
ScheduleNextWhenIdle(run) ==
    IF run /\ inFlight = NoPulse
    THEN /\ orphans' = orphans + (IF timerArmed THEN 1 ELSE 0)
         /\ timerArmed' = TRUE
    ELSE UNCHANGED <<orphans, timerArmed>>

\* Fault: scheduleNext() does not look at `running`.
ScheduleNextAlways(run) ==
    /\ orphans' = orphans + (IF timerArmed THEN 1 ELSE 0)
    /\ timerArmed' = TRUE

\* scheduleNext(): arming overwrites this.timer, so a timer that was still
\* armed stays armed but can no longer be cleared.
ScheduleNext(run) ==
    IF run
    THEN /\ orphans' = orphans + (IF timerArmed THEN 1 ELSE 0)
         /\ timerArmed' = TRUE
    ELSE UNCHANGED <<orphans, timerArmed>>

\* Fault: start() begins the pulse index anew.
SchedStartAfresh ==
    /\ ~running => Chains < MaxChains
    /\ running' = TRUE
    /\ ScheduleNext(~running)
    /\ pulseIndex' = 0
    /\ UNCHANGED <<inFlight, phase, waiters, continuations>>

\* start(): a no-op while running.
SchedStart ==
    /\ ~running => Chains < MaxChains
    /\ running' = TRUE
    /\ ScheduleNext(~running)
    /\ UNCHANGED <<inFlight, phase, waiters, continuations, pulseIndex>>

\* Fault: stop() leaves the timer armed.
SchedStopKeepsTimer ==
    /\ running' = FALSE
    /\ UNCHANGED <<timerArmed, orphans, inFlight, phase, waiters, continuations, pulseIndex>>

\* stop(): clears the one timer it knows.
SchedStop ==
    /\ running' = FALSE
    /\ timerArmed' = FALSE
    /\ UNCHANGED <<orphans, inFlight, phase, waiters, continuations, pulseIndex>>

\* runPulse(): join the pulse in flight, or begin one and share its promise.
BeginOrJoin ==
    IF inFlight # NoPulse
    THEN UNCHANGED <<inFlight, phase>>
    ELSE \E e \in Execs :
            /\ phase[e] = "idle"
            /\ inFlight' = e
            /\ phase' = [phase EXCEPT ![e] = "load"]

\* runPulse() called from outside: a run loop, a harness.
RunPulse ==
    /\ pulseIndex < MaxPulses
    /\ BeginOrJoin
    /\ UNCHANGED <<running, timerArmed, orphans, waiters, continuations, pulseIndex>>

\* An armed timer fires: the callback does not look at `running`.
TimerFires ==
    /\ pulseIndex < MaxPulses
    /\ \/ /\ timerArmed
          /\ timerArmed' = FALSE
          /\ UNCHANGED orphans
       \/ /\ orphans > 0
          /\ orphans' = orphans - 1
          /\ UNCHANGED timerArmed
    /\ BeginOrJoin
    /\ waiters' = waiters + 1
    /\ UNCHANGED <<running, continuations, pulseIndex>>

-------------------------------------------------------------------------------
MovePhase(e, from, to) ==
    /\ phase[e] = from
    /\ phase' = [phase EXCEPT ![e] = to]

\* The context is read and the agents' turns begin.
LoadContext(e) ==
    /\ MovePhase(e, "load", "turns")
    /\ UNCHANGED <<running, timerArmed, orphans, inFlight, waiters, continuations, pulseIndex>>

\* The last agent's turn, and the stagnation metrics after it, are done.
EndTurns(e) ==
    /\ MovePhase(e, "turns", "review")
    /\ UNCHANGED <<running, timerArmed, orphans, inFlight, waiters, continuations, pulseIndex>>

\* finishPulse(): reached once per activation, at its end ...
FinishPulse(e) ==
    /\ MovePhase(e, "review", "settling")
    /\ pulseIndex' = pulseIndex + 1
    /\ UNCHANGED <<running, timerArmed, orphans, inFlight, waiters, continuations>>

\* Fault: the early return of a failing pulse skips finishPulse().
FailPulseUncounted(e) ==
    /\ \E from \in {"load", "turns"} : MovePhase(e, from, "settling")
    /\ UNCHANGED <<running, timerArmed, orphans, inFlight, waiters, continuations, pulseIndex>>

\* ... or where its context cannot be read or it throws.
FailPulse(e) ==
    /\ \E from \in {"load", "turns"} : MovePhase(e, from, "settling")
    /\ pulseIndex' = pulseIndex + 1
    /\ UNCHANGED <<running, timerArmed, orphans, inFlight, waiters, continuations>>

\* Fault: the chain hangs on .then, which a rejected pulse never runs.
SettleForgetsChain(e) ==
    /\ MovePhase(e, "settling", "idle")
    /\ inFlight' = NoPulse
    /\ waiters' = 0
    /\ UNCHANGED <<running, timerArmed, orphans, continuations, pulseIndex>>

\* .finally: inFlight becomes null, then the callers' continuations may run.
Settle(e) ==
    /\ MovePhase(e, "settling", "idle")
    /\ inFlight' = NoPulse
    /\ continuations' = continuations + waiters
    /\ waiters' = 0
    /\ UNCHANGED <<running, timerArmed, orphans, pulseIndex>>

\* A chain's continuation: the only place `running` is consulted.
Continue ==
    /\ continuations > 0
    /\ continuations' = continuations - 1
    /\ ScheduleNext(running)
    /\ UNCHANGED <<running, inFlight, phase, waiters, pulseIndex>>

PulseStep(e) == LoadContext(e) \/ EndTurns(e) \/ FinishPulse(e) \/ FailPulse(e) \/ Settle(e)

SchedNext ==
    \/ SchedStart
    \/ SchedStop
    \/ RunPulse
    \/ TimerFires
    \/ Continue
    \/ \E e \in Execs : PulseStep(e)

SchedSpec == SchedInit /\ [][SchedNext]_schedVars

-------------------------------------------------------------------------------
\* The scheduler's loop never dies by itself: while it is running there is an
\* armed timer, or a continuation that will arm one.  A pulse that fails, a
\* start() racing a pulse and a joined pulse must all leave a chain behind.
ChainAlive == running => Chains > 0

\* Every caller that finds a pulse in flight is given the promise of the one
\* activation that is running: no activation escapes inFlight, and inFlight
\* never refers to one that is over.
SingleFlight ==
    \A e \in Execs : (phase[e] # "idle") <=> (inFlight = e)

Busy == \E e \in Execs : phase[e] \in {"load", "turns", "review"}

\* Pulses do not overlap and the index counts those that have ended.
Clock == INSTANCE PulseClock WITH busy <- Busy, index <- pulseIndex
PulsesSerial == Clock!ClockSpec
===============================================================================

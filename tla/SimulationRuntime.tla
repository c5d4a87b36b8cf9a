-------------------------- MODULE SimulationRuntime --------------------------
(***************************************************************************)
(* packages/server/src/simulation/simulation-runtime.ts on top of its      *)
(* pulse scheduler: the asynchronous start / pause / stop operations, the  *)
(* simulation's status, the committed event log, and the stop a pulse      *)
(* itself performs when the world review delivers an ending offer.         *)
(*                                                                         *)
(* An operation is cut at its awaits; calls[c] names the chunk caller c    *)
(* resumes at.  Operations of different callers, the pulse and the timers  *)
(* interleave at these cuts.                                               *)
(***************************************************************************)
EXTENDS PulseScheduler, Sequences

CONSTANTS
    Callers,      \* concurrent users of the runtime's API
    Scheduler,    \* the pulse, as a caller of stop() through onEndOffered
    Ops,          \* operations the callers use
    MaxStarts,    \* bound: start() calls
    MaxStops,     \* bound: pause() and stop() calls of the callers
    MaxCommits,   \* bound: event batches committed by pulses
    MaxFailures   \* bound: appends and gateway notifications that fail

ASSUME CallersAssumption ==
    /\ Scheduler \notin Callers
    /\ Ops \subseteq {"start", "pause", "stop", "runPulse"}
    /\ {MaxStarts, MaxStops, MaxCommits, MaxFailures} \subseteq Nat

VARIABLES
    active,     \* the simulation is in SimulationRuntime.active
    status,     \* the status column of the simulation's row
    log,        \* the committed events: kind and pulseIndex
    cursor,     \* lastCommittedEventId, as a position in log
    calls,      \* where each caller's operation resumes
    started,    \* per caller, the position of the simulation_started it wrote
    notified,   \* onSimulationStopped() calls made
    used        \* operations, commits and failures so far (for the bounds)

vars == <<running, timerArmed, orphans, inFlight, phase, waiters, continuations, pulseIndex,
          active, status, log, cursor, calls, started, notified, used>>

AllCallers == Callers \cup {Scheduler}

Statuses == {"initializing", "running", "paused", "stopped"}
Kinds == {"event", "simulation_started", "simulation_paused", "simulation_stopped"}
Resumes == {"idle", "start.status", "start.log", "start.arm", "pause.log",
            "stop.log", "stop.notify", "stop.delete", "offered"}
Counters == {"starts", "stops", "commits", "failures"}

TypeOK ==
    /\ SchedTypeOK
    /\ active \in BOOLEAN
    /\ status \in Statuses
    /\ log \in Seq([kind : Kinds, pulse : Nat])
    /\ cursor \in Nat
    /\ calls \in [AllCallers -> Resumes]
    /\ started \in [AllCallers -> Nat]
    /\ notified \in Nat
    /\ used \in [Counters -> Nat]

Init ==
    /\ SchedInit
    /\ active = TRUE            \* createSimulation() has returned
    /\ status = "initializing"
    /\ log = <<>>
    /\ cursor = 0
    /\ calls = [c \in AllCallers |-> "idle"]
    /\ started = [c \in AllCallers |-> 0]
    /\ notified = 0
    /\ used = [k \in Counters |-> 0]

-------------------------------------------------------------------------------
Resume(c, from, to) ==
    /\ calls[c] = from
    /\ calls' = [calls EXCEPT ![c] = to]

\* Where an operation that is over leaves its caller: a review that has
\* delivered an ending offer delivers no other.
Done(c) == IF c = Scheduler THEN "offered" ELSE "idle"

Use(counter, bound) ==
    /\ used[counter] < bound
    /\ used' = [used EXCEPT ![counter] = @ + 1]

Entry(kind, pulse) == [kind |-> kind, pulse |-> pulse]

\* start(): the entry must exist; the row is read first.
StartCall(c) ==
    /\ "start" \in Ops
    /\ active
    /\ Resume(c, "idle", "start.status")
    /\ Use("starts", MaxStarts)
    /\ UNCHANGED <<schedVars, active, status, log, cursor, started, notified>>

\* Fault: start() leaves the row as it is.
StartStatusForgets(c) ==
    /\ Resume(c, "start.status", "start.log")
    /\ UNCHANGED <<schedVars, active, status, log, cursor, started, notified, used>>

\* No status is asserted: whatever the row says, it is running now.
StartStatus(c) ==
    /\ Resume(c, "start.status", "start.log")
    /\ status' = "running"
    /\ UNCHANGED <<schedVars, active, log, cursor, started, notified, used>>

\* simulation_started is stamped with pulse 0 even on a restart.
StartLog(c) ==
    /\ Resume(c, "start.log", "start.arm")
    /\ log' = Append(log, Entry("simulation_started", 0))
    /\ started' = [started EXCEPT ![c] = Len(log')]
    /\ UNCHANGED <<schedVars, active, status, cursor, notified, used>>

\* The scheduler's cursor is set to the event this call wrote.
StartArm(c) ==
    /\ Resume(c, "start.arm", "idle")
    /\ cursor' = started[c]
    /\ SchedStart
    /\ UNCHANGED <<active, status, log, started, notified, used>>

PauseCall(c) ==
    /\ "pause" \in Ops
    /\ active
    /\ Resume(c, "idle", "pause.log")
    /\ SchedStop
    /\ status' = "paused"
    /\ Use("stops", MaxStops)
    /\ UNCHANGED <<active, log, cursor, started, notified>>

PauseLog(c) ==
    /\ Resume(c, "pause.log", "idle")
    /\ log' = Append(log, Entry("simulation_paused", pulseIndex))
    /\ UNCHANGED <<schedVars, active, status, cursor, started, notified, used>>

\* The chunk of stop() up to its first await.
StopBody(c) ==
    /\ active
    /\ Resume(c, "idle", "stop.log")
    /\ status' = "stopped"
    /\ UNCHANGED <<active, log, cursor, started, notified>>

StopCall(c) ==
    /\ "stop" \in Ops
    /\ c \in Callers
    /\ StopBody(c)
    /\ SchedStop
    /\ Use("stops", MaxStops)

StopLog(c) ==
    /\ Resume(c, "stop.log", "stop.notify")
    /\ log' = Append(log, Entry("simulation_stopped", pulseIndex))
    /\ UNCHANGED <<schedVars, active, status, cursor, started, notified, used>>

StopNotify(c) ==
    /\ Resume(c, "stop.notify", "stop.delete")
    /\ notified' = notified + 1
    /\ UNCHANGED <<schedVars, active, status, log, cursor, started, used>>

StopDelete(c) ==
    /\ Resume(c, "stop.delete", Done(c))
    /\ active' = FALSE
    /\ UNCHANGED <<schedVars, status, log, cursor, started, notified, used>>

\* The append an operation awaits rejects, and with it the operation: what it
\* did before the await stays done.
OperationFails(c) ==
    /\ \E from \in {"start.log", "pause.log", "stop.log"} : Resume(c, from, Done(c))
    /\ Use("failures", MaxFailures)
    /\ UNCHANGED <<schedVars, active, status, log, cursor, started, notified>>

\* A gateway's onSimulationStopped rejects: the entry is not deleted.
NotifyFails(c) ==
    /\ Resume(c, "stop.notify", Done(c))
    /\ notified' = notified + 1
    /\ Use("failures", MaxFailures)
    /\ UNCHANGED <<schedVars, active, status, log, cursor, started>>

-------------------------------------------------------------------------------
\* appendAndProject() in an agent's turn, in the stagnation check or for the
\* review: nothing asks whether the simulation still runs.  A failed append
\* changes nothing the pulse goes on with.
Commit(e) ==
    /\ phase[e] \in {"turns", "review"}
    /\ calls[Scheduler] = "idle"
    /\ log' = Append(log, Entry("event", pulseIndex))
    /\ cursor' = Len(log')
    /\ Use("commits", MaxCommits)
    /\ UNCHANGED <<schedVars, active, status, calls, started, notified>>

\* The review, which pulse 0 does without, delivers an ending offer and awaits
\* the runtime's stop().  If the entry is gone stop() throws, which the review
\* swallows.
EndOffered(e) ==
    /\ phase[e] = "review"
    /\ pulseIndex > 0
    /\ StopBody(Scheduler)
    /\ SchedStop
    /\ Use("stops", MaxStops)

\* runPulse() through the runtime: throws once the entry is deleted.
CallRunPulse ==
    /\ "runPulse" \in Ops
    /\ active
    /\ RunPulse
    /\ UNCHANGED <<active, status, log, cursor, calls, started, notified, used>>

\* A pulse awaiting its own stop() does not end.
EndPulse ==
    /\ calls[Scheduler] \in {"idle", "offered"}
    /\ calls' = [calls EXCEPT ![Scheduler] = "idle"]
    /\ \E e \in Execs : FinishPulse(e)
    /\ UNCHANGED <<active, status, log, cursor, started, notified, used>>

ScheduledStep ==
    \/ EndPulse
    \/ /\ \/ TimerFires
          \/ Continue
          \/ \E e \in Execs : LoadContext(e) \/ EndTurns(e) \/ FailPulse(e) \/ Settle(e)
       /\ UNCHANGED <<active, status, log, cursor, calls, started, notified, used>>

Operation(c) ==
    \/ StartCall(c) \/ StartStatus(c) \/ StartLog(c) \/ StartArm(c)
    \/ PauseCall(c) \/ PauseLog(c)
    \/ StopCall(c)
    \/ OperationFails(c)

StopStep(c) == StopLog(c) \/ StopNotify(c) \/ StopDelete(c) \/ NotifyFails(c)

Next ==
    \/ \E c \in Callers : Operation(c)
    \/ \E c \in AllCallers : StopStep(c)
    \/ OperationFails(Scheduler)
    \/ \E e \in Execs : Commit(e) \/ EndOffered(e)
    \/ CallRunPulse
    \/ ScheduledStep

Spec == Init /\ [][Next]_vars

Fairness ==
    /\ WF_vars(ScheduledStep)
    /\ \A c \in AllCallers :
          /\ WF_vars(StopStep(c))
          /\ WF_vars(StartStatus(c) \/ StartLog(c) \/ StartArm(c) \/ PauseLog(c))

\* Timers that are due fire, awaited calls settle, operations resume.  Whether
\* anyone calls the API, and whether an append fails, is left open.
FairSpec == Spec /\ Fairness

-------------------------------------------------------------------------------
Idle == \A c \in AllCallers : calls[c] \in {"idle", "offered"}

Lifecycle == {i \in DOMAIN log : log[i].kind # "event"}

\* The log is in pulse order whatever is committed by whom: events of pulses,
\* and the pause and stop events stamped from getPulseIndex().  Windows over
\* the log (getCommittedThrough, the stagnation window) rely on it.  A
\* simulation_started event is the exception: it carries pulse 0.
PulseOrder ==
    \A i, j \in DOMAIN log :
        /\ i < j
        /\ "simulation_started" \notin {log[i].kind, log[j].kind}
        => log[i].pulse <= log[j].pulse

\* Whatever the API's users do at the awaits of each other's operations, the
\* scheduler inside behaves as the scheduler alone: what PulseScheduler shows
\* (a living chain, one pulse at a time) holds in the runtime.
RuntimeKeepsScheduler == SchedSpec

\* stop() and pause() leave no armed timer behind.
StopClearsTimer == ~running => ~timerArmed /\ orphans = 0

\* A pulse begins only in a simulation that the scheduler, the active map and
\* the row all have running: no chain outlives the stop, neither the operator's
\* nor the one an ending offer makes from inside a pulse, finished or failed.
NoPulseAfterStop ==
    [][(inFlight = NoPulse /\ inFlight' # NoPulse) => running /\ active /\ status = "running"]_vars

\* Between operations, and unless an append failed, the row's status is the
\* one the newest lifecycle event announces.
StatusMatchesLog ==
    Idle /\ used["failures"] = 0 /\ Lifecycle # {} =>
        LET newest == CHOOSE i \in Lifecycle : \A j \in Lifecycle : j <= i
        IN  log[newest].kind = CASE status = "running" -> "simulation_started"
                                 [] status = "paused"  -> "simulation_paused"
                                 [] OTHER              -> "simulation_stopped"

\* Once the simulation is stopped no event of a pulse is committed any more.
NoCommitAfterStopped ==
    \A i, j \in DOMAIN log :
        i < j /\ log[i].kind = "simulation_stopped" => log[j].kind # "event"

\* The gateways hear of the end of a simulation once.
StoppedOnce == notified <= 1

\* While the simulation runs its pulses keep coming, and a pulse that fails,
\* or whose commits are refused, does not hold up the next.
PulsesKeepComing ==
    \A n \in 0 .. MaxPulses - 1 :
        (running /\ pulseIndex = n) ~> (~running \/ pulseIndex > n)

\* After a completed stop the runtime comes to rest for good: the pulse that
\* was in flight ends and no chain is left.
StopQuiesces == (~active) ~> [](inFlight = NoPulse /\ Chains = 0)
===============================================================================

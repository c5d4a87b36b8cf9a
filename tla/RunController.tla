----------------------------- MODULE RunController -----------------------------
(***************************************************************************)
(* The single live run of packages/server/src/http/run: run-controller.ts, *)
(* with the pulse loop of pulse-loop.ts it awaits and the start and stop   *)
(* requests of http/server.ts.                                             *)
(*                                                                         *)
(* start() and run() are one asynchronous process per run, cut at its      *)
(* awaits: `at` names the await the current run is suspended in.  A step   *)
(* is the synchronous code from there to the next await.  stop() requests  *)
(* and the model health watch interleave at the awaits.                    *)
(***************************************************************************)
EXTENDS Naturals, FiniteSets

CONSTANTS
    MaxRuns,    \* bound: runs accepted
    MaxPulses   \* pulses a run asks for

ASSUME ControllerAssumption == MaxRuns \in Nat /\ MaxPulses \in Nat

VARIABLES
    run,        \* the number of the run the controller holds, 0 before the first
    at,         \* the await the run's process is suspended in
    state,      \* status.state
    aborted,    \* this.abort.signal.aborted
    fatal,      \* this.fatal is set
    pulses,     \* status.pulsesRun, also the loop's count
    inFlight,   \* inFlight.current is a promise
    handle,     \* the run whose simulation handle is open, 0 for none
    sim,        \* the handle's simulation: in SimulationRuntime.active, or who stopped it
    reason,     \* status.stopReason
    final,      \* the state teardown() was asked to end in
    manifests,  \* the manifest each run has written
    ended,      \* the stream has been told the run stopped, and closed
    asked       \* the runs whose stop endpoint has been called

vars == <<run, at, state, aborted, fatal, pulses, inFlight, handle, sim, reason, final,
          manifests, ended, asked>>

Runs == 1 .. MaxRuns
States == {"idle", "validating", "health_check", "building", "running", "stopping",
           "done", "failed"}
Reasons == {"none", "completed", "stopped", "wall_clock", "error"}
SimStates == {"none", "active", "offered", "stopped"}
Awaits == {"nothing", "inputs", "config", "health", "build", "seed", "pulse", "yield",
           "drain", "stop", "manifest", "close", "rejected"}

NoManifest == [state |-> "idle", reason |-> "none", pulses |-> 0, dirty |-> FALSE]

TypeOK ==
    /\ run \in 0 .. MaxRuns
    /\ at \in Awaits
    /\ state \in States
    /\ aborted \in BOOLEAN
    /\ fatal \in BOOLEAN
    /\ pulses \in Nat
    /\ inFlight \in BOOLEAN
    /\ handle \in 0 .. MaxRuns
    /\ sim \in SimStates
    /\ reason \in Reasons
    /\ final \in {"done", "failed"}
    /\ manifests \in [Runs -> [state : {"idle", "done", "failed"}, reason : Reasons,
                               pulses : Nat, dirty : BOOLEAN]]
    /\ ended \in BOOLEAN
    /\ asked \subseteq Runs

Init ==
    /\ run = 0
    /\ at = "nothing"
    /\ state = "idle"
    /\ aborted = FALSE
    /\ fatal = FALSE
    /\ pulses = 0
    /\ inFlight = FALSE
    /\ handle = 0
    /\ sim = "none"
    /\ reason = "none"
    /\ final = "done"
    /\ manifests = [r \in Runs |-> NoManifest]
    /\ ended = FALSE
    /\ asked = {}

isActive == state \notin {"idle", "done", "failed"}

\* What runtime.stop() leaves: a simulation that is not active is not found, and
\* the error is ignored.
Stopped == IF sim = "active" THEN "stopped" ELSE sim

-------------------------------------------------------------------------------
\* Fault: the stream of the run before is not reset.
StartKeepsStream ==
    /\ ~isActive
    /\ run < MaxRuns
    /\ run' = run + 1
    /\ at' = "inputs"
    /\ state' = "validating"
    /\ aborted' = FALSE
    /\ fatal' = FALSE
    /\ pulses' = 0
    /\ inFlight' = FALSE
    /\ reason' = "none"
    /\ UNCHANGED <<handle, sim, final, manifests, ended, asked>>

\* POST /api/runs.  The request of an active controller is refused (409).
Start ==
    /\ ~isActive
    /\ run < MaxRuns
    /\ run' = run + 1
    /\ at' = "inputs"
    /\ state' = "validating"
    /\ aborted' = FALSE
    /\ fatal' = FALSE
    /\ pulses' = 0
    /\ inFlight' = FALSE
    /\ reason' = "none"
    /\ ended' = FALSE
    /\ UNCHANGED <<handle, sim, final, manifests, asked>>

\* Fault: stop() does not ask whether a run is active.
StopAlways(r) ==
    /\ r <= run
    /\ asked' = asked \cup {r}
    /\ aborted' = TRUE
    /\ state' = "stopping"
    /\ UNCHANGED <<run, at, fatal, pulses, inFlight, handle, sim, reason, final,
                   manifests, ended>>

\* Fault: stop() stops the runtime itself, under the pulse in flight.
StopAtOnce(r) ==
    /\ r <= run
    /\ asked' = asked \cup {r}
    /\ IF isActive /\ ~aborted
       THEN aborted' = TRUE /\ state' = "stopping" /\ sim' = Stopped
       ELSE UNCHANGED <<aborted, state, sim>>
    /\ UNCHANGED <<run, at, fatal, pulses, inFlight, handle, reason, final,
                   manifests, ended>>

\* POST /api/runs/<r>/stop.  The route does not compare <r> with the run the
\* controller holds, so any run ever started can be named.
Stop(r) ==
    /\ r <= run
    /\ asked' = asked \cup {r}
    /\ IF isActive /\ ~aborted
       THEN aborted' = TRUE /\ state' = "stopping"
       ELSE UNCHANGED <<aborted, state>>
    /\ UNCHANGED <<run, at, fatal, pulses, inFlight, handle, sim, reason, final,
                   manifests, ended>>

\* LlmHealthGateway, from inside a pulse: the first calls all failed.
LlmFatal ==
    /\ at = "pulse"
    /\ ~fatal
    /\ fatal' = TRUE
    /\ aborted' = TRUE
    /\ UNCHANGED <<run, at, state, pulses, inFlight, handle, sim, reason, final,
                   manifests, ended, asked>>

-------------------------------------------------------------------------------
\* teardown() up to its first await, entered from the loop's outcome or from
\* the catch of run().
BeginTeardown(why, as) ==
    /\ at' = "drain"
    /\ state' = "stopping"
    /\ reason' = why
    /\ final' = as

\* runPulseLoop() begins its next pulse ...
BeginPulse(n, shown) ==
    /\ n < MaxPulses
    /\ sim = "active"
    /\ at' = "pulse"
    /\ state' = shown
    /\ inFlight' = TRUE
    /\ UNCHANGED <<reason, final>>

\* ... or returns an outcome after n pulses.  The wall clock may be up whenever
\* it is read.  A simulation that its own pulse has ended is not found by the
\* next runPulse(), which the loop takes for an error.
Outcome(n, why) ==
    \/ why = "completed" /\ ~aborted /\ n >= MaxPulses
    \/ why = "stopped" /\ aborted
    \/ why = "wall_clock" /\ ~aborted /\ n < MaxPulses
    \/ why = "error" /\ ~aborted /\ n < MaxPulses /\ sim # "active"

Outcomes == {"completed", "stopped", "wall_clock", "error"}

\* Fault: the signal is not read between pulses.
LoopFromDeaf(n, shown) ==
    \/ BeginPulse(n, shown)
    \/ /\ n >= MaxPulses
       /\ BeginTeardown("completed", "done")
       /\ UNCHANGED inFlight

\* Fault: only the verdict on the model makes a run a failed one.
LoopFromErrorDone(n, shown) ==
    \/ ~aborted /\ BeginPulse(n, shown)
    \/ /\ \E why \in Outcomes : ~fatal /\ Outcome(n, why) /\ BeginTeardown(why, "done")
       /\ UNCHANGED inFlight
    \/ /\ fatal
       /\ BeginTeardown("error", "failed")
       /\ UNCHANGED inFlight

\* runPulseLoop() between two pulses, and run() from the outcome it returns: the
\* verdict that the model is unusable comes before the loop's own.
LoopFrom(n, shown) ==
    \/ ~aborted /\ BeginPulse(n, shown)
    \/ /\ ~fatal
       /\ \E why \in Outcomes :
             /\ Outcome(n, why)
             /\ BeginTeardown(why, IF why = "error" THEN "failed" ELSE "done")
       /\ UNCHANGED inFlight
    \/ /\ fatal
       /\ BeginTeardown("error", "failed")
       /\ UNCHANGED inFlight

WriteInputs ==
    /\ at = "inputs"
    /\ at' = "config"
    /\ UNCHANGED <<run, state, aborted, fatal, pulses, inFlight, handle, sim, reason, final,
                   manifests, ended, asked>>

\* run() is called without an await: its first state is set in the same step.
\* The mock provider skips the health check.
WriteConfig ==
    /\ at = "config"
    /\ \E next \in {"health_check", "building"} :
          /\ state' = next
          /\ at' = IF next = "building" THEN "build" ELSE "health"
    /\ UNCHANGED <<run, aborted, fatal, pulses, inFlight, handle, sim, reason, final,
                   manifests, ended, asked>>

\* The rejection leaves start() before run() is called: nothing catches it, and
\* nothing takes the state back.
WriteFails ==
    /\ at \in {"inputs", "config"}
    /\ at' = "rejected"
    /\ UNCHANGED <<run, state, aborted, fatal, pulses, inFlight, handle, sim, reason, final,
                   manifests, ended, asked>>

\* building overwrites the stopping of a stop() made during the health check.
HealthOk ==
    /\ at = "health"
    /\ at' = "build"
    /\ state' = "building"
    /\ UNCHANGED <<run, aborted, fatal, pulses, inFlight, handle, sim, reason, final,
                   manifests, ended, asked>>

Build ==
    /\ at = "build"
    /\ at' = "seed"
    /\ handle' = run
    /\ sim' = "active"
    /\ UNCHANGED <<run, state, aborted, fatal, pulses, inFlight, reason, final,
                   manifests, ended, asked>>

\* The seeds are applied and the loop is entered.
Seed ==
    /\ at = "seed"
    /\ LoopFrom(0, "running")
    /\ UNCHANGED <<run, aborted, fatal, pulses, handle, sim, manifests, ended, asked>>

\* The health check, the build or the seeding throws.
SetupFails ==
    /\ at \in {"health", "build", "seed"}
    /\ BeginTeardown("error", "failed")
    /\ UNCHANGED <<run, aborted, fatal, pulses, inFlight, handle, sim, manifests, ended, asked>>

\* The goal layer of a configuration that has one: the world review that ends
\* every pulse but the first commits its ending offer, and the runtime stops the
\* simulation from inside the pulse.  A stop a gateway rejects changes nothing.
EndOffered ==
    /\ at = "pulse"
    /\ pulses > 0
    /\ sim = "active"
    /\ sim' = "offered"
    /\ UNCHANGED <<run, at, state, aborted, fatal, pulses, inFlight, handle, reason, final,
                   manifests, ended, asked>>

\* A pulse settles: counted, published, and the loop yields the event loop.  A
\* pulse once begun does not reject: the scheduler catches what it throws.
PulseSettles ==
    /\ at = "pulse"
    /\ at' = "yield"
    /\ inFlight' = FALSE
    /\ pulses' = pulses + 1
    /\ UNCHANGED <<run, state, aborted, fatal, handle, sim, reason, final, manifests, ended,
                   asked>>

Yielded ==
    /\ at = "yield"
    /\ LoopFrom(pulses, state)
    /\ UNCHANGED <<run, aborted, fatal, pulses, handle, sim, manifests, ended, asked>>

-------------------------------------------------------------------------------
\* drainInFlight(): waits while a pulse is in flight, up to a timeout.
Drain ==
    /\ at = "drain"
    /\ at' = "stop"
    /\ UNCHANGED <<run, state, aborted, fatal, pulses, inFlight, handle, sim, reason, final,
                   manifests, ended, asked>>

\* runtime.stop(), if there is a handle; a gateway that rejects the stop leaves
\* the simulation active, and is ignored.  The replay is written next.
StopRuntime ==
    /\ at = "stop"
    /\ at' = "manifest"
    /\ sim' \in {sim, Stopped}
    /\ UNCHANGED <<run, state, aborted, fatal, pulses, inFlight, handle, reason, final,
                   manifests, ended, asked>>

\* Fault: a manifest that cannot be written ends the process of the run.
WriteManifestUncaught ==
    /\ at = "manifest"
    /\ \/ /\ at' = "close"
          /\ manifests' = [manifests EXCEPT ![run] =
                [state |-> final, reason |-> reason, pulses |-> pulses, dirty |-> inFlight]]
       \/ /\ at' = "nothing"
          /\ UNCHANGED manifests
    /\ UNCHANGED <<run, state, aborted, fatal, pulses, inFlight, handle, sim, reason, final,
                   ended, asked>>

\* The manifest is written, or cannot be.
WriteManifest ==
    /\ at = "manifest"
    /\ at' = "close"
    /\ \/ manifests' = [manifests EXCEPT ![run] =
             [state |-> final, reason |-> reason, pulses |-> pulses, dirty |-> inFlight]]
       \/ UNCHANGED manifests
    /\ UNCHANGED <<run, state, aborted, fatal, pulses, inFlight, handle, sim, reason, final,
                   ended, asked>>

\* The handle is closed; then, without an await, the final state, the stopped
\* event and the end of the stream.
Close ==
    /\ at = "close"
    /\ at' = "nothing"
    /\ handle' = 0
    /\ sim' = "none"
    /\ state' = final
    /\ ended' = TRUE
    /\ UNCHANGED <<run, aborted, fatal, pulses, inFlight, reason, final, manifests, asked>>

Setup == WriteInputs \/ WriteConfig \/ WriteFails \/ HealthOk \/ Build \/ Seed \/ SetupFails
Finish == Drain \/ StopRuntime \/ WriteManifest \/ Close

Next ==
    \/ Start
    \/ \E r \in Runs : Stop(r)
    \/ LlmFatal
    \/ Setup
    \/ EndOffered
    \/ PulseSettles
    \/ Yielded
    \/ Finish

Spec == Init /\ [][Next]_vars

\* What the process awaits settles: files, the health check, the build and the
\* timers.  A pulse is not among them.
HangSpec == Spec /\ WF_vars(Setup) /\ WF_vars(Yielded) /\ WF_vars(Finish)

\* Nor does a pulse hang.  Model calls are timed out, and so is the gateway of
\* the web page; that the other gateways of a configuration answer is assumed.
FairSpec == HangSpec /\ WF_vars(PulseSettles)

-------------------------------------------------------------------------------
\* The handle of a simulation never outlives the run that built it, so no start
\* replaces a handle that teardown() is still to stop and close.
OneHandle == handle # 0 => handle = run /\ isActive

\* A pulse only runs on an open database and in a simulation that nobody but the
\* pulse itself has stopped: teardown() neither stops the runtime nor closes the
\* handle under it, whatever raced the loop.
PulseHasItsRoom == inFlight => handle = run /\ sim \in {"active", "offered"}

\* A stop, or the verdict that the model is unusable, lets the pulse in flight
\* end and no other begin, whenever it comes: also while the run is being built.
NoPulseAfterAbort == [][aborted /\ ~inFlight => ~inFlight']_vars

\* A written manifest agrees with how the run ended: as the status still shown
\* for it, complete only if every pulse ran, failed exactly for an error.
ManifestTellsTheRun ==
    \A r \in Runs :
        manifests[r] # NoManifest =>
            /\ manifests[r].reason = "completed" => manifests[r].pulses = MaxPulses
            /\ manifests[r].state = "failed" <=> manifests[r].reason = "error"
            /\ r = run /\ ~isActive =>
                  manifests[r] = [state |-> state, reason |-> reason, pulses |-> pulses,
                                  dirty |-> FALSE]

\* The stream is closed exactly while the controller is free again after a run:
\* a client told that the run stopped finds it stopped, and the next run
\* publishes to an open stream.
StreamEndsWithRun == ended <=> state \in {"done", "failed"}

\* docs/concepts/goal-layer.md: "an earned end offer that terminates the run
\* through the runtime's stop path".  So a run whose story has ended that way,
\* and whose model was not found unusable, has not stopped for an error.
EarnedEndIsNoError == sim = "offered" /\ ~fatal => reason # "error"

\* A stop request ends only the run it names, so one that comes twice, or late,
\* does nothing to the next run.
StopIsForThisRun == aborted /\ ~fatal => run \in asked

\* Every accepted run ends, except where its inputs could not be written.
RunsEnd == isActive ~> (~isActive \/ at = "rejected")

\* A run asked to stop ends, even if a pulse never settles: the wait for it is
\* bounded.
StopFreesController ==
    \A r \in Runs : (run = r /\ r \in asked /\ at = "pulse") ~> (run # r \/ ~isActive)

Contract == INSTANCE RunContract WITH
    current <- run,
    verdict <- IF run = 0 THEN "none" ELSE IF isActive THEN "open" ELSE state

\* One run at a time, each ending once.
RunsKeepContract == Contract!ContractSpec
===============================================================================

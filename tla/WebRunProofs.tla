----------------------------- MODULE WebRunProofs -----------------------------
(***************************************************************************)
(* What is true of a run in the web process.  First its controller, for    *)
(* any number of runs and pulses: the invariant ties the await a run is    *)
(* suspended in to the shared fields of the controller, which of them a    *)
(* step may rely on after its await.  Then the live view a page has of one *)
(* run.  The two components share no state.                                *)
(***************************************************************************)
EXTENDS RunController, LiveStream, WellFoundedInduction, SequenceTheorems, TLAPS

Built == {"seed", "pulse", "yield"}
Teardown == {"drain", "stop", "manifest", "close"}
Terminal == {"done", "failed"}

\* Where the process stands tells what the fields hold: the controller is free
\* exactly when no process is suspended ...
Resting == at = "nothing" <=> ~isActive
\* ... only a controller that never ran is idle ...
Numbered == state = "idle" <=> run = 0
\* ... inFlight is set exactly across the await of a pulse ...
Flying == inFlight <=> at = "pulse"
\* ... from the build on the run's own simulation is open, and only a pulse of its
\* own has stopped it ...
Housed == at \in Built => handle = run /\ sim \in {"active", "offered"}
\* ... and only until teardown() is over ...
Holding == handle # 0 => handle = run /\ at \in Built \cup Teardown
\* ... where the stream ends.
Streaming == ended <=> state \in Terminal

Suspended == Resting /\ Numbered /\ Flying /\ Housed /\ Holding /\ Streaming

\* How the run ends, decided when teardown() begins, is not decided again.
Decided ==
    /\ pulses <= MaxPulses
    /\ at \in {"inputs", "config", "health", "build", "seed"} => pulses = 0
    /\ at = "pulse" => pulses < MaxPulses
    /\ at \in Teardown \cup {"nothing"} /\ run # 0 =>
          /\ final = "failed" <=> reason = "error"
          /\ reason = "completed" => pulses = MaxPulses
    /\ at = "nothing" /\ run # 0 => state = final

IInv == TypeOK /\ Suspended /\ Decided

-------------------------------------------------------------------------------
Manifests == [state : {"idle", "done", "failed"}, reason : Reasons, pulses : Nat, dirty : BOOLEAN]

\* runPulseLoop() reads n <= MaxPulses: it begins a pulse only below the bound,
\* and the outcome it returns is the one teardown() is told.
LEMMA LoopOutcome ==
  ASSUME NEW n \in Nat, n <= MaxPulses, NEW shown, LoopFrom(n, shown), TypeOK
  PROVE  \/ /\ at' = "pulse" /\ n < MaxPulses /\ state' = shown /\ inFlight' = TRUE
            /\ UNCHANGED <<reason, final>>
         \/ /\ at' = "drain" /\ state' = "stopping" /\ UNCHANGED inFlight
            /\ reason' \in Reasons /\ final' \in {"done", "failed"}
            /\ final' = "failed" <=> reason' = "error"
            /\ reason' = "completed" => n = MaxPulses
<1>0. MaxPulses \in Nat
  BY ControllerAssumption
<1>1. CASE BeginPulse(n, shown)
  BY <1>1 DEF BeginPulse
<1>2. ASSUME NEW why \in Outcomes, Outcome(n, why),
             BeginTeardown(why, IF why = "error" THEN "failed" ELSE "done"), UNCHANGED inFlight
      PROVE  /\ at' = "drain" /\ state' = "stopping" /\ UNCHANGED inFlight
             /\ reason' \in Reasons /\ final' \in {"done", "failed"}
             /\ final' = "failed" <=> reason' = "error"
             /\ reason' = "completed" => n = MaxPulses
  <2>1. why = "completed" => n = MaxPulses
    BY <1>0, <1>2 DEF Outcome
  <2> QED
    BY <1>2, <2>1 DEF BeginTeardown, Outcomes, Reasons
<1>3. CASE BeginTeardown("error", "failed") /\ UNCHANGED inFlight
  BY <1>3 DEF BeginTeardown, Reasons
<1> QED
  BY <1>1, <1>2, <1>3, Zenon DEF LoopFrom

LEMMA SeedOutcome ==
  ASSUME Seed, TypeOK
  PROVE  \/ /\ at' = "pulse" /\ 0 < MaxPulses /\ state' = "running" /\ inFlight' = TRUE
            /\ UNCHANGED <<reason, final>>
         \/ /\ at' = "drain" /\ state' = "stopping" /\ UNCHANGED inFlight
            /\ reason' \in Reasons /\ final' \in {"done", "failed"}
            /\ final' = "failed" <=> reason' = "error"
            /\ reason' = "completed" => MaxPulses = 0
<1>1. 0 \in Nat /\ 0 <= MaxPulses
  BY ControllerAssumption
<1>2. LoopFrom(0, "running")
  BY DEF Seed
<1> QED
  BY <1>1, <1>2, LoopOutcome

LEMMA ControllerInit == Init => IInv
<1> SUFFICES ASSUME Init PROVE IInv
  OBVIOUS
<1>1. NoManifest \in Manifests
  BY DEF NoManifest, Manifests, Reasons
<1>2. TypeOK
  <2>1. 0 \in 0 .. MaxRuns /\ 0 \in Nat
    BY ControllerAssumption
  <2>2. manifests \in [Runs -> Manifests]
    BY <1>1, Zenon DEF Init
  <2> QED
    BY <2>1, <2>2, Zenon DEF Init, TypeOK, Awaits, States, SimStates, Reasons, Manifests
<1>3. Suspended
  BY DEF Init, Suspended, Resting, Numbered, Flying, Housed, Holding, Streaming, isActive, Built, Teardown, Terminal
<1>4. Decided
  BY ControllerAssumption DEF Init, Decided, Teardown
<1> QED
  BY <1>2, <1>3, <1>4 DEF IInv

\* What a field holds after any step is one of the values it may hold.  The
\* numbers first; the others are enumerations.
LEMMA NumbersStep ==
  ASSUME TypeOK, [Next]_vars
  PROVE  run' \in 0 .. MaxRuns /\ pulses' \in Nat /\ handle' \in 0 .. MaxRuns
<1>1. run \in 0 .. MaxRuns /\ pulses \in Nat /\ handle \in 0 .. MaxRuns /\ 0 \in 0 .. MaxRuns
  BY ControllerAssumption DEF TypeOK
<1>2. pulses + 1 \in Nat /\ 0 \in Nat
  BY <1>1
<1>3. CASE Start
  <2>1. run + 1 \in 0 .. MaxRuns
    BY <1>1, <1>3, ControllerAssumption DEF Start
  <2> QED
    BY <1>1, <1>2, <1>3, <2>1, Zenon DEF Start
<1>4. ASSUME NEW r \in Runs, Stop(r) \/ LlmFatal
      PROVE  UNCHANGED <<run, pulses, handle>>
  BY <1>4, Zenon DEF Stop, LlmFatal
<1>5. CASE Setup \/ Finish \/ EndOffered \/ PulseSettles \/ Yielded \/ LlmFatal
  BY <1>1, <1>2, <1>5, Zenon
     DEF Setup, WriteInputs, WriteConfig, WriteFails, HealthOk, Build, Seed, SetupFails,
         Finish, Drain, StopRuntime, WriteManifest, Close, EndOffered, PulseSettles, Yielded, LlmFatal
<1>6. CASE UNCHANGED vars
  BY <1>1, <1>6, Zenon DEF vars
<1> QED
  BY <1>1, <1>3, <1>4, <1>5, <1>6, Zenon DEF Next

LEMMA ManifestsStep ==
  ASSUME TypeOK, [Next]_vars
  PROVE  manifests' \in [Runs -> Manifests]
<1>1. manifests \in [Runs -> Manifests] /\ pulses \in Nat /\ inFlight \in BOOLEAN
  BY DEF TypeOK, Manifests
<1>2. CASE WriteManifest
  <2>1. [state |-> final, reason |-> reason, pulses |-> pulses, dirty |-> inFlight] \in Manifests
    BY <1>1 DEF TypeOK, Manifests
  <2> QED
    BY <1>1, <1>2, <2>1, Zenon DEF WriteManifest
<1>3. WriteManifest \/ UNCHANGED manifests
  BY Zenon DEF Next, Start, Stop, LlmFatal, Setup, WriteInputs, WriteConfig, WriteFails, HealthOk,
     Build, Seed, SetupFails, Finish, Drain, StopRuntime, Close, EndOffered, PulseSettles, Yielded, vars
<1> QED
  BY <1>1, <1>2, <1>3, Zenon

\* The enumerations.
Enumerated ==
    /\ at \in Awaits
    /\ state \in States
    /\ aborted \in BOOLEAN /\ fatal \in BOOLEAN /\ inFlight \in BOOLEAN
    /\ sim \in SimStates /\ ended \in BOOLEAN
    /\ reason \in Reasons
    /\ final \in {"done", "failed"}
    /\ asked \subseteq Runs

LEMMA EnumeratedStep ==
  ASSUME TypeOK, Decided, [Next]_vars
  PROVE  Enumerated'
<1>1. Enumerated
  BY DEF TypeOK, Enumerated
<1> USE <1>1 DEF Enumerated, Awaits, States, SimStates, Reasons
<1>2. CASE Start
  BY <1>2, Zenon DEF Start
<1>3. ASSUME NEW r \in Runs, Stop(r) PROVE Enumerated'
  <2>1. asked' \subseteq Runs
    BY <1>3, Zenon DEF Stop
  <2>2. UNCHANGED <<at, fatal, inFlight, sim, reason, final, ended>>
    BY <1>3, Zenon DEF Stop
  <2>3. aborted' \in BOOLEAN /\ state' \in States
    <3>1. CASE isActive /\ ~aborted
      BY <1>3, <3>1, Zenon DEF Stop
    <3>2. CASE ~(isActive /\ ~aborted)
      BY <1>3, <3>2, Zenon DEF Stop
    <3> QED
      BY <3>1, <3>2, Zenon
  <2> QED
    BY <2>1, <2>2, <2>3
<1>4. CASE LlmFatal
  BY <1>4, Zenon DEF LlmFatal
<1>5. CASE WriteInputs \/ WriteFails
  BY <1>5, Zenon DEF WriteInputs, WriteFails
<1>6. CASE WriteConfig
  BY <1>6 DEF WriteConfig
<1>7. CASE HealthOk \/ Build
  BY <1>7, Zenon DEF HealthOk, Build
<1>8. CASE SetupFails
  BY <1>8, Zenon DEF SetupFails, BeginTeardown
<1>9. CASE Seed
  BY <1>9, SeedOutcome, Zenon DEF Seed
<1>10. CASE Yielded
  <2>1. pulses \in Nat /\ pulses <= MaxPulses
    BY DEF TypeOK, Decided
  <2> QED
    BY <1>10, <2>1, LoopOutcome, Zenon DEF Yielded
<1>11. CASE EndOffered \/ PulseSettles
  BY <1>11, Zenon DEF EndOffered, PulseSettles
<1>12. CASE Drain \/ StopRuntime
  BY <1>12, Zenon DEF Drain, StopRuntime, Stopped
<1>13. CASE WriteManifest
  BY <1>13, Zenon DEF WriteManifest
<1>14. CASE Close
  BY <1>14, Zenon DEF Close
<1>15. CASE UNCHANGED vars
  <2>1. UNCHANGED <<at, state, aborted, fatal, inFlight, sim, ended, reason, final, asked>>
    BY <1>15, Zenon DEF vars
  <2> QED
    BY <2>1
<1> QED
  BY <1>2, <1>3, <1>4, <1>5, <1>6, <1>7, <1>8, <1>9, <1>10, <1>11, <1>12, <1>13, <1>14, <1>15, Zenon
     DEF Next, Setup, Finish

LEMMA TypingStep ==
  ASSUME TypeOK, Decided, [Next]_vars
  PROVE  TypeOK'
BY NumbersStep, ManifestsStep, EnumeratedStep, Zenon DEF TypeOK, Enumerated, Manifests

-------------------------------------------------------------------------------
\* The fields against the await, one part of the invariant at a time.
LEMMA RestingStep ==
  ASSUME TypeOK, Suspended, Decided, [Next]_vars
  PROVE  Resting'
<1> USE ControllerAssumption DEF Resting, Numbered, Flying, Housed, Holding, Streaming, Suspended,
        isActive, Built, Teardown, Terminal, Runs
<1>1. CASE Start
  BY <1>1 DEF TypeOK, Decided, Start
<1>2. ASSUME NEW r \in Runs, Stop(r) PROVE Resting'
  BY <1>2 DEF TypeOK, Decided, Stop
<1>3. CASE LlmFatal
  BY <1>3 DEF TypeOK, Decided, LlmFatal
<1>4. CASE WriteInputs \/ WriteConfig \/ WriteFails
  BY <1>4 DEF TypeOK, Decided, WriteInputs, WriteConfig, WriteFails
<1>5. CASE HealthOk \/ Build
  BY <1>5 DEF TypeOK, Decided, HealthOk, Build
<1>6. CASE SetupFails
  BY <1>6 DEF TypeOK, Decided, SetupFails, BeginTeardown
<1>7. CASE Seed
  BY <1>7, SeedOutcome DEF TypeOK, Decided, Seed
<1>8. CASE Yielded
  BY <1>8, LoopOutcome DEF TypeOK, Decided, Yielded
<1>9. CASE EndOffered \/ PulseSettles
  BY <1>9 DEF TypeOK, Decided, EndOffered, PulseSettles
<1>10. CASE Drain \/ StopRuntime
  <2>1. CASE Drain
    BY <2>1 DEF TypeOK, Decided, Drain
  <2>2. CASE StopRuntime
    BY <2>2 DEF TypeOK, Decided, StopRuntime, Stopped
  <2> QED
    BY <1>10, <2>1, <2>2
<1>11. CASE WriteManifest
  BY <1>11 DEF TypeOK, Decided, WriteManifest
<1>12. CASE Close
  BY <1>12 DEF TypeOK, Decided, Close
<1>13. CASE UNCHANGED vars
  BY <1>13 DEF TypeOK, Decided, vars
<1> QED
  BY <1>1, <1>2, <1>3, <1>4, <1>5, <1>6, <1>7, <1>8, <1>9, <1>10, <1>11, <1>12, <1>13, Zenon
     DEF Next, Setup, Finish

LEMMA NumberedStep ==
  ASSUME TypeOK, Suspended, Decided, [Next]_vars
  PROVE  Numbered'
<1> USE ControllerAssumption DEF Resting, Numbered, Flying, Housed, Holding, Streaming, Suspended,
        isActive, Built, Teardown, Terminal, Runs
<1>1. CASE Start
  BY <1>1 DEF TypeOK, Decided, Start
<1>2. ASSUME NEW r \in Runs, Stop(r) PROVE Numbered'
  BY <1>2 DEF TypeOK, Decided, Stop
<1>3. CASE LlmFatal
  BY <1>3 DEF TypeOK, Decided, LlmFatal
<1>4. CASE WriteInputs \/ WriteConfig \/ WriteFails
  BY <1>4 DEF TypeOK, Decided, WriteInputs, WriteConfig, WriteFails
<1>5. CASE HealthOk \/ Build
  BY <1>5 DEF TypeOK, Decided, HealthOk, Build
<1>6. CASE SetupFails
  BY <1>6 DEF TypeOK, Decided, SetupFails, BeginTeardown
<1>7. CASE Seed
  BY <1>7, SeedOutcome DEF TypeOK, Decided, Seed
<1>8. CASE Yielded
  BY <1>8, LoopOutcome DEF TypeOK, Decided, Yielded
<1>9. CASE EndOffered \/ PulseSettles
  BY <1>9 DEF TypeOK, Decided, EndOffered, PulseSettles
<1>10. CASE Drain \/ StopRuntime
  <2>1. CASE Drain
    BY <2>1 DEF TypeOK, Decided, Drain
  <2>2. CASE StopRuntime
    BY <2>2 DEF TypeOK, Decided, StopRuntime, Stopped
  <2> QED
    BY <1>10, <2>1, <2>2
<1>11. CASE WriteManifest
  BY <1>11 DEF TypeOK, Decided, WriteManifest
<1>12. CASE Close
  BY <1>12 DEF TypeOK, Decided, Close
<1>13. CASE UNCHANGED vars
  BY <1>13 DEF TypeOK, Decided, vars
<1> QED
  BY <1>1, <1>2, <1>3, <1>4, <1>5, <1>6, <1>7, <1>8, <1>9, <1>10, <1>11, <1>12, <1>13, Zenon
     DEF Next, Setup, Finish

LEMMA FlyingStep ==
  ASSUME TypeOK, Suspended, Decided, [Next]_vars
  PROVE  Flying'
<1> USE ControllerAssumption DEF Resting, Numbered, Flying, Housed, Holding, Streaming, Suspended,
        isActive, Built, Teardown, Terminal, Runs
<1>1. CASE Start
  BY <1>1 DEF TypeOK, Decided, Start
<1>2. ASSUME NEW r \in Runs, Stop(r) PROVE Flying'
  BY <1>2 DEF TypeOK, Decided, Stop
<1>3. CASE LlmFatal
  BY <1>3 DEF TypeOK, Decided, LlmFatal
<1>4. CASE WriteInputs \/ WriteConfig \/ WriteFails
  BY <1>4 DEF TypeOK, Decided, WriteInputs, WriteConfig, WriteFails
<1>5. CASE HealthOk \/ Build
  BY <1>5 DEF TypeOK, Decided, HealthOk, Build
<1>6. CASE SetupFails
  BY <1>6 DEF TypeOK, Decided, SetupFails, BeginTeardown
<1>7. CASE Seed
  <2>1. at = "seed" /\ ~inFlight
    BY <1>7 DEF Seed
  <2>2. (at' = "pulse" /\ inFlight' = TRUE) \/ (at' = "drain" /\ inFlight' = inFlight)
    BY <1>7, SeedOutcome
  <2>3. CASE at' = "pulse" /\ inFlight' = TRUE
    BY <2>3, Zenon
  <2>4. CASE at' = "drain" /\ inFlight' = inFlight
    BY <2>1, <2>4
  <2> QED
    BY <2>2, <2>3, <2>4, Zenon
<1>8. CASE Yielded
  BY <1>8, LoopOutcome DEF TypeOK, Decided, Yielded
<1>9. CASE EndOffered \/ PulseSettles
  BY <1>9 DEF TypeOK, Decided, EndOffered, PulseSettles
<1>10. CASE Drain \/ StopRuntime
  <2>1. CASE Drain
    BY <2>1 DEF TypeOK, Decided, Drain
  <2>2. CASE StopRuntime
    BY <2>2 DEF TypeOK, Decided, StopRuntime, Stopped
  <2> QED
    BY <1>10, <2>1, <2>2
<1>11. CASE WriteManifest
  BY <1>11 DEF TypeOK, Decided, WriteManifest
<1>12. CASE Close
  BY <1>12 DEF TypeOK, Decided, Close
<1>13. CASE UNCHANGED vars
  BY <1>13 DEF TypeOK, Decided, vars
<1> QED
  BY <1>1, <1>2, <1>3, <1>4, <1>5, <1>6, <1>7, <1>8, <1>9, <1>10, <1>11, <1>12, <1>13, Zenon
     DEF Next, Setup, Finish

LEMMA HousedStep ==
  ASSUME TypeOK, Suspended, Decided, [Next]_vars
  PROVE  Housed'
<1> USE ControllerAssumption DEF Resting, Numbered, Flying, Housed, Holding, Streaming, Suspended,
        isActive, Built, Teardown, Terminal, Runs
<1>1. CASE Start
  BY <1>1 DEF TypeOK, Decided, Start
<1>2. ASSUME NEW r \in Runs, Stop(r) PROVE Housed'
  BY <1>2 DEF TypeOK, Decided, Stop
<1>3. CASE LlmFatal
  BY <1>3 DEF TypeOK, Decided, LlmFatal
<1>4. CASE WriteInputs \/ WriteConfig \/ WriteFails
  BY <1>4 DEF TypeOK, Decided, WriteInputs, WriteConfig, WriteFails
<1>5. CASE HealthOk \/ Build
  BY <1>5 DEF TypeOK, Decided, HealthOk, Build
<1>6. CASE SetupFails
  BY <1>6 DEF TypeOK, Decided, SetupFails, BeginTeardown
<1>7. CASE Seed
  BY <1>7, SeedOutcome DEF TypeOK, Decided, Seed
<1>8. CASE Yielded
  BY <1>8, LoopOutcome DEF TypeOK, Decided, Yielded
<1>9. CASE EndOffered \/ PulseSettles
  BY <1>9 DEF TypeOK, Decided, EndOffered, PulseSettles
<1>10. CASE Drain \/ StopRuntime
  <2>1. CASE Drain
    BY <2>1 DEF TypeOK, Decided, Drain
  <2>2. CASE StopRuntime
    BY <2>2 DEF TypeOK, Decided, StopRuntime, Stopped
  <2> QED
    BY <1>10, <2>1, <2>2
<1>11. CASE WriteManifest
  BY <1>11 DEF TypeOK, Decided, WriteManifest
<1>12. CASE Close
  BY <1>12 DEF TypeOK, Decided, Close
<1>13. CASE UNCHANGED vars
  BY <1>13 DEF TypeOK, Decided, vars
<1> QED
  BY <1>1, <1>2, <1>3, <1>4, <1>5, <1>6, <1>7, <1>8, <1>9, <1>10, <1>11, <1>12, <1>13, Zenon
     DEF Next, Setup, Finish

LEMMA HoldingStep ==
  ASSUME TypeOK, Suspended, Decided, [Next]_vars
  PROVE  Holding'
<1> USE ControllerAssumption DEF Resting, Numbered, Flying, Housed, Holding, Streaming, Suspended,
        isActive, Built, Teardown, Terminal, Runs
<1>1. CASE Start
  BY <1>1 DEF TypeOK, Decided, Start
<1>2. ASSUME NEW r \in Runs, Stop(r) PROVE Holding'
  BY <1>2 DEF TypeOK, Decided, Stop
<1>3. CASE LlmFatal
  BY <1>3 DEF TypeOK, Decided, LlmFatal
<1>4. CASE WriteInputs \/ WriteConfig \/ WriteFails
  BY <1>4 DEF TypeOK, Decided, WriteInputs, WriteConfig, WriteFails
<1>5. CASE HealthOk \/ Build
  BY <1>5 DEF TypeOK, Decided, HealthOk, Build
<1>6. CASE SetupFails
  BY <1>6 DEF TypeOK, Decided, SetupFails, BeginTeardown
<1>7. CASE Seed
  BY <1>7, SeedOutcome DEF TypeOK, Decided, Seed
<1>8. CASE Yielded
  BY <1>8, LoopOutcome DEF TypeOK, Decided, Yielded
<1>9. CASE EndOffered \/ PulseSettles
  BY <1>9 DEF TypeOK, Decided, EndOffered, PulseSettles
<1>10. CASE Drain \/ StopRuntime
  <2>1. CASE Drain
    BY <2>1 DEF TypeOK, Decided, Drain
  <2>2. CASE StopRuntime
    BY <2>2 DEF TypeOK, Decided, StopRuntime, Stopped
  <2> QED
    BY <1>10, <2>1, <2>2
<1>11. CASE WriteManifest
  BY <1>11 DEF TypeOK, Decided, WriteManifest
<1>12. CASE Close
  BY <1>12 DEF TypeOK, Decided, Close
<1>13. CASE UNCHANGED vars
  BY <1>13 DEF TypeOK, Decided, vars
<1> QED
  BY <1>1, <1>2, <1>3, <1>4, <1>5, <1>6, <1>7, <1>8, <1>9, <1>10, <1>11, <1>12, <1>13, Zenon
     DEF Next, Setup, Finish

LEMMA StreamingStep ==
  ASSUME TypeOK, Suspended, Decided, [Next]_vars
  PROVE  Streaming'
<1> USE ControllerAssumption DEF Resting, Numbered, Flying, Housed, Holding, Streaming, Suspended,
        isActive, Built, Teardown, Terminal, Runs
<1>1. CASE Start
  BY <1>1 DEF TypeOK, Decided, Start
<1>2. ASSUME NEW r \in Runs, Stop(r) PROVE Streaming'
  BY <1>2 DEF TypeOK, Decided, Stop
<1>3. CASE LlmFatal
  BY <1>3 DEF TypeOK, Decided, LlmFatal
<1>4. CASE WriteInputs \/ WriteConfig \/ WriteFails
  BY <1>4 DEF TypeOK, Decided, WriteInputs, WriteConfig, WriteFails
<1>5. CASE HealthOk \/ Build
  BY <1>5 DEF TypeOK, Decided, HealthOk, Build
<1>6. CASE SetupFails
  BY <1>6 DEF TypeOK, Decided, SetupFails, BeginTeardown
<1>7. CASE Seed
  BY <1>7, SeedOutcome DEF TypeOK, Decided, Seed
<1>8. CASE Yielded
  BY <1>8, LoopOutcome DEF TypeOK, Decided, Yielded
<1>9. CASE EndOffered \/ PulseSettles
  BY <1>9 DEF TypeOK, Decided, EndOffered, PulseSettles
<1>10. CASE Drain \/ StopRuntime
  <2>1. CASE Drain
    BY <2>1 DEF TypeOK, Decided, Drain
  <2>2. CASE StopRuntime
    BY <2>2 DEF TypeOK, Decided, StopRuntime, Stopped
  <2> QED
    BY <1>10, <2>1, <2>2
<1>11. CASE WriteManifest
  BY <1>11 DEF TypeOK, Decided, WriteManifest
<1>12. CASE Close
  BY <1>12 DEF TypeOK, Decided, Close
<1>13. CASE UNCHANGED vars
  BY <1>13 DEF TypeOK, Decided, vars
<1> QED
  BY <1>1, <1>2, <1>3, <1>4, <1>5, <1>6, <1>7, <1>8, <1>9, <1>10, <1>11, <1>12, <1>13, Zenon
     DEF Next, Setup, Finish

\* The ending.
LEMMA DecidedStep ==
  ASSUME TypeOK, Suspended, Decided, [Next]_vars
  PROVE  Decided'
<1> USE ControllerAssumption DEF TypeOK, Suspended, Resting, Decided, isActive, Built, Teardown, Terminal, Runs, States
<1>1. CASE Start
  BY <1>1 DEF Start
<1>2. ASSUME NEW r \in Runs, Stop(r) PROVE Decided'
  BY <1>2 DEF Stop
<1>3. CASE LlmFatal
  BY <1>3 DEF LlmFatal
<1>4. CASE WriteInputs \/ WriteConfig \/ WriteFails
  BY <1>4 DEF WriteInputs, WriteConfig, WriteFails
<1>5. CASE HealthOk \/ Build
  BY <1>5 DEF HealthOk, Build
<1>6. CASE SetupFails
  BY <1>6 DEF SetupFails, BeginTeardown
<1>7. CASE Seed
  <2>1. at = "seed"
    BY <1>7, Zenon DEF Seed
  <2>2. pulses = 0 /\ pulses' = 0
    BY <1>7, <2>1 DEF Seed
  <2>3. CASE at' = "pulse" /\ 0 < MaxPulses
    BY <2>2, <2>3
  <2>4. CASE /\ at' = "drain"
             /\ final' = "failed" <=> reason' = "error"
             /\ reason' = "completed" => MaxPulses = 0
    BY <2>2, <2>4
  <2> QED
    BY <1>7, <2>3, <2>4, SeedOutcome, Zenon
<1>8. CASE Yielded
  BY <1>8, LoopOutcome DEF Yielded
<1>9. CASE EndOffered \/ PulseSettles
  BY <1>9 DEF EndOffered, PulseSettles
<1>10. CASE Drain \/ StopRuntime
  <2>1. CASE Drain
    BY <2>1 DEF Drain
  <2>2. CASE StopRuntime
    BY <2>2 DEF StopRuntime
  <2> QED
    BY <1>10, <2>1, <2>2
<1>11. CASE WriteManifest
  BY <1>11 DEF WriteManifest
<1>12. CASE Close
  BY <1>12 DEF Close
<1>13. CASE UNCHANGED vars
  BY <1>13 DEF vars
<1> QED
  BY <1>1, <1>2, <1>3, <1>4, <1>5, <1>6, <1>7, <1>8, <1>9, <1>10, <1>11, <1>12, <1>13, Zenon
     DEF Next, Setup, Finish

LEMMA ControllerStep == IInv /\ [Next]_vars => IInv'
BY TypingStep, RestingStep, NumberedStep, FlyingStep, HousedStep, HoldingStep, StreamingStep,
   DecidedStep DEF IInv, Suspended

\* The controller's invariant.
THEOREM ControllerInvariant == Spec => []IInv
BY ControllerInit, ControllerStep, PTL DEF Spec

\* Every field keeps its type.
THEOREM ControllerTyping == Spec => []TypeOK
BY ControllerInvariant, PTL DEF IInv

\* teardown() closes the handle before the controller is free again.
THEOREM ControllerOneHandle == Spec => []OneHandle
<1>1. IInv => OneHandle
  BY DEF IInv, Suspended, Resting, Holding, OneHandle, Built, Teardown
<1> QED
  BY <1>1, ControllerInvariant, PTL

\* No pulse runs on a closed handle or in a runtime that teardown() has stopped:
\* run() enters teardown() only from outside the await of a pulse.  A simulation
\* stopped under a pulse has been stopped by that pulse's own ending offer.
THEOREM ControllerPulseHasItsRoom == Spec => []PulseHasItsRoom
<1>1. IInv => PulseHasItsRoom
  BY DEF IInv, Suspended, Flying, Housed, PulseHasItsRoom, Built
<1> QED
  BY <1>1, ControllerInvariant, PTL

\* The final status and the end of the stream come together.
THEOREM ControllerStreamEndsWithRun == Spec => []StreamEndsWithRun
<1>1. IInv => StreamEndsWithRun
  BY DEF IInv, Suspended, Streaming, StreamEndsWithRun, Terminal
<1> QED
  BY <1>1, ControllerInvariant, PTL

-------------------------------------------------------------------------------
\* What a run's process has written and may still write: nothing before
\* teardown()'s manifest, and from there on only what teardown() was told.
Written ==
    /\ \A r \in Runs : r > run => manifests[r] = NoManifest
    /\ run # 0 /\ at \notin {"close", "nothing"} => manifests[run] = NoManifest
    /\ run # 0 /\ at \in {"close", "nothing"} /\ manifests[run] # NoManifest =>
          manifests[run] = [state |-> final, reason |-> reason, pulses |-> pulses,
                            dirty |-> FALSE]
    /\ \A r \in Runs : manifests[r] # NoManifest =>
          /\ manifests[r].state = "failed" <=> manifests[r].reason = "error"
          /\ manifests[r].reason = "completed" => manifests[r].pulses = MaxPulses

\* The steps that lead from one await to the next before the manifest.
Advance == Setup \/ EndOffered \/ PulseSettles \/ Yielded \/ Drain \/ StopRuntime

LEMMA AdvanceWritesNothing ==
  ASSUME TypeOK, Decided, Advance
  PROVE  /\ UNCHANGED <<run, manifests>>
         /\ at \notin {"close", "nothing"} /\ at' \notin {"close", "nothing"}
<1>1. CASE Seed
  <2>1. UNCHANGED <<run, manifests>> /\ at = "seed"
    BY <1>1, Zenon DEF Seed
  <2> QED
    BY <1>1, <2>1, SeedOutcome
<1>2. CASE Yielded
  <2>1. pulses \in Nat /\ pulses <= MaxPulses
    BY DEF TypeOK, Decided
  <2>2. UNCHANGED <<run, manifests>> /\ at = "yield" /\ LoopFrom(pulses, state)
    BY <1>2, Zenon DEF Yielded
  <2>3. at' = "pulse" \/ at' = "drain"
    BY <2>1, <2>2, LoopOutcome, Zenon
  <2> QED
    BY <2>2, <2>3
<1>3. CASE WriteInputs \/ WriteConfig \/ WriteFails
  BY <1>3 DEF WriteInputs, WriteConfig, WriteFails
<1>4. CASE HealthOk \/ Build \/ SetupFails
  BY <1>4 DEF HealthOk, Build, SetupFails, BeginTeardown
<1>5. CASE EndOffered \/ PulseSettles \/ Drain \/ StopRuntime
  BY <1>5 DEF EndOffered, PulseSettles, Drain, StopRuntime
<1> QED
  BY <1>1, <1>2, <1>3, <1>4, <1>5, Zenon DEF Advance, Setup

LEMMA WrittenStep ==
  ASSUME IInv, Written, [Next]_vars
  PROVE  Written'
<1>1. CASE Start
  <2>1. run \in Nat /\ run' = run + 1 /\ run' \in Runs /\ at' = "inputs" /\ manifests' = manifests
    BY <1>1, ControllerAssumption DEF Start, IInv, TypeOK, Runs
  <2>2. \A r \in Runs : r > run' => r > run
    BY <2>1, ControllerAssumption DEF Runs
  <2>3. run' > run
    BY <2>1, SMT
  <2> QED
    BY <2>1, <2>2, <2>3, Zenon DEF Written
<1>2. CASE (\E r \in Runs : Stop(r)) \/ LlmFatal \/ UNCHANGED vars
  <2>1. UNCHANGED <<run, at, manifests, final, reason, pulses>>
    BY <1>2, Zenon DEF Stop, LlmFatal, vars
  <2> QED
    BY <2>1 DEF Written
<1>3. CASE Advance
  BY <1>3, AdvanceWritesNothing DEF IInv, Written
<1>4. CASE WriteManifest
  <2> DEFINE new == [state |-> final, reason |-> reason, pulses |-> pulses, dirty |-> FALSE]
  <2>1. /\ at = "manifest" /\ at' = "close"
        /\ UNCHANGED <<run, final, reason, pulses>>
    BY <1>4, Zenon DEF WriteManifest
  <2>2. run # 0 /\ run \in Runs /\ inFlight = FALSE
    BY <2>1, ControllerAssumption
       DEF IInv, TypeOK, Suspended, Resting, Numbered, Flying, isActive, Runs
  <2>3. manifests' = manifests \/ manifests' = [manifests EXCEPT ![run] = new]
    BY <1>4, <2>2, Zenon DEF WriteManifest
  <2>4. CASE manifests' = manifests
    BY <2>1, <2>4 DEF Written
  <2>5. CASE manifests' = [manifests EXCEPT ![run] = new]
    <3>1. manifests'[run] = new /\ \A r \in Runs : r # run => manifests'[r] = manifests[r]
      BY <2>2, <2>5 DEF IInv, TypeOK
    <3>2. /\ new.state = "failed" <=> new.reason = "error"
          /\ new.reason = "completed" => new.pulses = MaxPulses
      BY <2>1, <2>2 DEF IInv, Decided, Teardown
    <3> HIDE DEF new
    <3>3. \A r \in Runs : r > run => r # run
      BY ControllerAssumption DEF IInv, TypeOK, Runs
    <3>4. manifests'[run] = [state |-> final', reason |-> reason', pulses |-> pulses',
                             dirty |-> FALSE]
      BY <3>1, <2>1 DEF new
    <3> QED
      BY <2>1, <2>2, <3>1, <3>2, <3>3, <3>4, Zenon DEF Written
  <2> QED
    BY <2>3, <2>4, <2>5
<1>5. CASE Close
  <2>1. /\ at = "close" /\ at' = "nothing"
        /\ UNCHANGED <<run, manifests, final, reason, pulses>>
    BY <1>5, Zenon DEF Close
  <2> QED
    BY <2>1 DEF Written
<1> QED
  BY <1>1, <1>2, <1>3, <1>4, <1>5, Zenon DEF Next, Advance, Finish

\* What a run leaves on disk agrees with how it ended, although it is written
\* before the state is final and from fields the next run will reuse.
THEOREM ControllerManifestTellsTheRun == Spec => []ManifestTellsTheRun
<1>1. Init => Written
  BY DEF Init, Written, Runs
<1>2. IInv /\ Written => ManifestTellsTheRun
  <2> SUFFICES ASSUME IInv, Written, NEW r \in Runs, manifests[r] # NoManifest
               PROVE  /\ manifests[r].reason = "completed" => manifests[r].pulses = MaxPulses
                      /\ manifests[r].state = "failed" <=> manifests[r].reason = "error"
                      /\ r = run /\ ~isActive =>
                            manifests[r] = [state |-> state, reason |-> reason,
                                            pulses |-> pulses, dirty |-> FALSE]
    BY Zenon DEF ManifestTellsTheRun
  <2>1. ASSUME r = run, ~isActive PROVE run # 0 /\ at = "nothing" /\ state = final
    BY <2>1 DEF IInv, Suspended, Resting, Decided, Runs
  <2> QED
    BY <2>1 DEF Written
<1> QED
  BY <1>1, <1>2, WrittenStep, ControllerInvariant, PTL DEF Spec

\* Once the signal is aborted, by a stop or by the health verdict, and however
\* far the run has got, no pulse begins until the next run is accepted.
THEOREM ControllerNoPulseAfterAbort == Spec => NoPulseAfterAbort
<1>1. ASSUME IInv, [Next]_vars, aborted, ~inFlight
      PROVE  ~inFlight'
  <2>1. CASE Seed
    BY <1>1, <2>1 DEF Seed, LoopFrom, BeginPulse, BeginTeardown, IInv, TypeOK
  <2>2. CASE Yielded
    BY <1>1, <2>2 DEF Yielded, LoopFrom, BeginPulse, BeginTeardown, IInv, TypeOK
  <2>3. CASE ~Seed /\ ~Yielded
    BY <1>1, <2>3, Zenon DEF Next, Start, Stop, LlmFatal, Setup, WriteInputs, WriteConfig,
       WriteFails, HealthOk, Build, SetupFails, BeginTeardown, EndOffered, PulseSettles, Finish, Drain,
       StopRuntime, WriteManifest, Close, vars
  <2> QED
    BY <2>1, <2>2, <2>3
<1> QED
  BY <1>1, ControllerInvariant, PTL DEF Spec, NoPulseAfterAbort

-------------------------------------------------------------------------------
\* Accepting a run is refused while one is active; only Close, and only of an
\* active run, reaches a terminal state; no other step moves the verdict.
LEMMA ControllerStepKeepsContract ==
  ASSUME IInv, [Next]_vars
  PROVE  [Contract!ContractNext]_(Contract!contractVars)
<1>0. IInv'
  BY ControllerStep
<1>1. /\ at = "nothing" <=> ~isActive
      /\ state = "idle" <=> run = 0
      /\ state' = "idle" <=> run' = 0
      /\ final \in {"done", "failed"}
      /\ run \in Nat
  BY <1>0, ControllerAssumption DEF IInv, TypeOK, Suspended, Resting, Numbered
<1> DEFINE Still == run' = run /\ (isActive <=> isActive') /\ (isActive \/ state' = state)
<1>2. CASE Start
  <2>1. run' = run + 1 /\ ~isActive /\ isActive'
    BY <1>2 DEF Start, isActive
  <2> QED
    BY <1>1, <2>1 DEF Contract!ContractNext, Contract!Accept, isActive
<1>3. CASE Close
  <2>1. run' = run /\ isActive /\ state' = final /\ ~isActive'
    BY <1>1, <1>3 DEF Close, isActive
  <2> QED
    BY <1>1, <2>1 DEF Contract!ContractNext, Contract!End, isActive
<1>4. ASSUME ~Start, ~Close PROVE Still
  <2>1. ASSUME NEW r \in Runs, Stop(r) PROVE Still
    BY <2>1 DEF Stop, isActive
  <2>2. CASE UNCHANGED vars \/ LlmFatal \/ EndOffered \/ PulseSettles \/ Drain \/ StopRuntime \/ WriteManifest
    BY <2>2 DEF vars, LlmFatal, EndOffered, PulseSettles, Drain, StopRuntime, WriteManifest, isActive
  <2>3. CASE WriteInputs \/ WriteFails \/ Build
    BY <2>3 DEF WriteInputs, WriteFails, Build, isActive
  <2>4. CASE WriteConfig \/ HealthOk \/ SetupFails
    BY <1>1, <2>4 DEF WriteConfig, HealthOk, SetupFails, BeginTeardown, isActive
  <2>5. CASE Seed
    BY <1>1, <2>5, SeedOutcome DEF Seed, isActive, IInv
  <2>6. CASE Yielded
    <3>1. pulses \in Nat /\ pulses <= MaxPulses /\ at = "yield" /\ LoopFrom(pulses, state)
      BY <2>6 DEF IInv, TypeOK, Decided, Yielded
    <3>2. state' = state \/ state' = "stopping"
      BY <3>1, LoopOutcome DEF IInv
    <3> QED
      BY <1>1, <3>1, <3>2, <2>6 DEF Yielded, isActive
  <2> QED
    BY <1>4, <2>1, <2>2, <2>3, <2>4, <2>5, <2>6, Zenon DEF Next, Setup, Finish
<1>5. Still => UNCHANGED (Contract!contractVars)
  BY <1>1 DEF Contract!contractVars, isActive
<1> QED
  BY <1>2, <1>3, <1>4, <1>5

\* The controller implements RunContract: one run at a time, each ending once.
THEOREM ControllerImplementsContract == Spec => RunsKeepContract
<1>1. Init => Contract!ContractInit
  BY DEF Init, Contract!ContractInit
<1> QED
  BY <1>1, ControllerStepKeepsContract, ControllerInvariant, PTL
     DEF Spec, RunsKeepContract, Contract!ContractSpec

-------------------------------------------------------------------------------
(***************************************************************************)
(* The live view of the run (LiveStream), for any number of pulses, any    *)
(* history, and a connection that breaks as often as it likes.             *)
(*                                                                         *)
(* A revision is announced by the gateway and is then on its way along     *)
(* three places: the retained history, the connection, the page.  The      *)
(* invariant says of each what it owes to `announced`.                     *)
(***************************************************************************)

\* In a history or on a connection: the pulse's frame, its newest frame; a
\* message of a type.
Holds(q, p) == \E i \in DOMAIN q : q[i].type = "pulse" /\ q[i].pulse = p
HasNewest(q, p, latest) ==
    \E i \in DOMAIN q : q[i].type = "pulse" /\ q[i].pulse = p /\ q[i].frame = latest[p]
Carries(q, type) == \E i \in DOMAIN q : q[i].type = type

\* Nothing in the history is out of date, no pulse is in it twice, and nothing
\* follows `stopped`, which a run that is over sends.
Newest(q, latest) ==
    \A i \in DOMAIN q : q[i].type = "pulse" =>
        q[i].frame = latest[q[i].pulse] /\ q[i].frame.revision # 0
OncePerPulse(q) ==
    \A i, j \in DOMAIN q :
        q[i].type = "pulse" /\ q[j].type = "pulse" /\ q[i].pulse = q[j].pulse => i = j
StoppedIsLast(q, over) == \A i \in DOMAIN q : q[i].type = "stopped" => i = Len(q) /\ over

Current(q, latest, over) ==
    q \in Seq(Messages) /\ Newest(q, latest) /\ OncePerPulse(q) /\ StoppedIsLast(q, over)

Published(latest, p) == latest[p].revision # 0

\* The history has every pulse, or admits that one has left.
HubInv(h, latest, over) ==
    /\ Current(h.backlog, latest, over)
    /\ \A p \in Pulses : Published(latest, p) => h.hello /\ (Holds(h.backlog, p) \/ h.truncated)

\* What is on its way to the page: written, or still queued.
Flow == wire \o queue

\* Revisions of a pulse follow one another, none older than what the page shows
\* and none newer than what is announced; a revision is published once.
AtMost(f, g) ==
    f.items <= g.items /\ f.revision <= g.revision /\ (f.revision = g.revision => f = g)

InOrder(q, shown, latest) ==
    /\ \A i \in DOMAIN q : q[i].type = "pulse" =>
          /\ q[i].frame.revision # 0
          /\ AtMost(shown[q[i].pulse], q[i].frame)
          /\ AtMost(q[i].frame, latest[q[i].pulse])
    /\ \A i, j \in DOMAIN q :
          i < j /\ q[i].type = "pulse" /\ q[j].type = "pulse" /\ q[i].pulse = q[j].pulse
              => AtMost(q[i].frame, q[j].frame)

\* An open connection owes the page hello before any pulse, and of each pulse
\* the newest frame that it does not show yet, or the notice that it has expired.
HelloLeads(q, v) ==
    \A i \in DOMAIN q : q[i].type = "pulse" => v.hello \/ \E j \in 1 .. i - 1 : q[j].type = "hello"

Due(h, q, v, latest, p) ==
    \/ HasNewest(q, p, latest)
    \/ v.pulses[p] = latest[p]
    \/ ~Holds(h.backlog, p) /\ (v.told \/ Carries(q, "truncated"))

LinkInv(h, q, v, latest, over) ==
    /\ q \in Seq(Messages) /\ InOrder(q, v.pulses, latest) /\ StoppedIsLast(q, over)
    /\ HelloLeads(q, v)
    /\ h.hello => v.hello \/ Carries(q, "hello")
    /\ \A p \in Pulses : Published(latest, p) => Due(h, q, v, latest, p)

\* The page is never ahead of what was announced.
PageInv(v, latest) == \A p \in Pulses : AtMost(v.pulses[p], latest[p])

\* The gateway announces the frame it collects, and later pulses are empty.
GatewayInv ==
    /\ announced[pulse].items <= frame.items /\ announced[pulse].revision = frame.revision
    /\ \A p \in Pulses : p > pulse => announced[p] = emptyFrame
    /\ \A p \in Pulses : ~Published(announced, p) => announced[p] = emptyFrame
    /\ phase = "building" => \A p \in Pulses : ~Published(announced, p)
    /\ phase = "running" => hub.hello

Over == phase \in {"stopped", "replaced"}

LiveInv ==
    /\ LiveTypeOK
    /\ GatewayInv
    /\ HubInv(hub, announced, Over)
    /\ link = "up" => LinkInv(hub, Flow, view, announced, Over)
    /\ PageInv(view, announced)
    /\ view.stopped => Over /\ link = "closed"
    /\ StoppedShowsAll

-------------------------------------------------------------------------------
\* Sequences of messages.
LEMMA Queue ==
  ASSUME NEW q \in Seq(Messages)
  PROVE  /\ Len(q) \in Nat
         /\ DOMAIN q = 1 .. Len(q)
         /\ \A i \in 1 .. Len(q) : q[i] \in Messages
  BY SMT

LEMMA QueueAppend ==
  ASSUME NEW q \in Seq(Messages), NEW m \in Messages
  PROVE  /\ Append(q, m) \in Seq(Messages)
         /\ Len(Append(q, m)) = Len(q) + 1
         /\ \A i \in 1 .. Len(q) : Append(q, m)[i] = q[i]
         /\ Append(q, m)[Len(q) + 1] = m
  BY SMT

LEMMA QueueTail ==
  ASSUME NEW q \in Seq(Messages), q # <<>>
  PROVE  /\ Tail(q) \in Seq(Messages)
         /\ Len(Tail(q)) = Len(q) - 1
         /\ \A i \in 1 .. Len(q) - 1 : Tail(q)[i] = q[i + 1]
         /\ Head(q) = q[1]
         /\ 1 \in 1 .. Len(q)
  BY SMT

LEMMA QueuePart ==
  ASSUME NEW q \in Seq(Messages), NEW a \in 1 .. Len(q) + 1, NEW b \in 0 .. Len(q)
  PROVE  /\ SubSeq(q, a, b) \in Seq(Messages)
         /\ Len(SubSeq(q, a, b)) = IF a <= b THEN b - a + 1 ELSE 0
         /\ \A i \in 1 .. b - a + 1 : SubSeq(q, a, b)[i] = q[a + i - 1]
  BY SMT

LEMMA QueueJoin ==
  ASSUME NEW a \in Seq(Messages), NEW b \in Seq(Messages)
  PROVE  /\ a \o b \in Seq(Messages)
         /\ Len(a \o b) = Len(a) + Len(b)
         /\ \A i \in 1 .. Len(a) : (a \o b)[i] = a[i]
         /\ \A i \in 1 .. Len(a) + Len(b) : i > Len(a) =>
              i - Len(a) \in 1 .. Len(b) /\ (a \o b)[i] = b[i - Len(a)]
  BY SMT

LEMMA QueueWithout ==
  ASSUME NEW q \in Seq(Messages), NEW k \in 1 .. Len(q)
  PROVE  /\ RemoveAt(q, k) \in Seq(Messages)
         /\ Len(RemoveAt(q, k)) = Len(q) - 1
         /\ \A i \in 1 .. Len(q) - 1 : RemoveAt(q, k)[i] = q[IF i < k THEN i ELSE i + 1]
<1> DEFINE a == SubSeq(q, 1, k - 1)
           b == SubSeq(q, k + 1, Len(q))
<1>1. Len(q) \in Nat
  OBVIOUS
<1>2. 1 \in 1 .. Len(q) + 1 /\ k - 1 \in 0 .. Len(q) /\ k + 1 \in 1 .. Len(q) + 1 /\ Len(q) \in 0 .. Len(q)
  BY <1>1
<1>3. a \in Seq(Messages) /\ Len(a) = k - 1 /\ \A i \in 1 .. k - 1 : a[i] = q[i]
  <2>1. Len(a) = IF 1 <= k - 1 THEN (k - 1) - 1 + 1 ELSE 0
    BY <1>2, QueuePart
  <2>2. \A i \in 1 .. (k - 1) - 1 + 1 : a[i] = q[1 + i - 1]
    BY <1>2, QueuePart
  <2>3. \A i \in 1 .. k - 1 : i \in 1 .. (k - 1) - 1 + 1 /\ 1 + i - 1 = i
    BY SMT
  <2>4. a \in Seq(Messages)
    BY <1>2, QueuePart
  <2>5. Len(a) = k - 1
    BY <2>1, <1>1, SMT
  <2> QED
    BY <2>2, <2>3, <2>4, <2>5
<1>4. b \in Seq(Messages) /\ Len(b) = Len(q) - k /\ \A i \in 1 .. Len(q) - k : b[i] = q[k + i]
  <2>1. Len(b) = IF k + 1 <= Len(q) THEN Len(q) - (k + 1) + 1 ELSE 0
    BY <1>2, QueuePart
  <2>2. \A i \in 1 .. Len(q) - (k + 1) + 1 : b[i] = q[k + 1 + i - 1]
    BY <1>2, QueuePart
  <2>3. \A i \in 1 .. Len(q) - k : i \in 1 .. Len(q) - (k + 1) + 1 /\ k + 1 + i - 1 = k + i
    BY <1>1, SMT
  <2>4. b \in Seq(Messages)
    BY <1>2, QueuePart
  <2>5. Len(b) = Len(q) - k
    BY <2>1, <1>1, SMT
  <2> QED
    BY <2>2, <2>3, <2>4, <2>5
<1>5. RemoveAt(q, k) = a \o b
  BY DEF RemoveAt
<1> HIDE DEF a, b
<1>6. a \o b \in Seq(Messages) /\ Len(a \o b) = Len(q) - 1
  <2>1. a \o b \in Seq(Messages) /\ Len(a \o b) = Len(a) + Len(b)
    BY <1>3, <1>4, QueueJoin
  <2> QED
    BY <2>1, <1>1, <1>3, <1>4, SMT
<1>7. ASSUME NEW i \in 1 .. Len(q) - 1
      PROVE  (a \o b)[i] = q[IF i < k THEN i ELSE i + 1]
  <2>1. CASE i < k
    <3>1. i \in 1 .. Len(a) /\ i \in 1 .. k - 1
      BY <1>1, <1>3, <1>7, <2>1, SMT
    <3>2. (a \o b)[i] = a[i]
      BY <3>1, <1>3, <1>4, QueueJoin
    <3> QED
      BY <2>1, <3>1, <3>2, <1>3
  <2>2. CASE ~(i < k)
    <3>1. i \in 1 .. Len(a) + Len(b) /\ i > Len(a) /\ i - Len(a) = i - k + 1 /\ i - k + 1 \in 1 .. Len(q) - k
      BY <1>1, <1>3, <1>4, <1>7, <2>2, SMT
    <3>2. (a \o b)[i] = b[i - k + 1]
      BY <3>1, <1>3, <1>4, QueueJoin
    <3>3. b[i - k + 1] = q[k + (i - k + 1)]
      BY <3>1, <1>4
    <3>4. k + (i - k + 1) = i + 1
      BY <1>7, SMT
    <3> QED
      BY <2>2, <3>2, <3>3, <3>4
  <2> QED
    BY <2>1, <2>2
<1> QED
  BY <1>5, <1>6, <1>7

\* r is q thinned: each of its messages comes from its own place in q, in the
\* order of q.
Thinned(r, q, from) ==
    /\ r \in Seq(Messages)
    /\ from \in [1 .. Len(r) -> 1 .. Len(q)]
    /\ \A i \in 1 .. Len(r) : r[i] = q[from[i]]
    /\ \A i, j \in 1 .. Len(r) : i < j => from[i] < from[j]

LEMMA TailThins ==
  ASSUME NEW q \in Seq(Messages), q # <<>>
  PROVE  \E from : /\ Thinned(Tail(q), q, from)
                   /\ \A k \in 1 .. Len(q) : k # 1 => \E i \in 1 .. Len(q) - 1 : from[i] = k
<1> DEFINE n == Len(q) - 1
           from == [i \in 1 .. n |-> i + 1]
<1>1. /\ Tail(q) \in Seq(Messages) /\ Len(Tail(q)) = n /\ Len(q) \in Nat /\ n \in Nat
      /\ \A i \in 1 .. n : Tail(q)[i] = q[i + 1]
  BY QueueTail, Queue, SMT
<1>2. from \in [1 .. n -> 1 .. Len(q)] /\ \A i \in 1 .. n : from[i] = i + 1
  BY <1>1, SMT
<1>3. \A i, j \in 1 .. n : i < j => from[i] < from[j]
  BY <1>1, <1>2, SMT
<1>4. \A k \in 1 .. Len(q) : k # 1 => k - 1 \in 1 .. n /\ (k - 1) + 1 = k
  BY <1>1, SMT
<1> HIDE DEF from, n
<1>5. Thinned(Tail(q), q, from)
  BY <1>1, <1>2, <1>3 DEF Thinned
<1>6. \A k \in 1 .. Len(q) : k # 1 => from[k - 1] = k /\ k - 1 \in 1 .. n
  BY <1>2, <1>4
<1> QED
  BY <1>5, <1>6 DEF n

LEMMA WithoutThins ==
  ASSUME NEW q \in Seq(Messages), NEW k \in 1 .. Len(q)
  PROVE  \E from : /\ Thinned(RemoveAt(q, k), q, from)
                   /\ \A j \in 1 .. Len(q) : j # k =>
                        \E i \in 1 .. Len(RemoveAt(q, k)) : from[i] = j
                   /\ \A i \in 1 .. Len(RemoveAt(q, k)) : from[i] # k
<1> DEFINE n == Len(q) - 1
           r == RemoveAt(q, k)
           from == [i \in 1 .. n |-> IF i < k THEN i ELSE i + 1]
<1>1. /\ r \in Seq(Messages) /\ Len(r) = n /\ Len(q) \in Nat /\ n \in Nat
      /\ \A i \in 1 .. n : r[i] = q[IF i < k THEN i ELSE i + 1]
  <2>1. Len(q) \in Nat /\ n \in Nat
    BY Queue, SMT
  <2> QED
    BY <2>1, QueueWithout
<1> HIDE DEF r
<1>2. \A i \in 1 .. n : from[i] = IF i < k THEN i ELSE i + 1
  OBVIOUS
<1>3. from \in [1 .. n -> 1 .. Len(q)]
  <2>1. \A i \in 1 .. n : (IF i < k THEN i ELSE i + 1) \in 1 .. Len(q)
    BY <1>1, SMT
  <2> QED
    BY <2>1
<1>4. \A i, j \in 1 .. n : i < j => (IF i < k THEN i ELSE i + 1) < (IF j < k THEN j ELSE j + 1)
  BY <1>1, SMT
<1>5. \A i \in 1 .. n : (IF i < k THEN i ELSE i + 1) # k
  BY <1>1, SMT
<1> HIDE DEF from
<1>6. Thinned(r, q, from)
  <2>1. \A i \in 1 .. n : r[i] = q[from[i]]
    BY <1>1, <1>2
  <2>2. \A i, j \in 1 .. n : i < j => from[i] < from[j]
    BY <1>2, <1>4
  <2> QED
    BY <1>1, <1>3, <2>1, <2>2 DEF Thinned
<1>7. ASSUME NEW j \in 1 .. Len(q), j # k PROVE \E i \in 1 .. n : from[i] = j
  <2>1. CASE j < k
    <3>1. j \in 1 .. n
      BY <2>1, <1>1, SMT
    <3> QED
      BY <2>1, <3>1, <1>2
  <2>2. CASE ~(j < k)
    <3>1. j - 1 \in 1 .. n /\ ~(j - 1 < k) /\ (j - 1) + 1 = j
      BY <2>2, <1>1, <1>7, SMT
    <3> QED
      BY <3>1, <1>2
  <2> QED
    BY <2>1, <2>2
<1> HIDE DEF n
<1>8. \A i \in 1 .. n : from[i] # k
  BY <1>2, <1>5
<1> QED
  BY <1>1, <1>6, <1>7, <1>8 DEF r

LEMMA LeastPlace ==
  ASSUME NEW n \in Nat, NEW I \in SUBSET (1 .. n), I # {}
  PROVE  Min(I) \in I
<1>1. I \subseteq Nat
  BY SMT
<1>2. PICK k \in I : \A i \in I : <<i, k>> \notin OpToRel(<, Nat)
  BY <1>1, WFMin, NatLessThanWellFounded, Zenon
<1>3. \A i \in I : ~(i < k)
  BY <1>1, <1>2 DEF OpToRel
<1>4. \A i \in I : k <= i
  BY <1>1, <1>3, SMT
<1> QED
  BY <1>4 DEF Min

\* A queue without what a newer revision m replaces.
Unreplaced(q, m) == RemoveFirstMatch(q, LAMBDA x : Replaces(m, x))

LEMMA ReplacedThins ==
  ASSUME NEW q \in Seq(Messages), NEW m \in Messages
  PROVE  \E from : /\ Thinned(Unreplaced(q, m), q, from)
                   /\ Len(Unreplaced(q, m)) <= Len(q)
                   /\ \A k \in 1 .. Len(q) : Replaces(m, q[k])
                        \/ \E i \in 1 .. Len(Unreplaced(q, m)) : from[i] = k
                   /\ OncePerPulse(q) /\ m.type = "pulse" => ~Holds(Unreplaced(q, m), m.pulse)
<1>0. Len(q) \in Nat /\ DOMAIN q = 1 .. Len(q)
  BY Queue
<1>1. CASE \E i \in 1 .. Len(q) : Replaces(m, q[i])
  <2> DEFINE I == {i \in 1 .. Len(q) : Replaces(m, q[i])}
             k == Min(I)
             r == RemoveAt(q, k)
  <2>1. Min(I) \in I
    <3>1. I \in SUBSET (1 .. Len(q)) /\ I # {}
      BY <1>1
    <3> QED
      BY <1>0, <3>1, LeastPlace
  <2>2. SelectInSeq(q, LAMBDA x : Replaces(m, x)) = k
    BY <1>1 DEF SelectInSeq
  <2>3. Unreplaced(q, m) = r
    BY <1>1, <2>2 DEF RemoveFirstMatch, Unreplaced
  <2>4. k \in 1 .. Len(q) /\ Replaces(m, q[k])
    BY <2>1
  <2> HIDE DEF I, k
  <2>5. PICK from : /\ Thinned(r, q, from)
                    /\ \A j \in 1 .. Len(q) : j # k => \E i \in 1 .. Len(r) : from[i] = j
                    /\ \A i \in 1 .. Len(r) : from[i] # k
    BY <2>4, WithoutThins
  <2>6. Len(r) <= Len(q)
    <3>1. Len(r) = Len(q) - 1
      BY <2>4, QueueWithout
    <3> HIDE DEF r
    <3> QED
      BY <1>0, <3>1, SMT
  <2> HIDE DEF r
  <2>7. ASSUME OncePerPulse(q), m.type = "pulse" PROVE ~Holds(r, m.pulse)
    <3> SUFFICES ASSUME NEW i \in DOMAIN r, r[i].type = "pulse", r[i].pulse = m.pulse
                 PROVE  FALSE
      BY DEF Holds
    <3>1. i \in 1 .. Len(r) /\ from[i] \in 1 .. Len(q) /\ r[i] = q[from[i]]
      BY <2>5, Queue DEF Thinned
    <3>2. q[k].type = "pulse" /\ q[k].pulse = m.pulse
      BY <2>4, <2>7 DEF Replaces
    <3>3. from[i] = k
      BY <1>0, <2>4, <2>7, <3>1, <3>2 DEF OncePerPulse
    <3> QED
      BY <2>5, <3>1, <3>3
  <2>8. \A j \in 1 .. Len(q) : Replaces(m, q[j]) \/ \E i \in 1 .. Len(r) : from[i] = j
    BY <2>4, <2>5
  <2> QED
    BY <2>3, <2>5, <2>7, <2>8, <2>6
<1>2. CASE ~ \E i \in 1 .. Len(q) : Replaces(m, q[i])
  <2> DEFINE from == [i \in 1 .. Len(q) |-> i]
  <2>1. Unreplaced(q, m) = q
    BY <1>2 DEF RemoveFirstMatch, Unreplaced
  <2>2. from \in [1 .. Len(q) -> 1 .. Len(q)] /\ \A i \in 1 .. Len(q) : from[i] = i
    OBVIOUS
  <2> HIDE DEF from
  <2>3. Thinned(q, q, from)
    BY <2>2 DEF Thinned
  <2>4. m.type = "pulse" => ~Holds(q, m.pulse)
    BY <1>0, <1>2 DEF Holds, Replaces
  <2>5. Len(q) <= Len(q)
    BY <1>0, SMT
  <2> QED
    BY <2>1, <2>2, <2>3, <2>4, <2>5
<1> QED
  BY <1>1, <1>2

LEMMA AddedIs ==
  ASSUME NEW q, NEW m
  PROVE  Added(q, m) = Append(Unreplaced(q, m), m)
  BY DEF Added, Unreplaced

\* What thinning keeps.
LEMMA ThinnedCurrent ==
  ASSUME NEW q, NEW r, NEW from, NEW latest, NEW over \in BOOLEAN,
         Current(q, latest, over), Thinned(r, q, from)
  PROVE  Current(r, latest, over)
<1>1. q \in Seq(Messages) /\ r \in Seq(Messages)
  BY DEF Current, Thinned
<1>2. Len(q) \in Nat /\ Len(r) \in Nat /\ DOMAIN q = 1 .. Len(q) /\ DOMAIN r = 1 .. Len(r)
  BY <1>1, Queue
<1>3. /\ \A i \in 1 .. Len(r) : from[i] \in 1 .. Len(q) /\ r[i] = q[from[i]]
      /\ \A i, j \in 1 .. Len(r) : i < j => from[i] < from[j]
  BY DEF Thinned
<1>4. Newest(r, latest)
  BY <1>2, <1>3 DEF Current, Newest
<1>5. OncePerPulse(r)
  <2> SUFFICES ASSUME NEW i \in 1 .. Len(r), NEW j \in 1 .. Len(r),
                      r[i].type = "pulse", r[j].type = "pulse", r[i].pulse = r[j].pulse
               PROVE  i = j
    BY <1>2 DEF OncePerPulse
  <2>1. from[i] = from[j]
    BY <1>2, <1>3 DEF Current, OncePerPulse
  <2>2. ~(i < j) /\ ~(j < i)
    BY <1>2, <1>3, <2>1, SMT
  <2> QED
    BY <1>2, <2>2, SMT
<1>6. StoppedIsLast(r, over)
  <2> SUFFICES ASSUME NEW i \in 1 .. Len(r), r[i].type = "stopped"
               PROVE  i = Len(r) /\ over
    BY <1>2 DEF StoppedIsLast
  <2>1. from[i] = Len(q) /\ over
    BY <1>2, <1>3 DEF Current, StoppedIsLast
  <2>2. Len(r) \in 1 .. Len(r)
    BY <1>2, SMT
  <2>3. ~(i < Len(r))
    BY <1>2, <1>3, <2>1, <2>2, SMT
  <2>4. \A n \in Nat : \A x \in 1 .. n : x < n \/ x = n
    BY SMT
  <2> QED
    BY <1>2, <2>1, <2>3, <2>4, Zenon
<1> QED
  BY <1>1, <1>4, <1>5, <1>6 DEF Current

\* The history and the connection are sent the same messages: m is one the
\* gateway may publish when what it has announced goes from latest to new.
Publishable(m, latest, new, over) ==
    /\ m \in Messages
    /\ {latest, new} \subseteq [Pulses -> Frame]
    /\ \A p \in Pulses : AtMost(latest[p], new[p])
    /\ \A p \in Pulses : new[p] # latest[p] => m.type = "pulse" /\ m.pulse = p
    /\ m.type = "pulse" => m.frame = new[m.pulse] /\ m.frame.revision # 0
    /\ m.type = "stopped" => over

LEMMA NotYetStopped ==
  ASSUME NEW q, NEW latest, NEW new, NEW over \in BOOLEAN,
         Current(q, latest, FALSE), \A p \in Pulses : new[p] = latest[p]
  PROVE  Current(q, new, over)
<1>1. q \in Seq(Messages) /\ DOMAIN q = 1 .. Len(q) /\ \A i \in 1 .. Len(q) : q[i] \in Messages
  BY Queue DEF Current
<1>2. \A i \in DOMAIN q : q[i].pulse \in Pulses
  BY <1>1 DEF Messages
<1> QED
  BY <1>1, <1>2 DEF Current, Newest, StoppedIsLast

LEMMA AddedCurrent ==
  ASSUME NEW q, NEW m, NEW latest, NEW new, NEW over \in BOOLEAN,
         Current(q, latest, FALSE), Publishable(m, latest, new, over)
  PROVE  Current(Added(q, m), new, over)
<1> DEFINE r == Unreplaced(q, m)
           a == Append(r, m)
           n == Len(r)
<1>0. q \in Seq(Messages) /\ m \in Messages
  BY DEF Current, Publishable
<1>1. PICK from : Thinned(r, q, from) /\ (OncePerPulse(q) /\ m.type = "pulse" => ~Holds(r, m.pulse))
  BY <1>0, ReplacedThins
<1>2. Current(r, latest, FALSE) /\ (m.type = "pulse" => ~Holds(r, m.pulse))
  BY <1>1, ThinnedCurrent DEF Current
<1> HIDE DEF r
<1>3. r \in Seq(Messages) /\ n \in Nat /\ DOMAIN r = 1 .. n /\ \A i \in 1 .. n : r[i] \in Messages
  BY <1>2, Queue DEF Current
<1>4. a \in Seq(Messages) /\ Len(a) = n + 1 /\ (\A i \in 1 .. n : a[i] = r[i]) /\ a[n + 1] = m
  BY <1>0, <1>3, QueueAppend
<1>5. DOMAIN a = 1 .. n + 1
  BY <1>4, Queue
<1> HIDE DEF a, n
<1>6. \A i \in 1 .. n + 1 : i \in 1 .. n \/ i = n + 1
  BY <1>3, SMT
<1>7. ASSUME NEW i \in 1 .. n, r[i].type = "pulse"
      PROVE  r[i].frame = new[r[i].pulse] /\ r[i].frame.revision # 0
  <2>1. r[i].frame = latest[r[i].pulse] /\ r[i].frame.revision # 0
    BY <1>2, <1>3, <1>7 DEF Current, Newest
  <2>2. r[i].pulse \in Pulses
    BY <1>3 DEF Messages
  <2>3. ~(m.type = "pulse" /\ m.pulse = r[i].pulse)
    BY <1>2, <1>3, <1>7 DEF Holds
  <2>4. new[r[i].pulse] = latest[r[i].pulse]
    BY <2>2, <2>3 DEF Publishable
  <2> QED
    BY <2>1, <2>4
<1>8. Newest(a, new)
  <2> SUFFICES ASSUME NEW i \in 1 .. n + 1, a[i].type = "pulse"
               PROVE  a[i].frame = new[a[i].pulse] /\ a[i].frame.revision # 0
    BY <1>5 DEF Newest
  <2>1. CASE i \in 1 .. n
    BY <1>4, <1>7, <2>1
  <2>2. CASE i = n + 1
    BY <1>4, <2>2 DEF Publishable
  <2> QED
    BY <1>6, <2>1, <2>2
<1>9. OncePerPulse(a)
  <2> SUFFICES ASSUME NEW i \in 1 .. n + 1, NEW j \in 1 .. n + 1,
                      a[i].type = "pulse", a[j].type = "pulse", a[i].pulse = a[j].pulse
               PROVE  i = j
    BY <1>5 DEF OncePerPulse
  <2>1. CASE i \in 1 .. n /\ j \in 1 .. n
    BY <1>2, <1>3, <1>4, <2>1 DEF Current, OncePerPulse
  <2>2. CASE i = n + 1 /\ j \in 1 .. n
    BY <1>2, <1>3, <1>4, <2>2 DEF Holds
  <2>3. CASE i \in 1 .. n /\ j = n + 1
    BY <1>2, <1>3, <1>4, <2>3 DEF Holds
  <2> QED
    BY <1>6, <2>1, <2>2, <2>3
<1>10. StoppedIsLast(a, over)
  <2> SUFFICES ASSUME NEW i \in 1 .. n + 1, a[i].type = "stopped"
               PROVE  i = Len(a) /\ over
    BY <1>5 DEF StoppedIsLast
  <2>1. CASE i \in 1 .. n
    BY <1>2, <1>3, <1>4, <2>1 DEF Current, StoppedIsLast
  <2>2. CASE i = n + 1
    BY <1>4, <2>2 DEF Publishable
  <2> QED
    BY <1>6, <2>1, <2>2
<1>11. Current(a, new, over)
  BY <1>4, <1>8, <1>9, <1>10 DEF Current
<1> QED
  BY <1>11, AddedIs DEF a, r

\* What a new message does not take away: only a newer revision replaces a
\* frame, and nothing replaces hello or the notice.
LEMMA AddedHolds ==
  ASSUME NEW q \in Seq(Messages), NEW m \in Messages, NEW p
  PROVE  Holds(Added(q, m), p) <=> Holds(q, p) \/ (m.type = "pulse" /\ m.pulse = p)
<1> DEFINE r == Unreplaced(q, m)
           a == Append(r, m)
           n == Len(r)
<1>1. PICK from : /\ Thinned(r, q, from)
                  /\ \A k \in 1 .. Len(q) : Replaces(m, q[k]) \/ \E i \in 1 .. n : from[i] = k
  BY ReplacedThins
<1> HIDE DEF r
<1>2. r \in Seq(Messages) /\ n \in Nat /\ DOMAIN r = 1 .. n /\ DOMAIN q = 1 .. Len(q)
  BY <1>1, Queue DEF Thinned
<1>3. a \in Seq(Messages) /\ Len(a) = n + 1 /\ (\A i \in 1 .. n : a[i] = r[i]) /\ a[n + 1] = m
  BY <1>2, QueueAppend
<1>4. DOMAIN a = 1 .. n + 1
  BY <1>3, Queue
<1> HIDE DEF a, n
<1>5. /\ \A i \in 1 .. n + 1 : i \in 1 .. n \/ i = n + 1
      /\ \A i \in 1 .. n : i \in 1 .. n + 1
      /\ n + 1 \in 1 .. n + 1
  BY <1>2, SMT
<1>6. ASSUME Holds(a, p) PROVE Holds(q, p) \/ (m.type = "pulse" /\ m.pulse = p)
  <2>1. PICK i \in 1 .. n + 1 : a[i].type = "pulse" /\ a[i].pulse = p
    BY <1>4, <1>6 DEF Holds
  <2>2. CASE i \in 1 .. n
    <3>1. from[i] \in 1 .. Len(q) /\ r[i] = q[from[i]]
      BY <1>1, <2>2 DEF Thinned, n
    <3> QED
      BY <1>2, <1>3, <2>1, <2>2, <3>1 DEF Holds
  <2>3. CASE i = n + 1
    BY <1>3, <2>1, <2>3
  <2> QED
    BY <1>5, <2>2, <2>3
<1>7. ASSUME m.type = "pulse" /\ m.pulse = p PROVE Holds(a, p)
  BY <1>3, <1>4, <1>5, <1>7 DEF Holds
<1>8. ASSUME Holds(q, p), ~(m.type = "pulse" /\ m.pulse = p) PROVE Holds(a, p)
  <2>1. PICK k \in 1 .. Len(q) : q[k].type = "pulse" /\ q[k].pulse = p
    BY <1>2, <1>8 DEF Holds
  <2>2. ~Replaces(m, q[k])
    BY <1>8, <2>1 DEF Replaces
  <2>3. PICK i \in 1 .. n : from[i] = k
    BY <1>1, <2>2
  <2>4. a[i] = q[k] /\ i \in DOMAIN a
    BY <1>1, <1>3, <1>4, <1>5, <2>3 DEF Thinned, n
  <2> QED
    BY <2>1, <2>4 DEF Holds
<1>9. Holds(a, p) <=> Holds(q, p) \/ (m.type = "pulse" /\ m.pulse = p)
  BY <1>6, <1>7, <1>8
<1> QED
  BY <1>9, AddedIs DEF a, r

HubState == {h \in [hello : BOOLEAN, backlog : Seq(Messages), truncated : BOOLEAN] :
                Len(h.backlog) <= BacklogLimit}

\* The oldest message leaves a history that is full.
LEMMA TailLoses ==
  ASSUME NEW a \in Seq(Messages), a # <<>>, NEW p
  PROVE  /\ Holds(Tail(a), p) => Holds(a, p)
         /\ Holds(a, p) => Holds(Tail(a), p) \/ (Head(a).type = "pulse" /\ Head(a).pulse = p)
<1>1. PICK from : /\ Thinned(Tail(a), a, from)
                  /\ \A k \in 1 .. Len(a) : k # 1 => \E i \in 1 .. Len(a) - 1 : from[i] = k
  BY TailThins
<1>2. /\ Tail(a) \in Seq(Messages) /\ DOMAIN Tail(a) = 1 .. Len(Tail(a)) /\ DOMAIN a = 1 .. Len(a)
      /\ Len(Tail(a)) = Len(a) - 1 /\ Head(a) = a[1]
  BY QueueTail, Queue
<1>3. \A i \in 1 .. Len(Tail(a)) : from[i] \in 1 .. Len(a) /\ Tail(a)[i] = a[from[i]]
  BY <1>1 DEF Thinned
<1>4. Holds(Tail(a), p) => Holds(a, p)
  BY <1>2, <1>3 DEF Holds
<1>5. ASSUME NEW k \in 1 .. Len(a), a[k].type = "pulse", a[k].pulse = p, k # 1
      PROVE  Holds(Tail(a), p)
  <2>1. PICK i \in 1 .. Len(Tail(a)) : from[i] = k
    BY <1>1, <1>2, <1>5
  <2> QED
    BY <1>2, <1>3, <1>5, <2>1 DEF Holds
<1>6. Holds(a, p) => Holds(Tail(a), p) \/ (Head(a).type = "pulse" /\ Head(a).pulse = p)
  BY <1>2, <1>5 DEF Holds
<1> QED
  BY <1>4, <1>6

\* What publish() does to the history, whichever way it does it.
LEMMA RetainedIs ==
  ASSUME NEW h \in HubState, NEW m \in Messages
  PROVE  /\ Retained(h, m) \in HubState
         /\ Retained(h, m).hello = (h.hello \/ m.type = "hello")
         /\ h.truncated => Retained(h, m).truncated
         /\ \/ m.type = "hello" /\ Retained(h, m).backlog = h.backlog
            \/ m.type # "hello" /\ Retained(h, m).backlog = Added(h.backlog, m)
            \/ /\ m.type # "hello" /\ Added(h.backlog, m) # <<>>
               /\ Retained(h, m).backlog = Tail(Added(h.backlog, m))
               /\ Head(Added(h.backlog, m)).type = "pulse" => Retained(h, m).truncated
<1> DEFINE b == Added(h.backlog, m)
           H == [hello : BOOLEAN, backlog : Seq(Messages), truncated : BOOLEAN]
<1>1. h \in H /\ Len(h.backlog) <= BacklogLimit /\ h.backlog \in Seq(Messages) /\ h.truncated \in BOOLEAN
  BY DEF HubState
<1>2. BacklogLimit \in Nat \ {0}
  BY LiveAssumption
<1>3. b \in Seq(Messages) /\ Len(b) \in Nat /\ Len(b) <= Len(h.backlog) + 1 /\ b # <<>>
  <2> DEFINE r == Unreplaced(h.backlog, m)
  <2>1. \E from : Thinned(r, h.backlog, from) /\ Len(r) <= Len(h.backlog)
    BY <1>1, ReplacedThins
  <2>2. r \in Seq(Messages) /\ Len(r) \in Nat /\ Len(h.backlog) \in Nat /\ Len(r) <= Len(h.backlog)
    BY <1>1, <2>1, Queue DEF Thinned
  <2> HIDE DEF r
  <2>3. Append(r, m) \in Seq(Messages) /\ Len(Append(r, m)) = Len(r) + 1
    BY <2>2, QueueAppend
  <2>4. b = Append(r, m)
    BY AddedIs DEF r
  <2>5. Len(b) = Len(r) + 1 /\ b \in Seq(Messages)
    BY <2>3, <2>4
  <2> HIDE DEF b
  <2> QED
    BY <2>2, <2>5, SMT
<1>4. CASE m.type = "hello"
  <2>1. Retained(h, m) = [h EXCEPT !.hello = TRUE]
    BY <1>4 DEF Retained
  <2>2. /\ [h EXCEPT !.hello = TRUE] \in H
        /\ [h EXCEPT !.hello = TRUE].hello = TRUE
        /\ [h EXCEPT !.hello = TRUE].backlog = h.backlog
        /\ [h EXCEPT !.hello = TRUE].truncated = h.truncated
    BY <1>1
  <2> QED
    BY <1>1, <1>4, <2>1, <2>2 DEF HubState
<1>5. CASE m.type # "hello" /\ Len(b) <= BacklogLimit
  <2>1. Retained(h, m) = [h EXCEPT !.backlog = b]
    BY <1>5 DEF Retained
  <2> HIDE DEF b
  <2>2. /\ [h EXCEPT !.backlog = b] \in H
        /\ [h EXCEPT !.backlog = b].hello = h.hello
        /\ [h EXCEPT !.backlog = b].backlog = b
        /\ [h EXCEPT !.backlog = b].truncated = h.truncated
    BY <1>1, <1>3
  <2>3. h.hello = (h.hello \/ m.type = "hello")
    BY <1>1, <1>5
  <2>4. Retained(h, m).backlog = Added(h.backlog, m)
    BY <2>1, <2>2 DEF b
  <2> QED
    BY <1>1, <1>5, <2>1, <2>2, <2>3, <2>4 DEF HubState
<1>6. CASE m.type # "hello" /\ ~(Len(b) <= BacklogLimit)
  <2> DEFINE R == [h EXCEPT !.backlog = Tail(b), !.truncated = @ \/ Head(b).type = "pulse"]
  <2>1. Retained(h, m) = R
    BY <1>6 DEF Retained
  <2>2. Tail(b) \in Seq(Messages) /\ Len(Tail(b)) = Len(b) - 1
    BY <1>3, QueueTail
  <2> HIDE DEF b
  <2>3. Len(Tail(b)) <= BacklogLimit
    <3>1. Len(h.backlog) \in Nat
      BY <1>1, Queue
    <3> QED
      BY <1>1, <1>2, <1>3, <2>2, <3>1, SMT
  <2>4. /\ R \in H /\ R.hello = h.hello /\ R.backlog = Tail(b)
        /\ R.truncated = (h.truncated \/ Head(b).type = "pulse")
    BY <1>1, <2>2
  <2> HIDE DEF R
  <2>5. h.hello = (h.hello \/ m.type = "hello")
    BY <1>1, <1>6
  <2>6. Retained(h, m) \in HubState
    BY <2>1, <2>3, <2>4 DEF HubState
  <2>7. Retained(h, m).backlog = Tail(Added(h.backlog, m)) /\ Added(h.backlog, m) # <<>>
    BY <1>3, <2>1, <2>4 DEF b
  <2>8. /\ h.truncated => Retained(h, m).truncated
        /\ Head(Added(h.backlog, m)).type = "pulse" => Retained(h, m).truncated
    BY <2>1, <2>4 DEF b
  <2> QED
    BY <1>6, <2>1, <2>4, <2>5, <2>6, <2>7, <2>8
<1> QED
  BY <1>4, <1>5, <1>6

\* The history after publish(): current, complete or truncated.
LEMMA RetainedKeeps ==
  ASSUME NEW h \in HubState, NEW m, NEW latest, NEW new, NEW over \in BOOLEAN,
         HubInv(h, latest, FALSE), Publishable(m, latest, new, over),
         m.type = "pulse" => h.hello
  PROVE  /\ HubInv(Retained(h, m), new, over)
         /\ \A p : ~Holds(h.backlog, p) /\ ~(m.type = "pulse" /\ m.pulse = p)
                => ~Holds(Retained(h, m).backlog, p)
<1> DEFINE R == Retained(h, m)
           a == Added(h.backlog, m)
<1>0. m \in Messages /\ h.backlog \in Seq(Messages) /\ Current(h.backlog, latest, FALSE)
  BY DEF Publishable, HubInv, Current
<1>1. /\ R \in HubState
      /\ R.hello = (h.hello \/ m.type = "hello")
      /\ h.truncated => R.truncated
      /\ \/ m.type = "hello" /\ R.backlog = h.backlog
         \/ m.type # "hello" /\ R.backlog = a
         \/ m.type # "hello" /\ a # <<>> /\ R.backlog = Tail(a) /\ (Head(a).type = "pulse" => R.truncated)
  BY <1>0, RetainedIs
<1>2. Current(a, new, over) /\ a \in Seq(Messages)
  BY <1>0, AddedCurrent DEF Current
<1>3. \A p : Holds(a, p) <=> Holds(h.backlog, p) \/ (m.type = "pulse" /\ m.pulse = p)
  BY <1>0, AddedHolds
<1>4. \A p : a # <<>> =>
         /\ Holds(Tail(a), p) => Holds(a, p)
         /\ Holds(a, p) => Holds(Tail(a), p) \/ Head(a).type = "pulse"
  BY <1>2, TailLoses
<1> HIDE DEF R, a
<1>5. Current(R.backlog, new, over)
  <2>1. CASE m.type = "hello" /\ R.backlog = h.backlog
    <3>1. \A p \in Pulses : new[p] = latest[p]
      BY <2>1 DEF Publishable
    <3>2. Current(h.backlog, new, over)
      BY <1>0, <3>1, NotYetStopped
    <3> QED
      BY <2>1, <3>2
  <2>2. CASE R.backlog = a
    BY <1>2, <2>2
  <2>3. CASE a # <<>> /\ R.backlog = Tail(a)
    <3>1. PICK from : Thinned(Tail(a), a, from)
      BY <1>2, <2>3, TailThins
    <3> QED
      BY <1>2, <2>3, <3>1, ThinnedCurrent
  <2> QED
    BY <1>1, <2>1, <2>2, <2>3
<1>6. ASSUME NEW p, Holds(R.backlog, p)
      PROVE  Holds(h.backlog, p) \/ (m.type = "pulse" /\ m.pulse = p)
  <2>1. CASE R.backlog = h.backlog
    BY <1>6, <2>1
  <2>2. CASE R.backlog = a
    BY <1>3, <1>6, <2>2
  <2>3. CASE a # <<>> /\ R.backlog = Tail(a)
    BY <1>3, <1>6, <1>4, <2>3
  <2> QED
    BY <1>1, <2>1, <2>2, <2>3
<1>7. ASSUME NEW p \in Pulses, Published(new, p)
      PROVE  R.hello /\ (Holds(R.backlog, p) \/ R.truncated)
  <2>1. CASE m.type = "pulse" /\ m.pulse = p
    <3>1. Holds(a, p) /\ R.hello
      BY <1>1, <1>3, <2>1
    <3> QED
      BY <1>1, <2>1, <3>1, <1>4
  <2>2. CASE ~(m.type = "pulse" /\ m.pulse = p)
    <3>1. Published(latest, p)
      BY <1>7, <2>2 DEF Publishable, Published
    <3>2. h.hello /\ (Holds(h.backlog, p) \/ h.truncated)
      BY <3>1 DEF HubInv
    <3>3. Holds(h.backlog, p) => Holds(R.backlog, p) \/ R.truncated
      BY <1>1, <1>3, <1>4
    <3> QED
      BY <1>1, <3>2, <3>3
  <2> QED
    BY <2>1, <2>2
<1>8. HubInv(R, new, over)
  BY <1>5, <1>7 DEF HubInv
<1> QED
  BY <1>6, <1>8 DEF R

-------------------------------------------------------------------------------
\* The flow of messages to the page.
LEMMA AtMostOrders ==
  ASSUME NEW f \in Frame
  PROVE  /\ AtMost(f, f)
         /\ \A g, h \in Frame : AtMost(f, g) /\ AtMost(g, h) => AtMost(f, h)
<1>1. \A g \in Frame : g.items \in Nat /\ g.revision \in Nat
  BY LiveAssumption, SMT DEF Frame
<1>2. \A a, b, c \in Nat :
        a <= a /\ (a <= b /\ b <= c => a <= c) /\ (a <= b /\ b <= c /\ a = c => a = b)
  BY SMT
<1>3. AtMost(f, f)
  BY <1>1, <1>2 DEF AtMost
<1>4. ASSUME NEW g \in Frame, NEW h \in Frame, AtMost(f, g), AtMost(g, h)
      PROVE  AtMost(f, h)
  <2>1. f.items <= h.items /\ f.revision <= h.revision
    BY <1>1, <1>2, <1>4 DEF AtMost
  <2>2. ASSUME f.revision = h.revision PROVE f = h
    <3>1. f.revision = g.revision
      BY <1>1, <1>2, <1>4, <2>2 DEF AtMost
    <3> QED
      BY <1>4, <2>2, <3>1 DEF AtMost
  <2> QED
    BY <2>1, <2>2 DEF AtMost
<1> QED
  BY <1>3, <1>4

\* a is q with the message m behind it, less what m replaces: n messages, each
\* from its own place in q.
Placed(a, q, m, n, from) ==
    /\ n \in Nat
    /\ a \in Seq(Messages) /\ Len(a) = n + 1 /\ a[n + 1] = m
    /\ \A i \in 1 .. n : from[i] \in 1 .. Len(q) /\ a[i] = q[from[i]]
    /\ \A i, j \in 1 .. n : i < j => from[i] < from[j]
    /\ \A k \in 1 .. Len(q) : Replaces(m, q[k]) \/ \E i \in 1 .. n : from[i] = k

Follows(a, q, m) == \E n, from : Placed(a, q, m, n, from)

\* What is written stays, what is queued may be replaced.
LEMMA FlowFollows ==
  ASSUME NEW w \in Seq(Messages), NEW q \in Seq(Messages), NEW m \in Messages
  PROVE  Follows(w \o Added(q, m), w \o q, m)
<1> DEFINE r == Unreplaced(q, m)
           x == Append(r, m)
           l == Len(w)
           n == l + Len(r)
<1>1. PICK from : /\ Thinned(r, q, from)
                  /\ \A k \in 1 .. Len(q) : Replaces(m, q[k]) \/ \E i \in 1 .. Len(r) : from[i] = k
  BY ReplacedThins
<1> HIDE DEF r
<1>2. r \in Seq(Messages) /\ Len(r) \in Nat /\ Len(q) \in Nat /\ l \in Nat /\ n \in Nat
  BY <1>1, Queue, SMT DEF Thinned
<1>3. x \in Seq(Messages) /\ Len(x) = Len(r) + 1 /\ (\A i \in 1 .. Len(r) : x[i] = r[i]) /\ x[Len(r) + 1] = m
  BY <1>2, QueueAppend
<1> HIDE DEF x
<1> DEFINE a == w \o x
           b == w \o q
<1>4. /\ a \in Seq(Messages) /\ Len(a) = l + Len(x)
      /\ \A i \in 1 .. l : a[i] = w[i]
      /\ \A i \in 1 .. l + Len(x) : i > l => a[i] = x[i - l]
  BY <1>3, QueueJoin
<1>5. /\ b \in Seq(Messages) /\ Len(b) = l + Len(q)
      /\ \A i \in 1 .. l : b[i] = w[i]
      /\ \A i \in 1 .. l + Len(q) : i > l => i - l \in 1 .. Len(q) /\ b[i] = q[i - l]
  BY QueueJoin
<1>6. /\ \A i \in 1 .. Len(r) : from[i] \in 1 .. Len(q) /\ r[i] = q[from[i]]
      /\ \A i, j \in 1 .. Len(r) : i < j => from[i] < from[j]
  BY <1>1 DEF Thinned
<1> DEFINE place == [i \in 1 .. n |-> IF i <= l THEN i ELSE l + from[i - l]]
<1>7. \A i \in 1 .. n : (i <= l => place[i] = i) /\ (~(i <= l) => place[i] = l + from[i - l])
  OBVIOUS
<1> HIDE DEF a, b, place, l, n
<1>8. Len(a) = n + 1 /\ a[n + 1] = m
  <2>1. Len(a) = n + 1 /\ n + 1 \in 1 .. l + Len(x) /\ n + 1 > l /\ (n + 1) - l = Len(r) + 1
    BY <1>2, <1>3, <1>4, SMT DEF n
  <2>2. a[n + 1] = x[(n + 1) - l]
    BY <1>4, <2>1
  <2> QED
    BY <1>3, <2>1, <2>2
<1>9. ASSUME NEW i \in 1 .. n, ~(i <= l)
      PROVE  /\ i - l \in 1 .. Len(r) /\ from[i - l] \in 1 .. Len(q)
             /\ l + from[i - l] \in 1 .. Len(b) /\ l + from[i - l] > l
             /\ a[i] = b[l + from[i - l]]
  <2>1. i - l \in 1 .. Len(r) /\ i \in 1 .. l + Len(x) /\ i > l
    BY <1>2, <1>3, <1>9, SMT DEF n
  <2>2. from[i - l] \in 1 .. Len(q) /\ a[i] = q[from[i - l]]
    BY <1>3, <1>4, <1>6, <2>1
  <2>3. \A k \in 1 .. Len(q) : l + k \in 1 .. l + Len(q) /\ l + k > l /\ (l + k) - l = k
    BY <1>2, SMT
  <2>4. /\ l + from[i - l] \in 1 .. l + Len(q) /\ l + from[i - l] > l
        /\ (l + from[i - l]) - l = from[i - l]
    BY <2>2, <2>3
  <2>5. b[l + from[i - l]] = q[from[i - l]]
    BY <1>5, <2>4
  <2> QED
    BY <1>5, <2>1, <2>2, <2>4, <2>5
<1>10. ASSUME NEW i \in 1 .. n
       PROVE  place[i] \in 1 .. Len(b) /\ a[i] = b[place[i]]
  <2>1. CASE i <= l
    <3>1. i \in 1 .. l /\ i \in 1 .. Len(b)
      BY <1>2, <1>5, <2>1, SMT
    <3> QED
      BY <1>4, <1>5, <1>7, <2>1, <3>1
  <2>2. CASE ~(i <= l)
    BY <1>7, <1>9, <2>2
  <2> QED
    BY <2>1, <2>2
<1>11. ASSUME NEW i \in 1 .. n, NEW j \in 1 .. n, i < j
       PROVE  place[i] < place[j]
  <2>1. CASE i <= l /\ j <= l
    BY <1>7, <1>11, <2>1
  <2>2. CASE i <= l /\ ~(j <= l)
    <3>1. \A k \in 1 .. Len(q) : i < l + k
      BY <1>2, <2>2, SMT
    <3>2. from[j - l] \in 1 .. Len(q)
      BY <1>9, <2>2
    <3> QED
      BY <1>7, <2>2, <3>1, <3>2
  <2>3. CASE ~(i <= l) /\ ~(j <= l)
    <3>1. i - l < j - l
      BY <1>2, <1>11, SMT
    <3>2. i - l \in 1 .. Len(r) /\ j - l \in 1 .. Len(r) /\ from[i - l] \in 1 .. Len(q) /\ from[j - l] \in 1 .. Len(q)
      BY <1>9, <2>3
    <3>3. from[i - l] < from[j - l]
      BY <1>6, <3>1, <3>2
    <3>4. \A e, f \in 1 .. Len(q) : e < f => l + e < l + f
      BY <1>2, SMT
    <3>5. l + from[i - l] < l + from[j - l]
      BY <3>2, <3>3, <3>4
    <3> QED
      BY <1>7, <2>3, <3>5
  <2>4. ~(~(i <= l) /\ j <= l)
    BY <1>2, <1>11, SMT
  <2> QED
    BY <2>1, <2>2, <2>3, <2>4
<1>12. ASSUME NEW k \in 1 .. Len(b), ~Replaces(m, b[k])
       PROVE  \E i \in 1 .. n : place[i] = k
  <2>1. CASE k <= l
    <3>1. k \in 1 .. n
      BY <1>2, <2>1, SMT DEF n
    <3> QED
      BY <1>7, <2>1, <3>1
  <2>2. CASE ~(k <= l)
    <3>1. k - l \in 1 .. Len(q) /\ b[k] = q[k - l]
      <4>1. k \in 1 .. l + Len(q) /\ k > l
        BY <1>2, <1>5, <2>2, SMT
      <4> QED
        BY <1>5, <4>1
    <3>2. PICK i \in 1 .. Len(r) : from[i] = k - l
      BY <1>1, <1>12, <3>1
    <3>3. l + i \in 1 .. n /\ ~(l + i <= l) /\ (l + i) - l = i /\ l + (k - l) = k
      BY <1>2, <1>12, SMT DEF n
    <3>4. place[l + i] = l + from[(l + i) - l]
      BY <1>7, <3>3
    <3>5. place[l + i] = k
      BY <3>2, <3>3, <3>4
    <3> QED
      BY <3>3, <3>5
  <2> QED
    BY <2>1, <2>2
<1>13. Follows(a, b, m)
  <2>1. a \in Seq(Messages) /\ n \in Nat
    BY <1>2, <1>4
  <2>2. \A i \in 1 .. n : place[i] \in 1 .. Len(b) /\ a[i] = b[place[i]]
    BY <1>10
  <2>3. \A i, j \in 1 .. n : i < j => place[i] < place[j]
    BY <1>11
  <2>4. \A k \in 1 .. Len(b) : Replaces(m, b[k]) \/ \E i \in 1 .. n : place[i] = k
    BY <1>12
  <2>5. Placed(a, b, m, n, place)
    BY <1>8, <2>1, <2>2, <2>3, <2>4 DEF Placed
  <2> QED
    BY <2>5 DEF Follows
<1>14. Added(q, m) = x
  BY AddedIs DEF r, x
<1> QED
  BY <1>13, <1>14 DEF a, b

LEMMA PlacedIn ==
  ASSUME NEW q \in Seq(Messages), NEW a, NEW m, NEW n, NEW from, Placed(a, q, m, n, from)
  PROVE  /\ DOMAIN a = 1 .. n + 1 /\ DOMAIN q = 1 .. Len(q) /\ Len(q) \in Nat
         /\ \A i \in 1 .. n + 1 : i \in 1 .. n \/ i = n + 1
         /\ \A i \in 1 .. n : i \in 1 .. n + 1 /\ i # n + 1
         /\ n + 1 \in 1 .. n + 1
<1>1. n \in Nat /\ a \in Seq(Messages) /\ Len(a) = n + 1
  BY DEF Placed
<1>2. DOMAIN a = 1 .. n + 1 /\ DOMAIN q = 1 .. Len(q) /\ Len(q) \in Nat
  BY <1>1, Queue
<1>3. /\ \A i \in 1 .. n + 1 : i \in 1 .. n \/ i = n + 1
      /\ \A i \in 1 .. n : i \in 1 .. n + 1 /\ i # n + 1
      /\ n + 1 \in 1 .. n + 1
  BY <1>1, SMT
<1> QED
  BY <1>2, <1>3

\* What m does not replace has its place behind it.
LEMMA Kept ==
  ASSUME NEW q \in Seq(Messages), NEW a, NEW m, NEW n, NEW from, Placed(a, q, m, n, from),
         NEW k \in 1 .. Len(q), ~Replaces(m, q[k])
  PROVE  \E i \in 1 .. n : from[i] = k /\ a[i] = q[k] /\ i \in DOMAIN a
<1>1. PICK i \in 1 .. n : from[i] = k
  BY DEF Placed
<1>2. a[i] = q[from[i]]
  BY DEF Placed
<1>3. i \in DOMAIN a
  BY PlacedIn
<1> QED
  BY <1>1, <1>2, <1>3

LEMMA FollowsNewest ==
  ASSUME NEW q \in Seq(Messages), NEW a, NEW m, Follows(a, q, m), NEW latest, NEW new, NEW p,
         \/ m.type = "pulse" /\ m.pulse = p /\ m.frame = new[p]
         \/ ~(m.type = "pulse" /\ m.pulse = p) /\ new[p] = latest[p] /\ HasNewest(q, p, latest)
  PROVE  HasNewest(a, p, new)
<1>1. PICK n, from : Placed(a, q, m, n, from)
  BY DEF Follows
<1>2. a[n + 1] = m /\ n + 1 \in DOMAIN a /\ DOMAIN q = 1 .. Len(q)
  BY <1>1, PlacedIn DEF Placed
<1>3. CASE m.type = "pulse" /\ m.pulse = p /\ m.frame = new[p]
  BY <1>2, <1>3 DEF HasNewest
<1>4. CASE ~(m.type = "pulse" /\ m.pulse = p) /\ new[p] = latest[p] /\ HasNewest(q, p, latest)
  <2>1. PICK k \in 1 .. Len(q) : q[k].type = "pulse" /\ q[k].pulse = p /\ q[k].frame = latest[p]
    BY <1>2, <1>4 DEF HasNewest
  <2>2. ~Replaces(m, q[k])
    BY <1>4, <2>1 DEF Replaces
  <2>3. PICK i \in DOMAIN a : a[i] = q[k]
    BY <1>1, <2>2, Kept
  <2> QED
    BY <1>4, <2>1, <2>3 DEF HasNewest
<1> QED
  BY <1>3, <1>4

LEMMA FollowsCarries ==
  ASSUME NEW q \in Seq(Messages), NEW a, NEW m, Follows(a, q, m), NEW type \in {"hello", "truncated"}
  PROVE  Carries(q, type) \/ m.type = type => Carries(a, type)
<1>1. PICK n, from : Placed(a, q, m, n, from)
  BY DEF Follows
<1>2. a[n + 1] = m /\ n + 1 \in DOMAIN a /\ DOMAIN q = 1 .. Len(q)
  BY <1>1, PlacedIn DEF Placed
<1>3. ASSUME Carries(q, type) PROVE Carries(a, type)
  <2>1. PICK k \in 1 .. Len(q) : q[k].type = type
    BY <1>2, <1>3 DEF Carries
  <2>2. ~Replaces(m, q[k])
    BY <2>1 DEF Replaces
  <2>3. PICK i \in DOMAIN a : a[i] = q[k]
    BY <1>1, <2>2, Kept
  <2> QED
    BY <2>1, <2>3 DEF Carries
<1> QED
  BY <1>2, <1>3 DEF Carries

LEMMA FollowsLeads ==
  ASSUME NEW q \in Seq(Messages), NEW a, NEW m, Follows(a, q, m), NEW v,
         HelloLeads(q, v), m.type = "pulse" => v.hello \/ Carries(q, "hello")
  PROVE  HelloLeads(a, v)
<1>1. PICK n, from : Placed(a, q, m, n, from)
  BY DEF Follows
<1>2. /\ n \in Nat /\ a[n + 1] = m
      /\ \A i \in 1 .. n : from[i] \in 1 .. Len(q) /\ a[i] = q[from[i]]
      /\ \A i, j \in 1 .. n : i < j => from[i] < from[j]
  BY <1>1 DEF Placed
<1>3. /\ DOMAIN a = 1 .. n + 1 /\ DOMAIN q = 1 .. Len(q) /\ Len(q) \in Nat
      /\ \A i \in 1 .. n + 1 : i \in 1 .. n \/ i = n + 1
  BY <1>1, PlacedIn
<1> SUFFICES ASSUME NEW i \in 1 .. n + 1, a[i].type = "pulse", ~v.hello
             PROVE  \E j \in 1 .. i - 1 : a[j].type = "hello"
  BY <1>3 DEF HelloLeads
<1>4. ASSUME NEW k \in 1 .. Len(q), q[k].type = "hello"
      PROVE  \E j \in 1 .. n : from[j] = k /\ a[j].type = "hello"
  <2>1. ~Replaces(m, q[k])
    BY <1>4 DEF Replaces
  <2>2. PICK j \in 1 .. n : from[j] = k /\ a[j] = q[k]
    BY <1>1, <2>1, Kept
  <2> QED
    BY <1>4, <2>2
<1>5. CASE i \in 1 .. n
  <2>1. q[from[i]].type = "pulse" /\ from[i] \in 1 .. Len(q)
    BY <1>2, <1>5
  <2>2. PICK k \in 1 .. from[i] - 1 : q[k].type = "hello"
    BY <1>3, <2>1 DEF HelloLeads
  <2>3. k \in 1 .. Len(q) /\ k < from[i]
    BY <1>3, <2>1, <2>2, SMT
  <2>4. PICK j \in 1 .. n : from[j] = k /\ a[j].type = "hello"
    BY <1>4, <2>2, <2>3
  <2>5. j # i /\ ~(i < j)
    <3>1. ~(from[i] < from[j])
      BY <2>1, <2>3, <2>4, SMT
    <3>2. from[i] # from[j]
      BY <2>1, <2>3, <2>4, SMT
    <3> QED
      BY <1>2, <1>5, <3>1, <3>2
  <2>6. j \in 1 .. i - 1
    BY <1>2, <1>5, <2>5, SMT
  <2> QED
    BY <2>4, <2>6
<1>6. CASE i = n + 1
  <2>1. PICK k \in 1 .. Len(q) : q[k].type = "hello"
    BY <1>2, <1>3, <1>6 DEF Carries
  <2>2. PICK j \in 1 .. n : a[j].type = "hello"
    BY <1>4, <2>1
  <2>3. j \in 1 .. i - 1
    BY <1>2, <1>6, SMT
  <2> QED
    BY <2>2, <2>3
<1> QED
  BY <1>3, <1>5, <1>6

LEMMA FollowsStopped ==
  ASSUME NEW q \in Seq(Messages), NEW a, NEW m, Follows(a, q, m), NEW over \in BOOLEAN,
         StoppedIsLast(q, FALSE), m.type = "stopped" => over
  PROVE  StoppedIsLast(a, over)
<1>1. PICK n, from : Placed(a, q, m, n, from)
  BY DEF Follows
<1>2. /\ Len(a) = n + 1 /\ a[n + 1] = m /\ \A i \in 1 .. n : from[i] \in 1 .. Len(q) /\ a[i] = q[from[i]]
  BY <1>1 DEF Placed
<1>3. /\ DOMAIN a = 1 .. n + 1 /\ DOMAIN q = 1 .. Len(q)
      /\ \A i \in 1 .. n + 1 : i \in 1 .. n \/ i = n + 1
  BY <1>1, PlacedIn
<1> SUFFICES ASSUME NEW i \in 1 .. n + 1, a[i].type = "stopped"
             PROVE  i = Len(a) /\ over
  BY <1>3 DEF StoppedIsLast
<1>4. i \notin 1 .. n
  BY <1>2, <1>3 DEF StoppedIsLast
<1> QED
  BY <1>2, <1>3, <1>4

LEMMA FollowsInOrder ==
  ASSUME NEW q \in Seq(Messages), NEW a, NEW m, Follows(a, q, m),
         NEW shown \in [Pulses -> Frame], NEW latest, NEW new, NEW over,
         InOrder(q, shown, latest), Publishable(m, latest, new, over),
         \A p \in Pulses : AtMost(shown[p], latest[p])
  PROVE  InOrder(a, shown, new)
<1>1. PICK n, from : Placed(a, q, m, n, from)
  BY DEF Follows
<1>2. /\ n \in Nat /\ a[n + 1] = m
      /\ \A i \in 1 .. n : from[i] \in 1 .. Len(q) /\ a[i] = q[from[i]]
      /\ \A i, j \in 1 .. n : i < j => from[i] < from[j]
  BY <1>1 DEF Placed
<1>3. /\ DOMAIN a = 1 .. n + 1 /\ DOMAIN q = 1 .. Len(q)
      /\ \A i \in 1 .. n + 1 : i \in 1 .. n \/ i = n + 1
      /\ \A k \in 1 .. Len(q) : q[k] \in Messages
  BY <1>1, PlacedIn, Queue
<1>4. /\ m \in Messages /\ latest \in [Pulses -> Frame] /\ new \in [Pulses -> Frame]
      /\ \A p \in Pulses : AtMost(latest[p], new[p])
      /\ m.type = "pulse" => m.frame = new[m.pulse] /\ m.frame.revision # 0
  BY DEF Publishable
<1>5. \A x \in Messages : x.pulse \in Pulses /\ x.frame \in Frame
  BY DEF Messages
<1>6. \A f, g, h \in Frame : AtMost(f, g) /\ AtMost(g, h) => AtMost(f, h)
  BY AtMostOrders
<1>7. ASSUME NEW i \in 1 .. n, a[i].type = "pulse"
      PROVE  /\ a[i].pulse \in Pulses /\ a[i].frame \in Frame
             /\ a[i].frame.revision # 0
             /\ AtMost(shown[a[i].pulse], a[i].frame)
             /\ AtMost(a[i].frame, new[a[i].pulse])
  <2>1. from[i] \in 1 .. Len(q) /\ a[i] = q[from[i]]
    BY <1>2
  <2>2. a[i].pulse \in Pulses /\ a[i].frame \in Frame
    BY <1>3, <1>5, <2>1
  <2>3. /\ a[i].frame.revision # 0
        /\ AtMost(shown[a[i].pulse], a[i].frame)
        /\ AtMost(a[i].frame, latest[a[i].pulse])
    BY <1>3, <1>7, <2>1 DEF InOrder
  <2>4. /\ latest[a[i].pulse] \in Frame /\ new[a[i].pulse] \in Frame
        /\ AtMost(latest[a[i].pulse], new[a[i].pulse])
    BY <1>4, <2>2
  <2> QED
    BY <1>6, <2>2, <2>3, <2>4
<1>8. ASSUME m.type = "pulse"
      PROVE  /\ m.pulse \in Pulses /\ m.frame.revision # 0
             /\ AtMost(shown[m.pulse], m.frame)
             /\ AtMost(m.frame, new[m.pulse])
  <2>1. /\ m.pulse \in Pulses /\ m.frame = new[m.pulse] /\ new[m.pulse] \in Frame
        /\ latest[m.pulse] \in Frame /\ shown[m.pulse] \in Frame
    BY <1>4, <1>5, <1>8
  <2> QED
    BY <1>4, <1>6, <1>8, <2>1, AtMostOrders
<1>9. ASSUME NEW i \in 1 .. n + 1, NEW j \in 1 .. n + 1, i < j,
             a[i].type = "pulse", a[j].type = "pulse", a[i].pulse = a[j].pulse
      PROVE  AtMost(a[i].frame, a[j].frame)
  <2>1. i # n + 1
    BY <1>2, <1>9, SMT
  <2>2. i \in 1 .. n
    BY <1>3, <2>1
  <2>3. CASE j \in 1 .. n
    <3>1. /\ from[i] \in 1 .. Len(q) /\ from[j] \in 1 .. Len(q) /\ from[i] < from[j]
          /\ a[i] = q[from[i]] /\ a[j] = q[from[j]]
      BY <1>2, <1>9, <2>2, <2>3
    <3> QED
      BY <1>3, <1>9, <3>1 DEF InOrder
  <2>4. CASE j = n + 1
    BY <1>2, <1>4, <1>7, <1>9, <2>2, <2>4
  <2> QED
    BY <1>3, <2>3, <2>4
<1>10. ASSUME NEW i \in 1 .. n + 1, a[i].type = "pulse"
       PROVE  /\ a[i].frame.revision # 0
              /\ AtMost(shown[a[i].pulse], a[i].frame)
              /\ AtMost(a[i].frame, new[a[i].pulse])
  <2>1. CASE i \in 1 .. n
    BY <1>7, <1>10, <2>1
  <2>2. CASE i = n + 1
    BY <1>2, <1>8, <1>10, <2>2
  <2> QED
    BY <1>3, <2>1, <2>2
<1> QED
  BY <1>3, <1>9, <1>10 DEF InOrder

\* The flow after publish(): it still owes the page what it owed.
LEMMA SentKeeps ==
  ASSUME NEW h \in HubState, NEW q, NEW a, NEW v, NEW m, NEW latest, NEW new, NEW over \in BOOLEAN,
         HubInv(h, latest, FALSE), LinkInv(h, q, v, latest, FALSE), Follows(a, q, m),
         v.pulses \in [Pulses -> Frame], PageInv(v, latest),
         Publishable(m, latest, new, over), m.type = "pulse" => h.hello
  PROVE  LinkInv(Retained(h, m), a, v, new, over)
<1>0. m \in Messages /\ q \in Seq(Messages) /\ a \in Seq(Messages)
  BY DEF Publishable, LinkInv, Follows, Placed
<1>1. InOrder(a, v.pulses, new)
  <2>1. \A p \in Pulses : AtMost(v.pulses[p], latest[p])
    BY DEF PageInv
  <2> QED
    BY <1>0, <2>1, FollowsInOrder DEF LinkInv
<1>2. StoppedIsLast(a, over)
  <2>1. StoppedIsLast(q, FALSE) /\ (m.type = "stopped" => over)
    BY DEF LinkInv, Publishable
  <2> QED
    BY <1>0, <2>1, FollowsStopped
<1>3. HelloLeads(a, v)
  BY <1>0, FollowsLeads DEF LinkInv
<1>4. Retained(h, m).hello => v.hello \/ Carries(a, "hello")
  <2>1. Retained(h, m).hello = (h.hello \/ m.type = "hello")
    BY <1>0, RetainedIs
  <2>2. Carries(q, "hello") \/ m.type = "hello" => Carries(a, "hello")
    BY <1>0, FollowsCarries
  <2> QED
    BY <2>1, <2>2 DEF LinkInv
<1>5. ASSUME NEW p \in Pulses, Published(new, p)
      PROVE  Due(Retained(h, m), a, v, new, p)
  <2>1. CASE m.type = "pulse" /\ m.pulse = p
    <3>1. m.frame = new[p]
      BY <2>1 DEF Publishable
    <3>2. HasNewest(a, p, new)
      BY <1>0, <2>1, <3>1, FollowsNewest
    <3> QED
      BY <3>2 DEF Due
  <2>2. CASE ~(m.type = "pulse" /\ m.pulse = p)
    <3>1. new[p] = latest[p]
      BY <2>2 DEF Publishable
    <3>2. Due(h, q, v, latest, p)
      BY <1>5, <3>1 DEF LinkInv, Published
    <3>3. HasNewest(q, p, latest) => HasNewest(a, p, new)
      BY <1>0, <2>2, <3>1, FollowsNewest
    <3>4. ~Holds(h.backlog, p) => ~Holds(Retained(h, m).backlog, p)
      BY <2>2, RetainedKeeps
    <3>5. Carries(q, "truncated") => Carries(a, "truncated")
      BY <1>0, FollowsCarries
    <3> QED
      BY <3>1, <3>2, <3>3, <3>4, <3>5 DEF Due
  <2> QED
    BY <2>1, <2>2
<1> QED
  BY <1>0, <1>1, <1>2, <1>3, <1>4, <1>5 DEF LinkInv

\* The conjuncts of the invariant that a message sent is about; q is the hub's
\* queue for the connection.
LinkOK(h, q, latest, over) ==
    /\ h \in HubState /\ HubInv(h, latest, over)
    /\ q \in Seq(Messages)
    /\ link = "up" => LinkInv(h, wire \o q, view, latest, over)
    /\ PageInv(view, latest)

LEMMA SendingKeeps ==
  ASSUME LiveTypeOK, NEW h, NEW q, NEW m, NEW latest, NEW new, NEW over \in BOOLEAN,
         LinkOK(h, q, latest, FALSE), Publishable(m, latest, new, over),
         m.type = "pulse" => h.hello
  PROVE  /\ LinkOK(Retained(h, m), Sent(q, m), new, over)
         /\ Retained(h, m).hello = (h.hello \/ m.type = "hello")
<1>0. /\ h \in HubState /\ HubInv(h, latest, FALSE) /\ m \in Messages /\ q \in Seq(Messages)
      /\ wire \in Seq(Messages) /\ view.pulses \in [Pulses -> Frame] /\ PageInv(view, latest)
      /\ latest \in [Pulses -> Frame] /\ new \in [Pulses -> Frame]
  BY DEF LinkOK, Publishable, LiveTypeOK
<1>1. Retained(h, m) \in HubState /\ Retained(h, m).hello = (h.hello \/ m.type = "hello")
  BY <1>0, RetainedIs
<1>2. HubInv(Retained(h, m), new, over)
  BY <1>0, RetainedKeeps
<1>3. PageInv(view, new)
  <2> SUFFICES ASSUME NEW p \in Pulses
               PROVE  AtMost(view.pulses[p], new[p])
    BY DEF PageInv
  <2>1. AtMost(view.pulses[p], latest[p]) /\ AtMost(latest[p], new[p])
    BY <1>0 DEF PageInv, Publishable
  <2>2. view.pulses[p] \in Frame /\ latest[p] \in Frame /\ new[p] \in Frame
    BY <1>0
  <2> QED
    BY <2>1, <2>2, AtMostOrders
<1>4. CASE link = "up"
  <2>1. LinkInv(h, wire \o q, view, latest, FALSE)
    BY <1>4 DEF LinkOK
  <2>2. Follows(wire \o Added(q, m), wire \o q, m)
    BY <1>0, FlowFollows
  <2>3. LinkInv(Retained(h, m), wire \o Added(q, m), view, new, over)
    BY <1>0, <2>1, <2>2, SentKeeps
  <2>4. Sent(q, m) = Added(q, m)
    BY <1>4 DEF Sent
  <2>5. Added(q, m) \in Seq(Messages)
    <3>1. Added(q, m) = Append(Unreplaced(q, m), m)
      BY AddedIs
    <3>2. Unreplaced(q, m) \in Seq(Messages)
      BY <1>0, ReplacedThins DEF Thinned
    <3> QED
      BY <1>0, <3>1, <3>2, QueueAppend
  <2> QED
    BY <1>1, <1>2, <1>3, <2>3, <2>4, <2>5 DEF LinkOK
<1>5. CASE link # "up"
  BY <1>0, <1>1, <1>2, <1>3, <1>5 DEF LinkOK, Sent
<1> QED
  BY <1>4, <1>5

\* A run that has not stopped yet.
LEMMA UnderWay ==
  ASSUME LiveInv, phase \in {"building", "running"}
  PROVE  /\ LinkOK(hub, queue, announced, FALSE) /\ ~view.stopped
         /\ LiveTypeOK /\ announced \in [Pulses -> Frame]
<1>1. Over = FALSE
  BY DEF Over
<1>2. hub \in HubState /\ queue \in Seq(Messages) /\ LiveTypeOK /\ announced \in [Pulses -> Frame]
  BY DEF LiveInv, LiveTypeOK, HubState
<1> QED
  BY <1>1, <1>2 DEF LiveInv, LinkOK, Flow

\* What the conjuncts of the invariant come to after a step that publishes.
LEMMA PublishedInv ==
  ASSUME LiveInv, ~view.stopped, UNCHANGED <<link, wire, view, cuts>>,
         phase' \in {"running", "stopped"}, pulse' \in Pulses, frame' \in Frame,
         announced' \in [Pulses -> Frame],
         LinkOK(hub', queue', announced', Over'),
         GatewayInv'
  PROVE  LiveInv'
<1>1. LiveTypeOK'
  BY DEF LiveInv, LiveTypeOK, LinkOK, HubState
<1>2. HubInv(hub', announced', Over') /\ (link' = "up" => LinkInv(hub', Flow', view', announced', Over'))
  BY DEF LinkOK, Flow
<1>3. ~view'.stopped /\ PageInv(view', announced')
  BY DEF LinkOK
<1>4. StoppedShowsAll'
  BY <1>3 DEF StoppedShowsAll
<1> QED
  BY <1>1, <1>2, <1>3, <1>4 DEF LiveInv

LEMMA OverIsBoolean ==
  Over \in BOOLEAN /\ Over' \in BOOLEAN
  BY DEF Over

LEMMA FramesTyped ==
  /\ emptyFrame \in Frame
  /\ \A type \in {"hello", "status", "truncated", "stopped"} :
        Message(type) \in Messages /\ Message(type).type = type
  /\ \A p \in Pulses, f \in Frame :
        /\ PulseMessage(p, f) \in Messages
        /\ PulseMessage(p, f).type = "pulse"
        /\ PulseMessage(p, f).pulse = p
        /\ PulseMessage(p, f).frame = f
<1>1. emptyFrame \in Frame /\ 0 \in Pulses
  BY LiveAssumption, SMT DEF emptyFrame, Frame, Pulses
<1> QED
  BY <1>1 DEF Message, PulseMessage, Messages

\* Messages without a key to a pulse, and the next frame of a pulse, may be sent.
LEMMA PlainPublishable ==
  ASSUME NEW type \in {"hello", "status", "stopped"}, NEW latest \in [Pulses -> Frame],
         NEW over \in BOOLEAN, type = "stopped" => over
  PROVE  /\ Publishable(Message(type), latest, latest, over)
         /\ Message(type).type = type /\ Message(type).type # "pulse"
<1>1. \A p \in Pulses : AtMost(latest[p], latest[p])
  BY AtMostOrders
<1> QED
  BY <1>1, FramesTyped DEF Publishable

LEMMA FramePublishable ==
  ASSUME NEW p \in Pulses, NEW f \in Frame, f.revision # 0, NEW latest \in [Pulses -> Frame],
         AtMost(latest[p], f), NEW new, new = [latest EXCEPT ![p] = f]
  PROVE  /\ Publishable(PulseMessage(p, f), latest, new, FALSE)
         /\ PulseMessage(p, f).type = "pulse"
<1>1. new[p] = f /\ (\A x \in Pulses : x # p => new[x] = latest[x]) /\ new \in [Pulses -> Frame]
  OBVIOUS
<1>2. /\ PulseMessage(p, f) \in Messages
      /\ PulseMessage(p, f).type = "pulse"
      /\ PulseMessage(p, f).pulse = p
      /\ PulseMessage(p, f).frame = f
  BY FramesTyped
<1>3. \A x \in Pulses : AtMost(latest[x], new[x])
  BY <1>1, AtMostOrders
<1> QED
  BY <1>1, <1>2, <1>3 DEF Publishable

LEMMA HelloKeeps ==
  ASSUME LiveInv, Hello
  PROVE  LiveInv'
<1>1. /\ LinkOK(hub, queue, announced, FALSE) /\ ~view.stopped
      /\ LiveTypeOK /\ announced \in [Pulses -> Frame]
  BY UnderWay DEF Hello
<1> DEFINE m == Message("hello")
           n == Message("status")
<1>2. LinkOK(Retained(hub, m), Sent(queue, m), announced, FALSE) /\ Retained(hub, m).hello
  <2>1. Publishable(m, announced, announced, FALSE) /\ m.type = "hello" /\ m.type # "pulse"
    BY <1>1, PlainPublishable
  <2> HIDE DEF m
  <2> QED
    BY <1>1, <2>1, SendingKeeps
<1>3. /\ LinkOK(Retained(Retained(hub, m), n), Sent(Sent(queue, m), n), announced, FALSE)
      /\ Retained(Retained(hub, m), n).hello
  <2>1. Publishable(n, announced, announced, FALSE) /\ n.type # "pulse"
    BY <1>1, PlainPublishable
  <2> HIDE DEF m, n
  <2>2. /\ LinkOK(Retained(Retained(hub, m), n), Sent(Sent(queue, m), n), announced, FALSE)
        /\ Retained(Retained(hub, m), n).hello = (Retained(hub, m).hello \/ n.type = "hello")
    BY <1>1, <1>2, <2>1, SendingKeeps
  <2> QED
    BY <1>2, <2>2
<1>4. /\ hub' = Retained(Retained(hub, m), n) /\ queue' = Sent(Sent(queue, m), n)
      /\ UNCHANGED <<link, wire, view, cuts>> /\ UNCHANGED <<pulse, frame, announced>>
      /\ phase = "building" /\ phase' = "running"
  BY DEF Hello, PublishBoth
<1> HIDE DEF m, n
<1>5. Over' = FALSE
  BY <1>4 DEF Over
<1>6. LinkOK(hub', queue', announced', Over') /\ hub'.hello
  BY <1>3, <1>4, <1>5
<1>7. GatewayInv'
  BY <1>4, <1>6 DEF GatewayInv, LiveInv, Published
<1>8. pulse' \in Pulses /\ frame' \in Frame /\ announced' \in [Pulses -> Frame]
  BY <1>4 DEF LiveInv, LiveTypeOK
<1> QED
  BY <1>1, <1>4, <1>6, <1>7, <1>8, PublishedInv

LEMMA RunStopsKeeps ==
  ASSUME LiveInv, RunStops
  PROVE  LiveInv'
<1>1. /\ LinkOK(hub, queue, announced, FALSE) /\ ~view.stopped
      /\ LiveTypeOK /\ announced \in [Pulses -> Frame]
  BY UnderWay DEF RunStops
<1> DEFINE m == Message("status")
           n == Message("stopped")
<1>2. LinkOK(Retained(hub, m), Sent(queue, m), announced, FALSE)
  <2>1. Publishable(m, announced, announced, FALSE) /\ m.type # "pulse"
    BY <1>1, PlainPublishable
  <2> HIDE DEF m
  <2> QED
    BY <1>1, <2>1, SendingKeeps
<1>3. LinkOK(Retained(Retained(hub, m), n), Sent(Sent(queue, m), n), announced, TRUE)
  <2>1. Publishable(n, announced, announced, TRUE) /\ n.type # "pulse"
    BY <1>1, PlainPublishable
  <2> HIDE DEF m, n
  <2> QED
    BY <1>1, <1>2, <2>1, SendingKeeps
<1>4. /\ hub' = Retained(Retained(hub, m), n) /\ queue' = Sent(Sent(queue, m), n)
      /\ UNCHANGED <<link, wire, view, cuts>> /\ UNCHANGED <<pulse, frame, announced>>
      /\ phase' = "stopped"
  BY DEF RunStops, PublishBoth
<1> HIDE DEF m, n
<1>5. Over' = TRUE
  BY <1>4 DEF Over
<1>6. LinkOK(hub', queue', announced', Over')
  BY <1>3, <1>4, <1>5
<1>7. GatewayInv'
  BY <1>4 DEF GatewayInv, LiveInv, Published
<1>8. pulse' \in Pulses /\ frame' \in Frame /\ announced' \in [Pulses -> Frame]
  BY <1>4 DEF LiveInv, LiveTypeOK
<1> QED
  BY <1>1, <1>4, <1>6, <1>7, <1>8, PublishedInv

\* The frame that is announced next shows what the last one showed, and more.
LEMMA NextFrame ==
  ASSUME LiveInv, phase = "running", NEW f \in Frame,
         frame.items <= f.items, f.revision = frame.revision + 1
  PROVE  LET new == [announced EXCEPT ![pulse] = f]
         IN  /\ new \in [Pulses -> Frame]
             /\ \A p \in Pulses : p > pulse => new[p] = emptyFrame
             /\ \A p \in Pulses : ~Published(new, p) => new[p] = emptyFrame
             /\ Publishable(PulseMessage(pulse, f), announced, new, FALSE)
             /\ PulseMessage(pulse, f).type = "pulse" /\ hub.hello
             /\ new[pulse] = f
<1> DEFINE new == [announced EXCEPT ![pulse] = f]
<1>0. announced \in [Pulses -> Frame] /\ pulse \in Pulses /\ frame \in Frame /\ pulse \in Nat
  BY DEF LiveInv, LiveTypeOK, Pulses
<1>1. new \in [Pulses -> Frame] /\ new[pulse] = f /\ \A p \in Pulses : p # pulse => new[p] = announced[p]
  BY <1>0
<1>2. f.revision # 0
  <2>1. frame.revision \in Nat
    BY <1>0 DEF Frame
  <2> QED
    BY <2>1, SMT
<1>3. AtMost(announced[pulse], f)
  <2>1. announced[pulse].items <= frame.items /\ announced[pulse].revision = frame.revision
    BY DEF LiveInv, GatewayInv
  <2>2. /\ announced[pulse].items \in Nat /\ frame.items \in Nat /\ f.items \in Nat
        /\ frame.revision \in Nat
    BY <1>0, LiveAssumption, SMT DEF Frame
  <2>3. announced[pulse].items <= f.items
    BY <2>1, <2>2, SMT
  <2>4. frame.revision <= frame.revision + 1 /\ frame.revision # frame.revision + 1
    BY <2>2, SMT
  <2> QED
    BY <2>1, <2>3, <2>4 DEF AtMost
<1>4. Publishable(PulseMessage(pulse, f), announced, new, FALSE) /\ PulseMessage(pulse, f).type = "pulse"
  BY <1>0, <1>2, <1>3, FramePublishable
<1> HIDE DEF new
<1>5. ASSUME NEW p \in Pulses, p > pulse PROVE new[p] = emptyFrame
  <2>1. p # pulse
    BY <1>0, <1>5, SMT DEF Pulses
  <2> QED
    BY <1>1, <1>5, <2>1 DEF LiveInv, GatewayInv
<1>6. ASSUME NEW p \in Pulses, ~Published(new, p) PROVE new[p] = emptyFrame
  <2>1. p # pulse
    BY <1>1, <1>2, <1>6 DEF Published
  <2> QED
    BY <1>1, <1>6, <2>1 DEF LiveInv, GatewayInv, Published
<1>7. hub.hello
  BY DEF LiveInv, GatewayInv
<1> QED
  BY <1>1, <1>4, <1>5, <1>6, <1>7 DEF new

LEMMA DeliverKeeps ==
  ASSUME LiveInv, Deliver
  PROVE  LiveInv'
<1> DEFINE f == [frame EXCEPT !.items = @ + 1, !.revision = @ + 1]
           new == [announced EXCEPT ![pulse] = f]
           m == PulseMessage(pulse, f)
<1>0. frame \in Frame /\ pulse \in Pulses /\ MaxItems \in Nat
  BY LiveAssumption DEF LiveInv, LiveTypeOK
<1>1. /\ phase = "running" /\ frame.items < MaxItems
      /\ frame' = f /\ announced' = new /\ hub' = Retained(hub, m) /\ queue' = Sent(queue, m)
      /\ UNCHANGED <<link, wire, view, cuts>> /\ UNCHANGED <<phase, pulse>>
  BY DEF Deliver, Delivering, Publish
<1>2. f \in Frame /\ f.items = frame.items + 1 /\ f.revision = frame.revision + 1
  <2>1. frame.items + 1 \in 0 .. MaxItems /\ frame.revision + 1 \in Nat /\ frame.complete \in BOOLEAN
    BY <1>0, <1>1, SMT DEF Frame
  <2> QED
    BY <1>0, <2>1 DEF Frame
<1>3. frame.items <= f.items
  <2>1. frame.items \in Nat
    BY <1>0, SMT DEF Frame
  <2> HIDE DEF f
  <2> QED
    BY <1>2, <2>1, SMT
<1> HIDE DEF f
<1>4. /\ new \in [Pulses -> Frame]
      /\ \A p \in Pulses : p > pulse => new[p] = emptyFrame
      /\ \A p \in Pulses : ~Published(new, p) => new[p] = emptyFrame
      /\ Publishable(m, announced, new, FALSE) /\ m.type = "pulse" /\ hub.hello
      /\ new[pulse] = f
  BY <1>1, <1>2, <1>3, NextFrame
<1> HIDE DEF new, m
<1>5. LinkOK(hub, queue, announced, FALSE) /\ LiveTypeOK /\ ~view.stopped
  BY <1>1, UnderWay
<1>6. LinkOK(Retained(hub, m), Sent(queue, m), new, FALSE) /\ Retained(hub, m).hello
  <2>1. /\ LinkOK(Retained(hub, m), Sent(queue, m), new, FALSE)
        /\ Retained(hub, m).hello = (hub.hello \/ m.type = "hello")
    BY <1>4, <1>5, SendingKeeps
  <2> QED
    BY <1>4, <2>1
<1>7. Over' = FALSE
  BY <1>1 DEF Over
<1>8. LinkOK(hub', queue', announced', Over') /\ hub'.hello
  BY <1>1, <1>6, <1>7
<1>9. f.items <= f.items
  <2>1. f.items \in Nat
    BY <1>2, LiveAssumption, SMT DEF Frame
  <2> QED
    BY <2>1, SMT
<1>10. GatewayInv'
  <2>1. announced'[pulse'].items <= frame'.items /\ announced'[pulse'].revision = frame'.revision
    BY <1>1, <1>4, <1>9
  <2>2. phase' # "building"
    BY <1>1
  <2> QED
    BY <1>1, <1>4, <1>8, <2>1, <2>2 DEF GatewayInv
<1> QED
  BY <1>0, <1>1, <1>2, <1>4, <1>5, <1>8, <1>10, PublishedInv

LEMMA CommitPulseKeeps ==
  ASSUME LiveInv, CommitPulse
  PROVE  LiveInv'
<1> DEFINE f == [frame EXCEPT !.revision = @ + 1, !.complete = TRUE]
           new == [announced EXCEPT ![pulse] = f]
           m == PulseMessage(pulse, f)
           n == Message("status")
<1>0. frame \in Frame /\ pulse \in Pulses /\ pulse \in Nat
  BY DEF LiveInv, LiveTypeOK, Pulses
<1>1. /\ phase = "running" /\ pulse < RunPulses
      /\ announced' = new /\ pulse' = pulse + 1 /\ frame' = emptyFrame
      /\ hub' = Retained(Retained(hub, m), n) /\ queue' = Sent(Sent(queue, m), n)
      /\ UNCHANGED <<link, wire, view, cuts>> /\ UNCHANGED phase
  BY DEF CommitPulse, PublishBoth
<1>2. f \in Frame /\ f.items = frame.items /\ f.revision = frame.revision + 1
  <2>1. frame.items \in 0 .. MaxItems /\ frame.revision + 1 \in Nat
    BY <1>0, SMT DEF Frame
  <2> QED
    BY <1>0, <2>1 DEF Frame
<1>3. frame.items <= f.items
  <2>1. frame.items \in Nat
    BY <1>0, SMT DEF Frame
  <2> HIDE DEF f
  <2> QED
    BY <1>2, <2>1, SMT
<1> HIDE DEF f
<1>4. /\ new \in [Pulses -> Frame]
      /\ \A p \in Pulses : p > pulse => new[p] = emptyFrame
      /\ \A p \in Pulses : ~Published(new, p) => new[p] = emptyFrame
      /\ Publishable(m, announced, new, FALSE) /\ m.type = "pulse" /\ hub.hello
  BY <1>1, <1>2, <1>3, NextFrame
<1>5. Publishable(n, new, new, FALSE) /\ n.type # "pulse"
  <2> HIDE DEF new
  <2> QED
    BY <1>4, PlainPublishable
<1> HIDE DEF new, m, n
<1>6. LinkOK(hub, queue, announced, FALSE) /\ LiveTypeOK /\ ~view.stopped
  BY <1>1, UnderWay
<1>7. LinkOK(Retained(hub, m), Sent(queue, m), new, FALSE) /\ Retained(hub, m).hello
  <2>1. /\ LinkOK(Retained(hub, m), Sent(queue, m), new, FALSE)
        /\ Retained(hub, m).hello = (hub.hello \/ m.type = "hello")
    BY <1>4, <1>6, SendingKeeps
  <2> QED
    BY <1>4, <2>1
<1>8. /\ LinkOK(Retained(Retained(hub, m), n), Sent(Sent(queue, m), n), new, FALSE)
      /\ Retained(Retained(hub, m), n).hello
  <2>1. /\ LinkOK(Retained(Retained(hub, m), n), Sent(Sent(queue, m), n), new, FALSE)
        /\ Retained(Retained(hub, m), n).hello = (Retained(hub, m).hello \/ n.type = "hello")
    BY <1>5, <1>6, <1>7, SendingKeeps
  <2> QED
    BY <1>7, <2>1
<1>9. Over' = FALSE
  BY <1>1 DEF Over
<1>10. LinkOK(hub', queue', announced', Over') /\ hub'.hello
  BY <1>1, <1>8, <1>9
<1>11. pulse' \in Pulses /\ pulse' > pulse /\ \A p \in Pulses : p > pulse' => p > pulse
  BY <1>0, <1>1, LiveAssumption, SMT DEF Pulses
<1>12. announced'[pulse'] = emptyFrame
  BY <1>1, <1>4, <1>11
<1>13. emptyFrame.items <= emptyFrame.items /\ emptyFrame \in Frame
  BY FramesTyped, SMT DEF emptyFrame
<1>14. GatewayInv'
  <2>1. announced'[pulse'].items <= frame'.items /\ announced'[pulse'].revision = frame'.revision
    BY <1>1, <1>12, <1>13
  <2>2. phase' # "building"
    BY <1>1
  <2>3. \A p \in Pulses : p > pulse' => announced'[p] = emptyFrame
    BY <1>1, <1>4, <1>11
  <2>4. \A p \in Pulses : ~Published(announced', p) => announced'[p] = emptyFrame
    BY <1>1, <1>4
  <2> QED
    BY <1>10, <2>1, <2>2, <2>3, <2>4 DEF GatewayInv
<1>15. phase' \in {"running", "stopped"} /\ frame' \in Frame /\ announced' \in [Pulses -> Frame]
  BY <1>1, <1>4, <1>13
<1> QED
  BY <1>1, <1>6, <1>10, <1>11, <1>14, <1>15, PublishedInv

\* What a subscriber is sent first: hello if there was one, the notice if a
\* frame has expired, and the history.
LEMMA ReplayIs ==
  ASSUME NEW h \in HubState
  PROVE  \E k \in 0 .. 2 :
            /\ Replay(h) \in Seq(Messages) /\ Len(Replay(h)) = k + Len(h.backlog)
            /\ \A i \in 1 .. k : Replay(h)[i].type \in {"hello", "truncated"}
            /\ \A i \in 1 .. Len(h.backlog) : Replay(h)[k + i] = h.backlog[i]
            /\ h.hello => k # 0 /\ Replay(h)[1].type = "hello"
            /\ h.truncated => Carries(Replay(h), "truncated")
<1> DEFINE b == h.backlog
           pre == (IF h.hello THEN <<Message("hello")>> ELSE <<>>)
                    \o (IF h.truncated THEN <<Message("truncated")>> ELSE <<>>)
<1>1. h.hello \in BOOLEAN /\ h.truncated \in BOOLEAN /\ b \in Seq(Messages) /\ Len(b) \in Nat
  BY DEF HubState
<1>2. Replay(h) = pre \o b
  BY DEF Replay
<1>3. /\ Message("hello") \in Messages /\ Message("hello").type = "hello"
      /\ Message("truncated") \in Messages /\ Message("truncated").type = "truncated"
  BY FramesTyped
<1>4. /\ pre \in Seq(Messages) /\ Len(pre) \in 0 .. 2
      /\ \A i \in 1 .. Len(pre) : pre[i].type \in {"hello", "truncated"}
      /\ h.hello => Len(pre) # 0 /\ pre[1].type = "hello"
      /\ h.truncated => \E i \in 1 .. Len(pre) : pre[i].type = "truncated"
  <2> DEFINE x == Message("hello")
             y == Message("truncated")
  <2>1. CASE h.hello /\ h.truncated
    <3>1. pre = <<x>> \o <<y>>
      BY <2>1
    <3> HIDE DEF x, y, pre
    <3>2. pre \in Seq(Messages) /\ Len(pre) = 2 /\ pre[1] = x /\ pre[2] = y
      BY <1>3, <3>1 DEF x, y
    <3>3. \A i \in 1 .. Len(pre) : pre[i].type \in {"hello", "truncated"}
      BY <1>3, <3>2 DEF x, y
    <3>4. 1 \in 1 .. Len(pre) /\ 2 \in 1 .. Len(pre) /\ Len(pre) # 0 /\ Len(pre) \in 0 .. 2
      BY <3>2
    <3> QED
      BY <1>3, <3>2, <3>3, <3>4 DEF x, y
  <2>2. CASE h.hello /\ ~h.truncated
    <3>1. pre = <<x>> \o <<>>
      BY <2>2
    <3> HIDE DEF x, y, pre
    <3>2. pre \in Seq(Messages) /\ Len(pre) = 1 /\ pre[1] = x
      BY <1>3, <3>1 DEF x, y
    <3>3. \A i \in 1 .. Len(pre) : pre[i].type \in {"hello", "truncated"}
      BY <1>3, <3>2 DEF x, y
    <3> QED
      BY <1>3, <2>2, <3>2, <3>3 DEF x, y
  <2>3. CASE ~h.hello /\ h.truncated
    <3>1. pre = <<>> \o <<y>>
      BY <2>3
    <3> HIDE DEF x, y, pre
    <3>2. pre \in Seq(Messages) /\ Len(pre) = 1 /\ pre[1] = y
      BY <1>3, <3>1 DEF x, y
    <3>3. \A i \in 1 .. Len(pre) : pre[i].type \in {"hello", "truncated"}
      BY <1>3, <3>2 DEF x, y
    <3>4. 1 \in 1 .. Len(pre) /\ Len(pre) \in 0 .. 2
      BY <3>2
    <3> QED
      BY <1>3, <2>3, <3>2, <3>3, <3>4 DEF x, y
  <2>4. CASE ~h.hello /\ ~h.truncated
    <3>1. pre = <<>> \o <<>>
      BY <2>4
    <3> HIDE DEF pre
    <3>2. pre \in Seq(Messages) /\ Len(pre) = 0
      BY <3>1
    <3> QED
      BY <2>4, <3>2
  <2> QED
    BY <1>1, <2>1, <2>2, <2>3, <2>4
<1> HIDE DEF pre, b
<1> DEFINE r == pre \o b
<1>5. /\ r \in Seq(Messages) /\ Len(r) = Len(pre) + Len(b)
      /\ \A i \in 1 .. Len(pre) : r[i] = pre[i]
      /\ \A i \in 1 .. Len(pre) + Len(b) : i > Len(pre) => r[i] = b[i - Len(pre)]
  BY <1>1, <1>4, QueueJoin
<1>6. DOMAIN r = 1 .. Len(r)
  BY <1>5, Queue
<1> HIDE DEF r
<1>7. ASSUME NEW i \in 1 .. Len(b) PROVE r[Len(pre) + i] = b[i]
  <2>1. /\ Len(pre) + i \in 1 .. Len(pre) + Len(b) /\ Len(pre) + i > Len(pre)
        /\ (Len(pre) + i) - Len(pre) = i
    BY <1>1, <1>4, SMT
  <2> QED
    BY <1>5, <2>1
<1>8. h.hello => Len(pre) # 0 /\ r[1].type = "hello"
  <2>1. Len(pre) # 0 => 1 \in 1 .. Len(pre)
    BY <1>4, SMT
  <2> QED
    BY <1>4, <1>5, <2>1
<1>9. h.truncated => Carries(r, "truncated")
  <2>1. \A i \in 1 .. Len(pre) : i \in 1 .. Len(r)
    BY <1>1, <1>4, <1>5, SMT
  <2> QED
    BY <1>4, <1>5, <1>6, <2>1 DEF Carries
<1>10. \A i \in 1 .. Len(pre) : r[i].type \in {"hello", "truncated"}
  BY <1>4, <1>5
<1>11. Replay(h) = r
  BY <1>2 DEF r
<1> QED
  BY <1>4, <1>5, <1>7, <1>8, <1>9, <1>10, <1>11 DEF b

\* A connection that has just opened owes the page nothing it does not carry.
LEMMA ReplayKeeps ==
  ASSUME NEW h \in HubState, NEW v, NEW latest \in [Pulses -> Frame], NEW over \in BOOLEAN,
         HubInv(h, latest, over), PageInv(v, latest)
  PROVE  LinkInv(h, Replay(h), v, latest, over)
<1> DEFINE b == h.backlog
           r == Replay(h)
<1>1. PICK k \in 0 .. 2 :
            /\ r \in Seq(Messages) /\ Len(r) = k + Len(b)
            /\ \A i \in 1 .. k : r[i].type \in {"hello", "truncated"}
            /\ \A i \in 1 .. Len(b) : r[k + i] = b[i]
            /\ h.hello => k # 0 /\ r[1].type = "hello"
            /\ h.truncated => Carries(r, "truncated")
  BY ReplayIs
<1>2. b \in Seq(Messages) /\ Current(b, latest, over)
  BY DEF HubState, HubInv
<1> HIDE DEF b, r
<1>3. Len(b) \in Nat /\ DOMAIN b = 1 .. Len(b) /\ DOMAIN r = 1 .. Len(r) /\ \A i \in 1 .. Len(b) : b[i] \in Messages
  BY <1>1, <1>2, Queue
<1>4. \A i \in 1 .. Len(r) : i \in 1 .. k \/ (i - k \in 1 .. Len(b) /\ i = k + (i - k))
  BY <1>1, <1>3, SMT
<1>5. ASSUME NEW i \in 1 .. Len(r), r[i].type \notin {"hello", "truncated"}
      PROVE  i - k \in 1 .. Len(b) /\ r[i] = b[i - k]
  BY <1>1, <1>4, <1>5
<1>6. ASSUME NEW i \in 1 .. Len(r), r[i].type = "pulse"
      PROVE  r[i].pulse \in Pulses /\ r[i].frame = latest[r[i].pulse] /\ r[i].frame.revision # 0
  <2>1. i - k \in 1 .. Len(b) /\ r[i] = b[i - k]
    BY <1>5, <1>6
  <2>2. r[i].pulse \in Pulses
    BY <1>3, <2>1 DEF Messages
  <2> QED
    BY <1>2, <1>3, <1>6, <2>1, <2>2 DEF Newest, Current
<1>7. InOrder(r, v.pulses, latest)
  <2>1. ASSUME NEW i \in 1 .. Len(r), r[i].type = "pulse"
        PROVE  /\ r[i].frame.revision # 0
               /\ AtMost(v.pulses[r[i].pulse], r[i].frame)
               /\ AtMost(r[i].frame, latest[r[i].pulse])
    <3>1. r[i].pulse \in Pulses /\ r[i].frame = latest[r[i].pulse] /\ r[i].frame.revision # 0
      BY <1>6, <2>1
    <3>2. AtMost(v.pulses[r[i].pulse], latest[r[i].pulse])
      BY <3>1 DEF PageInv
    <3>3. AtMost(latest[r[i].pulse], latest[r[i].pulse])
      BY <3>1, AtMostOrders
    <3> QED
      BY <3>1, <3>2, <3>3
  <2>2. ASSUME NEW i \in 1 .. Len(r), NEW j \in 1 .. Len(r),
               r[i].type = "pulse", r[j].type = "pulse", r[i].pulse = r[j].pulse
        PROVE  AtMost(r[i].frame, r[j].frame)
    <3>1. r[i].pulse \in Pulses /\ r[i].frame = latest[r[i].pulse] /\ r[j].frame = latest[r[i].pulse]
      BY <1>6, <2>2
    <3> QED
      BY <3>1, AtMostOrders
  <2> QED
    BY <1>3, <2>1, <2>2 DEF InOrder
<1>8. StoppedIsLast(r, over)
  <2> SUFFICES ASSUME NEW i \in 1 .. Len(r), r[i].type = "stopped"
               PROVE  i = Len(r) /\ over
    BY <1>3 DEF StoppedIsLast
  <2>1. i - k \in 1 .. Len(b) /\ r[i] = b[i - k]
    BY <1>5
  <2>2. i - k = Len(b) /\ over
    BY <1>2, <1>3, <2>1 DEF Current, StoppedIsLast
  <2> QED
    BY <1>1, <1>3, <2>2, SMT
<1>9. HelloLeads(r, v)
  <2> SUFFICES ASSUME NEW i \in 1 .. Len(r), r[i].type = "pulse"
               PROVE  \E j \in 1 .. i - 1 : r[j].type = "hello"
    BY <1>3 DEF HelloLeads
  <2>1. i - k \in 1 .. Len(b) /\ r[i] = b[i - k]
    BY <1>5
  <2>2. b[i - k].pulse \in Pulses /\ Published(latest, b[i - k].pulse)
    <3>1. b[i - k].frame = latest[b[i - k].pulse] /\ b[i - k].frame.revision # 0
      BY <1>2, <1>3, <2>1 DEF Current, Newest
    <3> QED
      BY <1>3, <2>1, <3>1 DEF Messages, Published
  <2>3. h.hello
    BY <2>2 DEF HubInv
  <2>4. 1 \in 1 .. i - 1
    BY <1>1, <2>1, <2>3, SMT
  <2> QED
    BY <1>1, <2>3, <2>4
<1>10. h.hello => Carries(r, "hello")
  <2>1. k # 0 => 1 \in 1 .. Len(r)
    BY <1>1, <1>3, SMT
  <2> QED
    BY <1>1, <1>3, <2>1 DEF Carries
<1>11. ASSUME NEW p \in Pulses, Published(latest, p) PROVE Due(h, r, v, latest, p)
  <2>1. Holds(b, p) \/ h.truncated
    BY <1>11 DEF HubInv, b
  <2>2. ASSUME Holds(b, p) PROVE HasNewest(r, p, latest)
    <3>1. PICK i \in 1 .. Len(b) : b[i].type = "pulse" /\ b[i].pulse = p
      BY <1>3, <2>2 DEF Holds
    <3>2. k + i \in 1 .. Len(r) /\ r[k + i] = b[i]
      <4>1. k + i \in 1 .. Len(r)
        BY <1>1, <1>3, SMT
      <4> QED
        BY <1>1, <4>1
    <3>3. b[i].frame = latest[p]
      BY <1>2, <1>3, <3>1 DEF Current, Newest
    <3> QED
      BY <1>3, <3>1, <3>2, <3>3 DEF HasNewest
  <2>3. h.truncated => Carries(r, "truncated")
    BY <1>1
  <2> QED
    BY <2>1, <2>2, <2>3 DEF Due, b
<1>12. LinkInv(h, r, v, latest, over)
  BY <1>1, <1>7, <1>8, <1>9, <1>10, <1>11 DEF LinkInv
<1> QED
  BY <1>12 DEF r

LEMMA ConnectKeeps ==
  ASSUME LiveInv, Connect
  PROVE  LiveInv'
<1>1. link = "down" /\ ~view.stopped /\ UNCHANGED <<runVars, hub, cuts>>
  BY DEF Connect, LiveInv
<1>2. /\ UNCHANGED <<phase, pulse, frame, announced>> /\ Over' = Over /\ Over \in BOOLEAN
      /\ hub \in HubState
  BY <1>1, OverIsBoolean DEF runVars, Over, LiveInv, LiveTypeOK, HubState
<1>3. GatewayInv' /\ HubInv(hub', announced', Over')
  BY <1>1, <1>2 DEF LiveInv, GatewayInv, Published
<1>4. CASE phase = "replaced"
  <2>1. link' = "closed" /\ view' = [view EXCEPT !.lost = TRUE] /\ UNCHANGED <<queue, wire>>
    BY <1>4 DEF Connect
  <2> DEFINE V == [hello : BOOLEAN, told : BOOLEAN, stopped : BOOLEAN, lost : BOOLEAN,
                   pulses : [Pulses -> Frame]]
  <2>2. view \in V
    BY DEF LiveInv, LiveTypeOK
  <2>3. view' \in V /\ view'.stopped = view.stopped /\ view'.pulses = view.pulses
    BY <2>1, <2>2
  <2>4. LiveTypeOK'
    BY <1>1, <1>2, <2>1, <2>3 DEF LiveInv, LiveTypeOK
  <2>5. PageInv(view', announced')
    BY <1>2, <2>3 DEF LiveInv, PageInv
  <2>6. StoppedShowsAll'
    BY <1>1, <2>3 DEF StoppedShowsAll
  <2> QED
    BY <1>1, <1>3, <2>1, <2>3, <2>4, <2>5, <2>6 DEF LiveInv
<1>5. CASE phase # "replaced"
  <2>1. link' = "up" /\ queue' = Replay(hub) /\ wire' = <<>> /\ UNCHANGED view
    BY <1>5 DEF Connect
  <2>2. LinkInv(hub, Replay(hub), view, announced, Over)
    <3>1. announced \in [Pulses -> Frame]
      BY DEF LiveInv, LiveTypeOK
    <3> QED
      BY <1>2, <3>1, ReplayKeeps DEF LiveInv
  <2>3. queue' \in Seq(Messages) /\ wire' \in Seq(Messages)
    BY <2>1, <2>2 DEF LinkInv
  <2>4. Flow' = Replay(hub)
    BY <2>1, <2>3, ConcatEmptySeq DEF Flow
  <2>5. LinkInv(hub', Flow', view', announced', Over')
    BY <1>1, <1>2, <2>1, <2>2, <2>4
  <2>6. LiveTypeOK'
    BY <1>1, <1>2, <2>1, <2>3 DEF LiveInv, LiveTypeOK
  <2>7. PageInv(view', announced') /\ ~view'.stopped
    BY <1>1, <1>2, <2>1 DEF LiveInv
  <2>8. StoppedShowsAll'
    BY <2>7 DEF StoppedShowsAll
  <2> QED
    BY <1>3, <2>5, <2>6, <2>7, <2>8 DEF LiveInv
<1> QED
  BY <1>4, <1>5

\* The head of a sequence, taken off and put back.
LEMMA HeadOn ==
  ASSUME NEW q \in Seq(Messages), q # <<>>
  PROVE  Head(q) \in Messages /\ q = <<Head(q)>> \o Tail(q)
<1> DEFINE x == <<Head(q)>>
           t == Tail(q)
<1>1. /\ t \in Seq(Messages) /\ Len(t) = Len(q) - 1 /\ Head(q) = q[1] /\ 1 \in 1 .. Len(q)
      /\ \A i \in 1 .. Len(q) - 1 : t[i] = q[i + 1]
  BY QueueTail
<1>2. Len(q) \in Nat /\ q[1] \in Messages
  BY <1>1, Queue
<1>3. x \in Seq(Messages) /\ Len(x) = 1 /\ x[1] = q[1]
  BY <1>1, <1>2
<1> HIDE DEF x, t
<1>4. /\ x \o t \in Seq(Messages) /\ Len(x \o t) = Len(q)
      /\ \A i \in 1 .. Len(x) : (x \o t)[i] = x[i]
      /\ \A i \in 1 .. Len(x) + Len(t) : i > Len(x) => (x \o t)[i] = t[i - Len(x)]
  <2>1. Len(x) + Len(t) = Len(q)
    BY <1>1, <1>2, <1>3, SMT
  <2> QED
    BY <1>1, <1>3, <2>1, QueueJoin
<1>5. ASSUME NEW i \in 1 .. Len(q) PROVE (x \o t)[i] = q[i]
  <2>1. CASE i = 1
    BY <1>3, <1>4, <2>1
  <2>2. CASE i # 1
    <3>1. i \in 1 .. Len(x) + Len(t) /\ i > Len(x) /\ i - 1 \in 1 .. Len(q) - 1 /\ (i - 1) + 1 = i
      BY <1>1, <1>2, <1>3, <2>2, SMT
    <3>2. (x \o t)[i] = t[i - 1] /\ t[i - 1] = q[(i - 1) + 1]
      BY <1>1, <1>3, <1>4, <3>1
    <3> QED
      BY <3>1, <3>2
  <2> QED
    BY <2>1, <2>2
<1>6. x \o t = q
  BY <1>4, <1>5, SeqEqual
<1> QED
  BY <1>1, <1>2, <1>6 DEF x, t

LEMMA HeadOff ==
  ASSUME NEW m \in Messages, NEW t \in Seq(Messages)
  PROVE  /\ <<m>> \o t \in Seq(Messages) /\ <<m>> \o t # <<>>
         /\ Head(<<m>> \o t) = m /\ Tail(<<m>> \o t) = t
<1> DEFINE x == <<m>>
           q == x \o t
<1>1. x \in Seq(Messages) /\ Len(x) = 1 /\ x[1] = m
  OBVIOUS
<1> HIDE DEF x
<1>2. /\ q \in Seq(Messages) /\ Len(q) = 1 + Len(t) /\ Len(t) \in Nat
      /\ \A i \in 1 .. 1 : q[i] = x[i]
      /\ \A i \in 1 .. 1 + Len(t) : i > 1 => q[i] = t[i - 1]
  BY <1>1, QueueJoin, Queue
<1> HIDE DEF q
<1>3. q # <<>>
  BY <1>2, SMT
<1>4. /\ Tail(q) \in Seq(Messages) /\ Len(Tail(q)) = Len(q) - 1 /\ Head(q) = q[1]
      /\ \A i \in 1 .. Len(q) - 1 : Tail(q)[i] = q[i + 1]
  BY <1>2, <1>3, QueueTail
<1>5. ASSUME NEW i \in 1 .. Len(t) PROVE Tail(q)[i] = t[i]
  <2>1. i \in 1 .. Len(q) - 1 /\ i + 1 \in 1 .. 1 + Len(t) /\ i + 1 > 1 /\ (i + 1) - 1 = i
    BY <1>2, SMT
  <2>2. Tail(q)[i] = q[i + 1] /\ q[i + 1] = t[(i + 1) - 1]
    BY <1>2, <1>4, <2>1
  <2> QED
    BY <2>1, <2>2
<1>6. Len(Tail(q)) = Len(t)
  BY <1>2, <1>4, SMT
<1>7. Tail(q) = t
  BY <1>4, <1>5, <1>6, SeqEqual
<1>8. Head(q) = m
  BY <1>1, <1>2, <1>4
<1> QED
  BY <1>2, <1>3, <1>7, <1>8 DEF q, x

\* What is written leaves the queue for the wire, and so stays on its way.
LEMMA WriteKeeps ==
  ASSUME LiveInv, Write
  PROVE  LiveInv'
<1>1. /\ link = "up" /\ queue # <<>> /\ queue \in Seq(Messages) /\ wire \in Seq(Messages)
      /\ wire' = Append(wire, Head(queue)) /\ queue' = Tail(queue)
      /\ UNCHANGED <<phase, pulse, frame, announced, hub, link, view, cuts>>
  BY DEF Write, runVars, LiveInv, LiveTypeOK
<1>2. /\ Head(queue) \in Messages /\ queue = <<Head(queue)>> \o Tail(queue)
      /\ Tail(queue) \in Seq(Messages) /\ Append(wire, Head(queue)) \in Seq(Messages)
  BY <1>1, HeadOn, QueueTail, QueueAppend
<1>3. Flow' = Flow
  <2> DEFINE x == <<Head(queue)>>
  <2>1. x \in Seq(Messages)
    BY <1>2
  <2>2. Append(wire, Head(queue)) = wire \o x
    BY <1>1, <1>2, AppendIsConcat
  <2>3. queue = x \o Tail(queue)
    BY <1>2
  <2> HIDE DEF x
  <2>4. (wire \o x) \o Tail(queue) = wire \o (x \o Tail(queue))
    <3>1. wire \in Seq(Messages) /\ Tail(queue) \in Seq(Messages)
      BY <1>1, <1>2
    <3> QED
      BY <2>1, <3>1, ConcatAssociative
  <2> QED
    BY <1>1, <2>2, <2>3, <2>4 DEF Flow
<1>4. LiveTypeOK'
  BY <1>1, <1>2 DEF LiveInv, LiveTypeOK
<1>5. GatewayInv' /\ StoppedShowsAll' /\ Over' = Over
  BY <1>1 DEF LiveInv, GatewayInv, Published, StoppedShowsAll, Over
<1> QED
  BY <1>1, <1>3, <1>4, <1>5 DEF LiveInv

\* What is read is the head of all that is on its way.
LEMMA FlowRead ==
  ASSUME LiveInv, wire # <<>>
  PROVE  /\ Flow \in Seq(Messages) /\ Flow # <<>>
         /\ Head(Flow) = Head(wire) /\ Tail(Flow) = Tail(wire) \o queue
         /\ Head(wire) \in Messages /\ Tail(wire) \in Seq(Messages)
<1>1. wire \in Seq(Messages) /\ queue \in Seq(Messages)
  BY DEF LiveInv, LiveTypeOK
<1>2. /\ Head(wire) \in Messages /\ wire = <<Head(wire)>> \o Tail(wire)
      /\ Tail(wire) \in Seq(Messages)
  BY <1>1, HeadOn, QueueTail
<1> DEFINE x == <<Head(wire)>>
           t == Tail(wire) \o queue
<1>3. x \in Seq(Messages) /\ t \in Seq(Messages)
  BY <1>1, <1>2, QueueJoin
<1>4. Flow = x \o t
  <2>1. wire = x \o Tail(wire)
    BY <1>2
  <2> HIDE DEF x
  <2>2. (x \o Tail(wire)) \o queue = x \o (Tail(wire) \o queue)
    BY <1>1, <1>2, <1>3, ConcatAssociative
  <2> QED
    BY <2>1, <2>2 DEF Flow
<1> HIDE DEF t
<1>5. /\ x \o t \in Seq(Messages) /\ x \o t # <<>>
      /\ Head(x \o t) = Head(wire) /\ Tail(x \o t) = t
  BY <1>2, <1>3, HeadOff
<1> QED
  BY <1>2, <1>4, <1>5 DEF t

\* What is left of a connection's queue once its head has been read.
LEMMA TailLeads ==
  ASSUME NEW q \in Seq(Messages), q # <<>>, NEW v, NEW w,
         HelloLeads(q, v), v.hello \/ Head(q).type = "hello" => w.hello
  PROVE  HelloLeads(Tail(q), w)
<1>1. /\ Tail(q) \in Seq(Messages) /\ Len(Tail(q)) = Len(q) - 1 /\ Head(q) = q[1]
      /\ \A i \in 1 .. Len(q) - 1 : Tail(q)[i] = q[i + 1]
      /\ Len(q) \in Nat /\ DOMAIN q = 1 .. Len(q)
  BY QueueTail, Queue
<1>2. DOMAIN Tail(q) = 1 .. Len(q) - 1
  BY <1>1, Queue
<1> SUFFICES ASSUME NEW i \in 1 .. Len(q) - 1, Tail(q)[i].type = "pulse", ~w.hello
             PROVE  \E j \in 1 .. i - 1 : Tail(q)[j].type = "hello"
  BY <1>2 DEF HelloLeads
<1>3. i + 1 \in 1 .. Len(q) /\ q[i + 1].type = "pulse"
  <2>1. i + 1 \in 1 .. Len(q)
    BY <1>1, SMT
  <2> QED
    BY <1>1, <2>1
<1>4. PICK j \in 1 .. (i + 1) - 1 : q[j].type = "hello"
  BY <1>1, <1>3 DEF HelloLeads
<1>5. j # 1
  BY <1>1, <1>4
<1>6. j - 1 \in 1 .. i - 1 /\ j - 1 \in 1 .. Len(q) - 1 /\ (j - 1) + 1 = j
  BY <1>1, <1>4, <1>5, SMT
<1>7. Tail(q)[j - 1] = q[(j - 1) + 1]
  BY <1>1, <1>6
<1> QED
  BY <1>4, <1>6, <1>7

LEMMA TailCarries ==
  ASSUME NEW q \in Seq(Messages), q # <<>>, NEW type, Carries(q, type), Head(q).type # type
  PROVE  Carries(Tail(q), type)
<1>1. PICK from : /\ Thinned(Tail(q), q, from)
                  /\ \A k \in 1 .. Len(q) : k # 1 => \E i \in 1 .. Len(q) - 1 : from[i] = k
  BY TailThins
<1>2. /\ Tail(q) \in Seq(Messages) /\ DOMAIN Tail(q) = 1 .. Len(Tail(q)) /\ DOMAIN q = 1 .. Len(q)
      /\ Len(Tail(q)) = Len(q) - 1 /\ Head(q) = q[1]
  BY QueueTail, Queue
<1>3. PICK k \in 1 .. Len(q) : q[k].type = type
  BY <1>2 DEF Carries
<1>4. k # 1
  BY <1>2, <1>3
<1>5. PICK i \in 1 .. Len(Tail(q)) : from[i] = k
  BY <1>1, <1>2, <1>4
<1> QED
  BY <1>1, <1>2, <1>3, <1>5 DEF Thinned, Carries

\* What reading the message m does to the pulses a page shows.
Shows(v, w, m) ==
    IF m.type = "pulse" THEN w.pulses = [v.pulses EXCEPT ![m.pulse] = m.frame]
    ELSE w.pulses = v.pulses

\* Behind the head of the flow, revisions still follow what the page then shows.
LEMMA TailInOrder ==
  ASSUME NEW q \in Seq(Messages), q # <<>>, NEW v, NEW w, NEW latest,
         v.pulses \in [Pulses -> Frame], Shows(v, w, Head(q)), InOrder(q, v.pulses, latest)
  PROVE  InOrder(Tail(q), w.pulses, latest)
<1> DEFINE m == Head(q)
           t == Tail(q)
           n == Len(q) - 1
<1>1. /\ t \in Seq(Messages) /\ Len(t) = n /\ m = q[1] /\ 1 \in 1 .. Len(q)
      /\ \A i \in 1 .. n : t[i] = q[i + 1]
      /\ DOMAIN q = 1 .. Len(q) /\ Len(q) \in Nat
      /\ \A i \in 1 .. Len(q) : q[i] \in Messages
  BY QueueTail, Queue
<1>2. DOMAIN t = 1 .. n
  BY <1>1, Queue
<1>3. \A i \in 1 .. n : i + 1 \in 1 .. Len(q) /\ 1 < i + 1
  BY <1>1, SMT
<1>4. \A i, j \in 1 .. n : i < j => i + 1 < j + 1
  BY <1>1, SMT
<1>5. IF m.type = "pulse" THEN w.pulses = [v.pulses EXCEPT ![m.pulse] = m.frame]
      ELSE w.pulses = v.pulses
  BY DEF Shows
<1> HIDE DEF m, t, n
<1>6. ASSUME NEW i \in 1 .. n, t[i].type = "pulse"
      PROVE  /\ t[i].frame.revision # 0
             /\ AtMost(w.pulses[t[i].pulse], t[i].frame)
             /\ AtMost(t[i].frame, latest[t[i].pulse])
  <2>1. t[i] = q[i + 1] /\ i + 1 \in 1 .. Len(q) /\ 1 < i + 1
    BY <1>1, <1>3
  <2>2. /\ t[i].frame.revision # 0 /\ AtMost(t[i].frame, latest[t[i].pulse])
        /\ AtMost(v.pulses[t[i].pulse], t[i].frame)
    BY <1>1, <1>6, <2>1 DEF InOrder
  <2>3. t[i].pulse \in Pulses
    BY <1>1, <2>1 DEF Messages
  <2>4. CASE m.type = "pulse" /\ m.pulse = t[i].pulse
    <3>1. w.pulses[t[i].pulse] = m.frame
      BY <1>5, <2>3, <2>4
    <3>2. AtMost(q[1].frame, q[i + 1].frame)
      BY <1>1, <1>6, <2>1, <2>4 DEF InOrder
    <3> QED
      BY <1>1, <2>1, <2>2, <3>1, <3>2
  <2>5. CASE ~(m.type = "pulse" /\ m.pulse = t[i].pulse)
    <3>1. w.pulses[t[i].pulse] = v.pulses[t[i].pulse]
      BY <1>5, <2>3, <2>5
    <3> QED
      BY <2>2, <3>1
  <2> QED
    BY <2>4, <2>5
<1>7. ASSUME NEW i \in 1 .. n, NEW j \in 1 .. n, i < j,
             t[i].type = "pulse", t[j].type = "pulse", t[i].pulse = t[j].pulse
      PROVE  AtMost(t[i].frame, t[j].frame)
  <2>1. /\ t[i] = q[i + 1] /\ i + 1 \in 1 .. Len(q) /\ i + 1 < j + 1
        /\ t[j] = q[j + 1] /\ j + 1 \in 1 .. Len(q)
    BY <1>1, <1>3, <1>4, <1>7
  <2> QED
    BY <1>1, <1>7, <2>1 DEF InOrder
<1>8. InOrder(t, w.pulses, latest)
  BY <1>2, <1>6, <1>7 DEF InOrder
<1> QED
  BY <1>8 DEF t

LEMMA TailNewest ==
  ASSUME NEW q \in Seq(Messages), q # <<>>, NEW latest, NEW p, HasNewest(q, p, latest)
  PROVE  \/ HasNewest(Tail(q), p, latest)
         \/ Head(q).type = "pulse" /\ Head(q).pulse = p /\ Head(q).frame = latest[p]
<1>1. PICK from : /\ Thinned(Tail(q), q, from)
                  /\ \A k \in 1 .. Len(q) : k # 1 => \E i \in 1 .. Len(q) - 1 : from[i] = k
  BY TailThins
<1>2. /\ Tail(q) \in Seq(Messages) /\ DOMAIN Tail(q) = 1 .. Len(Tail(q)) /\ DOMAIN q = 1 .. Len(q)
      /\ Len(Tail(q)) = Len(q) - 1 /\ Head(q) = q[1]
  BY QueueTail, Queue
<1>3. PICK k \in 1 .. Len(q) : q[k].type = "pulse" /\ q[k].pulse = p /\ q[k].frame = latest[p]
  BY <1>2 DEF HasNewest
<1>4. CASE k # 1
  <2>1. PICK i \in 1 .. Len(Tail(q)) : from[i] = k
    BY <1>1, <1>2, <1>4
  <2>2. Tail(q)[i] = q[k]
    BY <1>1, <2>1 DEF Thinned
  <2> QED
    BY <1>2, <1>3, <2>1, <2>2 DEF HasNewest
<1>5. CASE k = 1
  BY <1>2, <1>3, <1>5
<1> QED
  BY <1>4, <1>5

LEMMA TailStopped ==
  ASSUME NEW q \in Seq(Messages), q # <<>>, NEW over \in BOOLEAN, StoppedIsLast(q, over)
  PROVE  StoppedIsLast(Tail(q), over)
<1>1. /\ Tail(q) \in Seq(Messages) /\ Len(Tail(q)) = Len(q) - 1 /\ DOMAIN q = 1 .. Len(q)
      /\ \A i \in 1 .. Len(q) - 1 : Tail(q)[i] = q[i + 1]
      /\ Len(q) \in Nat
  BY QueueTail, Queue
<1>2. DOMAIN Tail(q) = 1 .. Len(q) - 1
  BY <1>1, Queue
<1>3. \A i \in 1 .. Len(q) - 1 : i + 1 \in 1 .. Len(q) /\ (i + 1 = Len(q) => i = Len(q) - 1)
  <2>1. \A n \in Nat : \A i \in 1 .. n - 1 : i + 1 \in 1 .. n /\ (i + 1 = n => i = n - 1)
    BY SMT
  <2> QED
    BY <1>1, <2>1
<1>4. ASSUME NEW i \in 1 .. Len(q) - 1, Tail(q)[i].type = "stopped"
      PROVE  i = Len(Tail(q)) /\ over
  <2>1. Tail(q)[i] = q[i + 1] /\ i + 1 \in 1 .. Len(q)
    BY <1>1, <1>3
  <2>2. i + 1 = Len(q) /\ over
    BY <1>1, <1>4, <2>1 DEF StoppedIsLast
  <2> QED
    BY <1>1, <1>3, <2>2
<1> QED
  BY <1>2, <1>4 DEF StoppedIsLast

\* Reading the head of the flow leaves it owing the page w what w does not show.
LEMMA ReadKeeps ==
  ASSUME NEW h, NEW q, NEW v, NEW w, NEW latest \in [Pulses -> Frame], NEW over \in BOOLEAN,
         v.pulses \in [Pulses -> Frame], LinkInv(h, q, v, latest, over), q # <<>>,
         v.hello \/ Head(q).type = "hello" => w.hello,
         v.told \/ Head(q).type = "truncated" => w.told,
         Shows(v, w, Head(q))
  PROVE  LinkInv(h, Tail(q), w, latest, over)
<1> DEFINE m == Head(q)
<1>1. q \in Seq(Messages) /\ InOrder(q, v.pulses, latest) /\ StoppedIsLast(q, over)
  BY DEF LinkInv
<1>2. /\ Tail(q) \in Seq(Messages) /\ m = q[1] /\ m \in Messages
      /\ 1 \in DOMAIN q
  BY <1>1, QueueTail, Queue
<1>3. InOrder(Tail(q), w.pulses, latest)
  BY <1>1, TailInOrder
<1>4. HelloLeads(Tail(q), w)
  BY <1>1, TailLeads DEF LinkInv
<1>5. h.hello => w.hello \/ Carries(Tail(q), "hello")
  <2>1. Carries(q, "hello") => Head(q).type = "hello" \/ Carries(Tail(q), "hello")
    BY <1>1, TailCarries
  <2> QED
    BY <2>1 DEF LinkInv
<1>6. StoppedIsLast(Tail(q), over)
  BY <1>1, TailStopped
<1>7. ASSUME NEW p \in Pulses, Published(latest, p) PROVE Due(h, Tail(q), w, latest, p)
  <2>1. Due(h, q, v, latest, p)
    BY <1>7 DEF LinkInv
  <2>2. CASE ~Holds(h.backlog, p) /\ (v.told \/ Carries(q, "truncated"))
    <3>1. Carries(q, "truncated") => Head(q).type = "truncated" \/ Carries(Tail(q), "truncated")
      BY <1>1, TailCarries
    <3> QED
      BY <2>2, <3>1 DEF Due
  <2>3. ASSUME m.type = "pulse", m.pulse = p PROVE w.pulses[p] = m.frame
    BY <2>3 DEF Shows
  <2>4. CASE HasNewest(q, p, latest)
    <3>1. \/ HasNewest(Tail(q), p, latest)
          \/ m.type = "pulse" /\ m.pulse = p /\ m.frame = latest[p]
      BY <1>1, <2>4, TailNewest
    <3> QED
      BY <2>3, <3>1 DEF Due
  <2>5. CASE v.pulses[p] = latest[p]
    <3>1. CASE m.type = "pulse" /\ m.pulse = p
      <4>1. AtMost(latest[p], m.frame) /\ AtMost(m.frame, latest[p])
        BY <1>1, <1>2, <2>5, <3>1 DEF InOrder
      <4>2. m.frame.revision \in Nat /\ latest[p].revision \in Nat
        BY <1>2 DEF Messages, Frame
      <4>3. m.frame.revision = latest[p].revision
        BY <4>1, <4>2, SMT DEF AtMost
      <4>4. m.frame = latest[p]
        BY <4>1, <4>3 DEF AtMost
      <4> QED
        BY <2>3, <3>1, <4>4 DEF Due
    <3>2. CASE ~(m.type = "pulse" /\ m.pulse = p)
      <4>1. w.pulses[p] = v.pulses[p]
        BY <3>2 DEF Shows
      <4> QED
        BY <2>5, <4>1 DEF Due
    <3> QED
      BY <3>1, <3>2
  <2> QED
    BY <2>1, <2>2, <2>4, <2>5 DEF Due
<1> QED
  BY <1>2, <1>3, <1>4, <1>5, <1>6, <1>7 DEF LinkInv

\* What the page that has read m shows: as before, but for the pulse of m, whose
\* revision is never older than the one it replaces.
LEMMA FoldedIs ==
  ASSUME LiveInv, link = "up", wire # <<>>, view' = Folded(view, Head(wire))
  PROVE  LET m == Head(wire)
         IN  /\ view' \in [hello : BOOLEAN, told : BOOLEAN, stopped : BOOLEAN, lost : BOOLEAN,
                           pulses : [Pulses -> Frame]]
             /\ view.hello \/ m.type = "hello" => view'.hello
             /\ view.told \/ m.type = "truncated" => view'.told
             /\ view'.stopped = (m.type = "stopped")
             /\ m.type = "pulse" =>
                  /\ m.pulse \in Pulses /\ m.frame \in Frame
                  /\ AtMost(view.pulses[m.pulse], m.frame)
                  /\ AtMost(m.frame, announced[m.pulse])
             /\ Shows(view, view', m)
<1> DEFINE m == Head(wire)
           V == [hello : BOOLEAN, told : BOOLEAN, stopped : BOOLEAN, lost : BOOLEAN,
                 pulses : [Pulses -> Frame]]
<1>1. /\ view \in V /\ announced \in [Pulses -> Frame]
      /\ LinkInv(hub, Flow, view, announced, Over) /\ ~view.stopped
  BY DEF LiveInv, LiveTypeOK
<1>2. /\ Flow \in Seq(Messages) /\ Flow # <<>> /\ Head(Flow) = m /\ m \in Messages
  BY FlowRead
<1>3. m = Flow[1] /\ 1 \in DOMAIN Flow
  BY <1>2, QueueTail, Queue
<1> HIDE DEF m
<1>4. view' = Folded(view, m)
  BY DEF m
<1>5. m.type \in {"hello", "status", "truncated", "pulse", "stopped"} /\ m.pulse \in Pulses /\ m.frame \in Frame
  BY <1>2 DEF Messages
<1>6. CASE m.type = "hello"
  <2>1. view' = [view EXCEPT !.hello = TRUE]
    BY <1>4, <1>6 DEF Folded
  <2>2. /\ view' \in V /\ view'.hello = TRUE /\ view'.told = view.told
        /\ view'.stopped = view.stopped /\ view'.pulses = view.pulses
    BY <1>1, <2>1
  <2> QED
    BY <1>1, <1>6, <2>2 DEF m, Shows
<1>7. CASE m.type = "truncated"
  <2>1. view' = [view EXCEPT !.told = TRUE]
    BY <1>4, <1>7 DEF Folded
  <2>2. /\ view' \in V /\ view'.told = TRUE /\ view'.hello = view.hello
        /\ view'.stopped = view.stopped /\ view'.pulses = view.pulses
    BY <1>1, <2>1
  <2> QED
    BY <1>1, <1>7, <2>2 DEF m, Shows
<1>8. CASE m.type = "stopped"
  <2>1. view' = [view EXCEPT !.stopped = TRUE]
    BY <1>4, <1>8 DEF Folded
  <2>2. /\ view' \in V /\ view'.told = view.told /\ view'.hello = view.hello
        /\ view'.stopped = TRUE /\ view'.pulses = view.pulses
    BY <1>1, <2>1
  <2> QED
    BY <1>1, <1>8, <2>2 DEF m, Shows
<1>9. CASE m.type = "status"
  <2>1. view' = view
    BY <1>4, <1>9 DEF Folded
  <2> QED
    BY <1>1, <1>9, <2>1 DEF m, Shows
<1>10. CASE m.type = "pulse"
  <2>1. view.hello
    <3>1. HelloLeads(Flow, view)
      BY <1>1 DEF LinkInv
    <3>2. view.hello \/ \E j \in 1 .. 1 - 1 : Flow[j].type = "hello"
      BY <1>3, <1>10, <3>1 DEF HelloLeads
    <3>3. \A j \in 1 .. 1 - 1 : FALSE
      BY SMT
    <3> QED
      BY <3>2, <3>3
  <2>2. AtMost(view.pulses[m.pulse], m.frame) /\ AtMost(m.frame, announced[m.pulse])
    BY <1>1, <1>3, <1>10 DEF LinkInv, InOrder
  <2> DEFINE shown == [view.pulses EXCEPT ![m.pulse] = m.frame]
  <2>3. Upserted(view.pulses, m) = shown
    <3>1. view.pulses[m.pulse].revision <= m.frame.revision
      BY <2>2 DEF AtMost
    <3>2. view.pulses[m.pulse].revision \in Nat /\ m.frame.revision \in Nat
      BY <1>1, <1>5 DEF Frame
    <3>3. ~(view.pulses[m.pulse].revision > m.frame.revision)
      BY <3>1, <3>2, SMT
    <3> QED
      BY <3>3 DEF Upserted
  <2>4. view' = [view EXCEPT !.pulses = Upserted(view.pulses, m)]
    BY <1>4, <1>10, <2>1 DEF Folded
  <2>5. shown \in [Pulses -> Frame]
    BY <1>1, <1>5
  <2>6. view' = [view EXCEPT !.pulses = shown]
    BY <2>3, <2>4
  <2> HIDE DEF shown
  <2>7. /\ view' \in V /\ view'.told = view.told /\ view'.hello = view.hello
        /\ view'.stopped = view.stopped /\ view'.pulses = shown
    BY <1>1, <2>5, <2>6
  <2>8. Shows(view, view', m)
    BY <1>10, <2>7 DEF Shows, shown
  <2> QED
    BY <1>1, <1>5, <1>10, <2>2, <2>7, <2>8 DEF m
<1> QED
  BY <1>5, <1>6, <1>7, <1>8, <1>9, <1>10

\* A page never goes back on what it has shown, nor ahead of what was announced.
LEMMA ReceiveShows ==
  ASSUME LiveInv, Receive
  PROVE  /\ PageInv(view', announced)
         /\ \A p \in Pulses : view'.pulses[p].items >= view.pulses[p].items
<1> DEFINE m == Head(wire)
<1>1. /\ view.pulses \in [Pulses -> Frame] /\ announced \in [Pulses -> Frame]
      /\ link = "up" /\ wire # <<>> /\ view' = Folded(view, m)
  BY DEF LiveInv, LiveTypeOK, Receive
<1>2. /\ m.type = "pulse" =>
            /\ m.pulse \in Pulses /\ m.frame \in Frame
            /\ AtMost(view.pulses[m.pulse], m.frame)
            /\ AtMost(m.frame, announced[m.pulse])
      /\ Shows(view, view', m)
  BY <1>1, FoldedIs
<1> HIDE DEF m
<1> SUFFICES ASSUME NEW p \in Pulses
             PROVE  /\ AtMost(view'.pulses[p], announced[p])
                    /\ view'.pulses[p].items >= view.pulses[p].items
  BY DEF PageInv
<1>3. AtMost(view.pulses[p], announced[p]) /\ view.pulses[p].items \in Nat
  BY <1>1, LiveAssumption, SMT DEF LiveInv, PageInv, Frame
<1>4. CASE m.type = "pulse" /\ m.pulse = p
  <2>1. view'.pulses[p] = m.frame
    BY <1>1, <1>2, <1>4 DEF Shows
  <2>2. m.frame.items >= view.pulses[p].items
    <3>1. view.pulses[p].items <= m.frame.items
      BY <1>2, <1>4 DEF AtMost
    <3>2. m.frame.items \in Nat
      BY <1>2, <1>4, LiveAssumption, SMT DEF Frame
    <3> QED
      BY <1>3, <3>1, <3>2, SMT
  <2> QED
    BY <1>2, <1>4, <2>1, <2>2
<1>5. CASE ~(m.type = "pulse" /\ m.pulse = p)
  <2>1. view'.pulses[p] = view.pulses[p]
    BY <1>1, <1>2, <1>5 DEF Shows
  <2>2. view.pulses[p].items >= view.pulses[p].items
    BY <1>3, SMT
  <2> QED
    BY <1>3, <2>1, <2>2
<1> QED
  BY <1>4, <1>5

\* `stopped` is the last thing a connection carries: nothing else is due.
LEMMA StoppedIsAll ==
  ASSUME LiveInv, Receive, Head(wire).type = "stopped"
  PROVE  Over /\ StoppedShowsAll'
<1>1. /\ wire # <<>> /\ link = "up"
      /\ LinkInv(hub, Flow, view, announced, Over)
      /\ announced \in [Pulses -> Frame] /\ view.pulses \in [Pulses -> Frame]
      /\ UNCHANGED <<runVars, hub, cuts>>
  BY DEF LiveInv, LiveTypeOK, Receive
<1>2. Flow \in Seq(Messages) /\ Flow # <<>> /\ Head(Flow) = Head(wire)
  BY <1>1, FlowRead
<1>3. Head(Flow) = Flow[1] /\ 1 \in 1 .. Len(Flow) /\ DOMAIN Flow = 1 .. Len(Flow)
  BY <1>2, QueueTail, Queue
<1>4. Len(Flow) = 1 /\ Over
  BY <1>1, <1>2, <1>3 DEF LinkInv, StoppedIsLast
<1>5. \A i \in DOMAIN Flow : Flow[i].type = "stopped"
  <2>1. \A i \in 1 .. 1 : i = 1
    BY SMT
  <2> QED
    BY <1>2, <1>3, <1>4, <2>1
<1>6. (\A p \in Pulses : ~HasNewest(Flow, p, announced)) /\ ~Carries(Flow, "truncated")
  BY <1>5 DEF HasNewest, Carries
<1>7. view'.pulses = view.pulses /\ (view.told => view'.told)
  <2>1. view' = Folded(view, Head(wire))
    BY DEF Receive
  <2> QED
    BY <1>1, <2>1, FoldedIs DEF Shows
<1>8. hub' = hub /\ announced' = announced
  BY <1>1 DEF runVars
<1>9. ASSUME NEW p \in Pulses
      PROVE  \/ view'.pulses[p] = announced'[p]
             \/ view'.told /\ \A m \in Range(hub'.backlog) : m.type # "pulse" \/ m.pulse # p
  <2>1. CASE Published(announced, p)
    <3>1. view.pulses[p] = announced[p] \/ (~Holds(hub.backlog, p) /\ view.told)
      BY <1>1, <1>6, <2>1 DEF LinkInv, Due
    <3>2. ~Holds(hub.backlog, p) => \A m \in Range(hub.backlog) : m.type # "pulse" \/ m.pulse # p
      BY DEF Holds, Range
    <3> QED
      BY <1>7, <1>8, <3>1, <3>2
  <2>2. CASE ~Published(announced, p)
    <3>1. AtMost(view.pulses[p], announced[p]) /\ announced[p].revision = 0
      BY <2>2 DEF LiveInv, PageInv, Published
    <3>2. view.pulses[p].revision \in Nat /\ view.pulses[p].revision <= 0
      BY <1>1, <3>1 DEF AtMost, Frame
    <3>3. view.pulses[p].revision = 0
      BY <3>2, SMT
    <3>4. view.pulses[p] = announced[p]
      BY <3>1, <3>3 DEF AtMost
    <3> QED
      BY <1>7, <1>8, <3>4
  <2> QED
    BY <2>1, <2>2
<1> QED
  BY <1>4, <1>9 DEF StoppedShowsAll

LEMMA ReceiveKeeps ==
  ASSUME LiveInv, Receive
  PROVE  LiveInv'
<1> DEFINE m == Head(wire)
           V == [hello : BOOLEAN, told : BOOLEAN, stopped : BOOLEAN, lost : BOOLEAN,
                 pulses : [Pulses -> Frame]]
<1>1. /\ link = "up" /\ wire # <<>> /\ view' = Folded(view, m)
      /\ UNCHANGED <<runVars, hub, cuts>> /\ LinkInv(hub, Flow, view, announced, Over)
      /\ announced \in [Pulses -> Frame] /\ view.pulses \in [Pulses -> Frame]
      /\ queue \in Seq(Messages)
  BY DEF LiveInv, LiveTypeOK, Receive
<1>2. UNCHANGED <<phase, pulse, frame, announced, hub, cuts>> /\ Over' = Over /\ Over \in BOOLEAN
  BY <1>1, OverIsBoolean DEF runVars, Over
<1>3. GatewayInv' /\ HubInv(hub', announced', Over')
  BY <1>2 DEF LiveInv, GatewayInv, Published
<1>4. /\ view' \in V
      /\ view.hello \/ m.type = "hello" => view'.hello
      /\ view.told \/ m.type = "truncated" => view'.told
      /\ view'.stopped = (m.type = "stopped")
      /\ Shows(view, view', m)
  BY <1>1, FoldedIs
<1>5. PageInv(view', announced')
  BY <1>2, ReceiveShows
<1>6. CASE m.type = "stopped"
  <2>1. link' = "closed" /\ queue' = <<>> /\ wire' = <<>>
    BY <1>6 DEF Receive
  <2>2. Over /\ StoppedShowsAll'
    BY <1>6, StoppedIsAll
  <2>3. LiveTypeOK'
    BY <1>2, <1>4, <2>1 DEF LiveInv, LiveTypeOK
  <2> QED
    BY <1>2, <1>3, <1>5, <2>1, <2>2, <2>3 DEF LiveInv
<1>7. CASE m.type # "stopped"
  <2>1. wire' = Tail(wire) /\ queue' = queue /\ link' = "up"
    BY <1>1, <1>7 DEF Receive
  <2>2. ~view'.stopped
    BY <1>4, <1>7
  <2>3. /\ Flow # <<>> /\ Head(Flow) = m /\ Tail(Flow) = Tail(wire) \o queue
        /\ Tail(wire) \in Seq(Messages)
    BY <1>1, FlowRead
  <2>4. LinkInv(hub, Tail(Flow), view', announced, Over)
    <3> HIDE DEF m
    <3>1. /\ view.hello \/ Head(Flow).type = "hello" => view'.hello
          /\ view.told \/ Head(Flow).type = "truncated" => view'.told
          /\ Shows(view, view', Head(Flow))
      BY <1>4, <2>3
    <3> QED
      BY <1>1, <1>2, <2>3, <3>1, ReadKeeps
  <2>5. Flow' = Tail(Flow)
    BY <2>1, <2>3 DEF Flow
  <2>6. LinkInv(hub', Flow', view', announced', Over')
    BY <1>2, <2>4, <2>5
  <2>7. LiveTypeOK'
    BY <1>1, <1>2, <1>4, <2>1, <2>3 DEF LiveInv, LiveTypeOK
  <2>8. StoppedShowsAll'
    BY <2>2 DEF StoppedShowsAll
  <2> QED
    BY <1>3, <1>5, <2>2, <2>6, <2>7, <2>8 DEF LiveInv
<1> QED
  BY <1>6, <1>7

LEMMA OtherKeeps ==
  ASSUME LiveInv, Think \/ NextRun \/ Cut \/ UNCHANGED liveVars
  PROVE  LiveInv'
<1>1. UNCHANGED <<pulse, announced, hub, view>>
  BY DEF Think, NextRun, Cut, runVars, liveVars
<1>2. StoppedShowsAll' /\ PageInv(view', announced')
  BY <1>1 DEF LiveInv, StoppedShowsAll
<1>3. CASE Think
  <2>1. /\ UNCHANGED <<phase, link, queue, wire, cuts>> /\ frame.items < MaxItems
        /\ frame' = [frame EXCEPT !.items = @ + 1]
    BY <1>3 DEF Think, Delivering
  <2>2. frame \in Frame /\ MaxItems \in Nat /\ announced[pulse] \in Frame
    BY LiveAssumption DEF LiveInv, LiveTypeOK
  <2>3. frame' \in Frame /\ frame'.items = frame.items + 1 /\ frame'.revision = frame.revision
    <3>1. frame.items + 1 \in 0 .. MaxItems
      BY <2>1, <2>2, SMT DEF Frame
    <3> QED
      BY <2>1, <2>2, <3>1 DEF Frame
  <2>4. announced[pulse].items <= frame'.items
    <3>1. announced[pulse].items <= frame.items
      BY DEF LiveInv, GatewayInv
    <3>2. announced[pulse].items \in Nat /\ frame.items \in Nat
      BY <2>2, SMT DEF Frame
    <3> QED
      BY <2>3, <3>1, <3>2, SMT
  <2>5. GatewayInv'
    BY <1>1, <2>1, <2>3, <2>4 DEF LiveInv, GatewayInv, Published
  <2>6. Over' = Over /\ LiveTypeOK'
    BY <1>1, <2>1, <2>3 DEF Over, LiveInv, LiveTypeOK
  <2> QED
    BY <1>1, <1>2, <2>1, <2>5, <2>6 DEF LiveInv, Flow
<1>4. CASE NextRun
  <2>1. UNCHANGED <<frame, link, queue, wire, cuts>> /\ phase = "stopped" /\ phase' = "replaced"
    BY <1>4 DEF NextRun
  <2>2. GatewayInv' /\ LiveTypeOK'
    BY <1>1, <2>1 DEF LiveInv, GatewayInv, Published, LiveTypeOK
  <2>3. Over' = Over
    BY <2>1 DEF Over
  <2> QED
    BY <1>1, <1>2, <2>1, <2>2, <2>3 DEF LiveInv, Flow
<1>5. CASE Cut
  <2>1. /\ UNCHANGED <<phase, frame>> /\ link' = "down" /\ queue' = <<>> /\ wire' = <<>> /\ link = "up"
        /\ cuts < MaxCuts /\ cuts' = cuts + 1
    BY <1>5 DEF Cut, runVars
  <2>2. GatewayInv' /\ Over' = Over /\ ~view.stopped
    BY <1>1, <2>1 DEF LiveInv, GatewayInv, Published, Over
  <2>3. cuts' \in 0 .. MaxCuts
    <3>1. cuts \in 0 .. MaxCuts /\ MaxCuts \in Nat
      BY LiveAssumption DEF LiveInv, LiveTypeOK
    <3> QED
      BY <2>1, <3>1, SMT
  <2>4. LiveTypeOK'
    BY <1>1, <2>1, <2>3 DEF LiveInv, LiveTypeOK
  <2> QED
    BY <1>1, <1>2, <2>1, <2>2, <2>4 DEF LiveInv
<1>6. CASE UNCHANGED liveVars
  <2>1. UNCHANGED <<phase, frame, link, queue, wire, cuts>>
    BY <1>6 DEF liveVars, runVars
  <2>2. GatewayInv' /\ LiveTypeOK' /\ Over' = Over
    BY <1>1, <2>1 DEF LiveInv, GatewayInv, Published, LiveTypeOK, Over
  <2> QED
    BY <1>1, <1>2, <2>1, <2>2 DEF LiveInv, Flow
<1> QED
  BY <1>3, <1>4, <1>5, <1>6

LEMMA LiveInvInit ==
  LiveInit => LiveInv
<1> SUFFICES ASSUME LiveInit
             PROVE  LiveInv
  OBVIOUS
<1>1. emptyFrame \in Frame /\ 0 \in Pulses /\ 0 \in 0 .. MaxCuts /\ 0 <= BacklogLimit
  BY FramesTyped, LiveAssumption, SMT DEF Pulses
<1>2. /\ announced \in [Pulses -> Frame] /\ \A p \in Pulses : announced[p] = emptyFrame
      /\ view.pulses \in [Pulses -> Frame] /\ \A p \in Pulses : view.pulses[p] = emptyFrame
  BY <1>1 DEF LiveInit
<1>3. /\ hub.backlog = <<>> /\ Len(hub.backlog) = 0 /\ DOMAIN hub.backlog = {}
      /\ hub.backlog \in Seq(Messages)
  BY SMT DEF LiveInit
<1>4. LiveTypeOK
  <2>1. view \in [hello : BOOLEAN, told : BOOLEAN, stopped : BOOLEAN, lost : BOOLEAN,
                  pulses : [Pulses -> Frame]]
    BY <1>1 DEF LiveInit
  <2>2. hub \in [hello : BOOLEAN, backlog : Seq(Messages), truncated : BOOLEAN]
    BY <1>3 DEF LiveInit
  <2>3. Len(hub.backlog) <= BacklogLimit
    BY <1>1, <1>3
  <2> QED
    BY <1>1, <1>2, <2>1, <2>2, <2>3 DEF LiveTypeOK, LiveInit
<1>5. emptyFrame.items = 0 /\ emptyFrame.revision = 0 /\ 0 <= 0
  BY SMT DEF emptyFrame
<1>6. \A p \in Pulses : ~Published(announced, p)
  BY <1>2, <1>5 DEF Published
<1>7. GatewayInv
  <2>1. announced[pulse].items <= frame.items /\ announced[pulse].revision = frame.revision
    BY <1>1, <1>2, <1>5 DEF LiveInit
  <2>2. phase # "running"
    BY DEF LiveInit
  <2> QED
    BY <1>2, <1>6, <2>1, <2>2 DEF GatewayInv
<1>8. HubInv(hub, announced, Over)
  BY <1>3, <1>6 DEF HubInv, Current, Newest, OncePerPulse, StoppedIsLast
<1>9. PageInv(view, announced)
  BY <1>1, <1>2, AtMostOrders DEF PageInv
<1>10. ~view.stopped /\ link # "up"
  BY DEF LiveInit
<1> QED
  BY <1>4, <1>7, <1>8, <1>9, <1>10 DEF LiveInv, StoppedShowsAll

THEOREM LiveInvariant ==
  LiveSpec => []LiveInv
<1>1. LiveInv /\ [LiveNext]_liveVars => LiveInv'
  BY HelloKeeps, DeliverKeeps, CommitPulseKeeps, RunStopsKeeps, ConnectKeeps, WriteKeeps,
     ReceiveKeeps, OtherKeeps
     DEF LiveNext
<1> QED
  BY <1>1, LiveInvInit, PTL DEF LiveSpec

\* Every variable of the live view keeps its type, and the retained history
\* its limit (http/sse-hub.ts, publish).
THEOREM LiveTyping ==
  LiveSpec => []LiveTypeOK
<1>1. LiveInv => LiveTypeOK
  BY DEF LiveInv
<1> QED
  BY <1>1, LiveInvariant, PTL

\* A page that has been told the run is over shows every pulse exactly as the
\* gateway last published it, or says that the pulse has expired: whatever the
\* history holds, however often the connection breaks, no revision is lost
\* between delivery/sse-delivery-gateway.ts, http/sse-hub.ts and useRunStream.ts.
THEOREM LiveStoppedShowsAll ==
  LiveSpec => []StoppedShowsAll
<1>1. LiveInv => StoppedShowsAll
  BY DEF LiveInv
<1> QED
  BY <1>1, LiveInvariant, PTL

\* The page never takes back what it has shown of a pulse (useRunStream.ts,
\* fold and upsertPulse), although a reconnect sends it the history again.
THEOREM LiveShownNeverShrinks ==
  LiveSpec => ShownNeverShrinks
<1>1. LiveInv /\ LiveNext =>
        UNCHANGED view \/ \A p \in Pulses : view'.pulses[p].items >= view.pulses[p].items
  <2> SUFFICES ASSUME LiveInv, LiveNext
               PROVE  UNCHANGED view \/ \A p \in Pulses : view'.pulses[p].items >= view.pulses[p].items
    OBVIOUS
  <2>1. CASE Receive
    BY <2>1, ReceiveShows
  <2>2. CASE Connect
    <3>1. view'.pulses = view.pulses \/ UNCHANGED view
      BY <2>2 DEF Connect, LiveInv, LiveTypeOK
    <3>2. \A p \in Pulses : view.pulses[p].items >= view.pulses[p].items
      <4>1. \A p \in Pulses : view.pulses[p].items \in Nat
        BY SMT DEF LiveInv, LiveTypeOK, Frame
      <4> QED
        BY <4>1, SMT
    <3> QED
      BY <3>1, <3>2
  <2>3. CASE Hello \/ Think \/ Deliver \/ CommitPulse \/ RunStops \/ NextRun \/ Write \/ Cut
    BY <2>3 DEF Hello, Think, Deliver, CommitPulse, RunStops, NextRun, Write, Cut, Publish, PublishBoth
  <2> QED
    BY <2>1, <2>2, <2>3 DEF LiveNext
<1>2. LiveInv /\ [LiveNext]_liveVars =>
        [\A p \in Pulses : view'.pulses[p].items >= view.pulses[p].items]_view
  BY <1>1 DEF liveVars
<1> QED
  BY <1>2, LiveInvariant, PTL DEF LiveSpec, ShownNeverShrinks

===============================================================================

------------------------ MODULE SimulationRuntimeProofs ------------------------
(***************************************************************************)
(* What is true of the scheduler and of the runtime around it for any      *)
(* number of activations, chains, callers, operations and failures.  First *)
(* the scheduler by itself: its types, the living chain, the single flight *)
(* and, from the single flight, that it implements PulseClock.  Then that  *)
(* the runtime only ever moves its scheduler the way the scheduler moves   *)
(* by itself, so that all this carries over; then the order of the         *)
(* committed log; then, for a runtime that is started once, as the command *)
(* line does, its stop, its cursor and its status.                         *)
(***************************************************************************)
EXTENDS SimulationRuntime, WellFoundedInduction, TLAPS

-------------------------------------------------------------------------------
\* The scheduler by itself.

\* scheduleNext() leaves a chain behind whenever it is told to run, and never
\* loses one: an armed timer it overwrites is counted as an orphan.
LEMMA ScheduleNextKeepsChains ==
  ASSUME SchedTypeOK, NEW run \in BOOLEAN, ScheduleNext(run)
  PROVE  /\ run => timerArmed'
         /\ timerArmed' \in BOOLEAN
         /\ orphans' \in Nat
         /\ orphans' >= orphans
<1> USE DEF SchedTypeOK
<1>1. CASE run
  <2>1. timerArmed' = TRUE
    BY <1>1, Zenon DEF ScheduleNext
  <2>2. orphans' = orphans + 1 \/ orphans' = orphans + 0
    BY <1>1, Zenon DEF ScheduleNext
  <2>3. orphans' \in Nat /\ orphans' >= orphans
    BY <2>2, SMT
  <2> QED
    BY <2>1, <2>3, Zenon
<1>2. CASE ~run
  <2>1. orphans' = orphans /\ timerArmed' = timerArmed
    BY <1>2, Zenon DEF ScheduleNext
  <2>2. orphans \in Nat /\ orphans >= orphans
    BY SMT
  <2> QED
    BY <1>2, <2>1, <2>2, Zenon
<1> QED
  BY <1>1, <1>2

\* Counting the chains or naming the places one can be is the same.
LEMMA ChainsCounted ==
  ASSUME NEW armed \in BOOLEAN, NEW o \in Nat, NEW w \in Nat, NEW k \in Nat
  PROVE  (IF armed THEN 1 ELSE 0) + o + w + k > 0
           <=> armed \/ o > 0 \/ w > 0 \/ k > 0
<1>1. CASE armed
  BY <1>1, SMT
<1>2. CASE ~armed
  BY <1>2, SMT
<1> QED
  BY <1>1, <1>2

-------------------------------------------------------------------------------
\* The fields of a new PulseScheduler.
LEMMA SchedInitTyping == SchedInit => SchedTypeOK
<1> SUFFICES ASSUME SchedInit PROVE SchedTypeOK
  OBVIOUS
<1>1. 0 \in Nat
  BY SMT
<1>2. phase \in [Execs -> Phases]
  BY SMT DEF SchedInit, Phases
<1> QED
  BY <1>1, <1>2, Zenon DEF SchedInit, SchedTypeOK

\* Every variable of the scheduler keeps its type (the fields of the
\* PulseScheduler class, whatever calls reach it).
THEOREM SchedTyping == SchedSpec => []SchedTypeOK
<1>1. SchedInit => SchedTypeOK
  BY SchedInitTyping
<1>2. SchedTypeOK /\ [SchedNext]_schedVars => SchedTypeOK'
  <2> SUFFICES ASSUME SchedTypeOK, [SchedNext]_schedVars PROVE SchedTypeOK'
    OBVIOUS
  <2> USE DEF SchedTypeOK
  <2>1. CASE SchedStart
    <3>1. (~running) \in BOOLEAN
      OBVIOUS
    <3>2. orphans' \in Nat /\ timerArmed' \in BOOLEAN
      BY <2>1, <3>1, ScheduleNextKeepsChains, Zenon DEF SchedStart
    <3> QED
      BY <2>1, <3>2, Zenon DEF SchedStart
  <2>2. CASE SchedStop
    BY <2>2 DEF SchedStop
  <2>3. CASE RunPulse
    BY <2>3 DEF RunPulse, BeginOrJoin, Phases
  <2>4. CASE TimerFires
    <3>1. orphans' \in Nat /\ timerArmed' \in BOOLEAN
      <4>1. CASE timerArmed' = FALSE /\ UNCHANGED orphans
        BY <4>1
      <4>2. CASE orphans > 0 /\ orphans' = orphans - 1 /\ UNCHANGED timerArmed
        <5>1. orphans' \in Nat
          BY <4>2, SMT
        <5> QED
          BY <4>2, <5>1, Zenon
      <4> QED
        BY <2>4, <4>1, <4>2, Zenon DEF TimerFires
    <3>2. inFlight' \in Execs \cup {NoPulse} /\ phase' \in [Execs -> Phases]
      BY <2>4 DEF TimerFires, BeginOrJoin, Phases
    <3>3. waiters' \in Nat
      BY <2>4, SMT DEF TimerFires
    <3> QED
      BY <2>4, <3>1, <3>2, <3>3, Zenon DEF TimerFires
  <2>5. CASE Continue
    <3>1. orphans' \in Nat /\ timerArmed' \in BOOLEAN
      BY <2>5, ScheduleNextKeepsChains DEF Continue
    <3>2. continuations' \in Nat
      BY <2>5, SMT DEF Continue
    <3> QED
      BY <2>5, <3>1, <3>2, Zenon DEF Continue
  <2>6. ASSUME NEW e \in Execs, PulseStep(e) PROVE SchedTypeOK'
    BY <2>6 DEF PulseStep, MovePhase, LoadContext, EndTurns, FinishPulse, FailPulse,
                Settle, Phases
  <2>7. CASE UNCHANGED schedVars
    BY <2>7 DEF schedVars
  <2> QED
    BY <2>1, <2>2, <2>3, <2>4, <2>5, <2>6, <2>7 DEF SchedNext
<1> QED
  BY <1>1, <1>2, PTL DEF SchedSpec

-------------------------------------------------------------------------------
\* While `running` is set some timer is armed or some continuation will arm
\* one: scheduleNext(), the timer callback and the .finally of the promise
\* hand the chain to each other without a gap.
THEOREM SchedulerChainAlive == SchedSpec => []ChainAlive
<1>1. SchedInit => ChainAlive
  BY DEF SchedInit, ChainAlive
<1> DEFINE Somewhere == timerArmed \/ orphans > 0 \/ waiters > 0 \/ continuations > 0
<1>2. SchedTypeOK /\ SchedTypeOK' /\ ChainAlive /\ [SchedNext]_schedVars => ChainAlive'
  <2> SUFFICES ASSUME SchedTypeOK, SchedTypeOK', ChainAlive, [SchedNext]_schedVars
               PROVE  ChainAlive'
    OBVIOUS
  <2>a. ChainAlive <=> (running => Somewhere)
    BY ChainsCounted, Zenon DEF ChainAlive, Chains, SchedTypeOK
  <2>b. ChainAlive' <=> (running' => Somewhere')
    BY ChainsCounted, Zenon DEF ChainAlive, Chains, SchedTypeOK
  <2> USE <2>a, <2>b DEF SchedTypeOK
  <2>1. CASE SchedStart
    <3>1. ~running => timerArmed'
      BY <2>1, ScheduleNextKeepsChains DEF SchedStart
    <3>2. CASE running
      BY <2>1, <3>2 DEF SchedStart, ScheduleNext
    <3> QED
      BY <3>1, <3>2
  <2>2. CASE SchedStop
    BY <2>2 DEF SchedStop
  <2>3. CASE RunPulse
    BY <2>3 DEF RunPulse
  <2>4. CASE TimerFires
    <3>1. waiters' > 0
      BY <2>4, SMT DEF TimerFires
    <3> QED
      BY <3>1, Zenon
  <2>5. CASE Continue
    <3>1. running => timerArmed'
      BY <2>5, ScheduleNextKeepsChains DEF Continue
    <3> QED
      BY <2>5, <3>1, Zenon DEF Continue
  <2>6. ASSUME NEW e \in Execs, Settle(e) PROVE ChainAlive'
    <3>1. waiters > 0 \/ continuations > 0 => continuations' > 0
      BY <2>6, SMT DEF Settle
    <3> QED
      BY <2>6, <3>1, Zenon DEF Settle
  <2>7. ASSUME NEW e \in Execs,
               LoadContext(e) \/ EndTurns(e) \/ FinishPulse(e) \/ FailPulse(e)
        PROVE  ChainAlive'
    BY <2>7 DEF LoadContext, EndTurns, FinishPulse, FailPulse
  <2>8. CASE UNCHANGED schedVars
    BY <2>8 DEF schedVars
  <2> QED
    BY <2>1, <2>2, <2>3, <2>4, <2>5, <2>6, <2>7, <2>8 DEF SchedNext, PulseStep
<1> QED
  BY <1>1, <1>2, SchedTyping, PTL DEF SchedSpec

-------------------------------------------------------------------------------
\* runPulse() finding inFlight set returns it, and only the activation inFlight
\* refers to is running: at most one activation ever is.
THEOREM SchedulerSingleFlight == SchedSpec => []SingleFlight
<1>1. SchedInit => SingleFlight
  BY ExecsAssumption DEF SchedInit, SingleFlight
<1>2. SchedTypeOK /\ SingleFlight /\ [SchedNext]_schedVars => SingleFlight'
  <2> SUFFICES ASSUME SchedTypeOK, SingleFlight, [SchedNext]_schedVars
               PROVE  SingleFlight'
    OBVIOUS
  <2> USE ExecsAssumption DEF SchedTypeOK, SingleFlight
  <2>1. CASE SchedStart \/ SchedStop \/ Continue
    BY <2>1 DEF SchedStart, SchedStop, Continue
  <2>2. CASE RunPulse \/ TimerFires
    <3>1. BeginOrJoin
      BY <2>2 DEF RunPulse, TimerFires
    <3> QED
      BY <3>1 DEF BeginOrJoin
  <2>3. ASSUME NEW e \in Execs, PulseStep(e) PROVE SingleFlight'
    BY <2>3 DEF PulseStep, MovePhase, LoadContext, EndTurns, FinishPulse, FailPulse, Settle
  <2>4. CASE UNCHANGED schedVars
    BY <2>4 DEF schedVars
  <2> QED
    BY <2>1, <2>2, <2>3, <2>4 DEF SchedNext
<1> QED
  BY <1>1, <1>2, SchedTyping, PTL DEF SchedSpec

-------------------------------------------------------------------------------
\* A step of the scheduler is a tick of the clock or leaves it alone: beginning
\* an activation is possible only when none runs, and finishPulse() is the only
\* writer of pulseIndex.
LEMMA SchedStepIsClockStep ==
  ASSUME SchedTypeOK, SingleFlight, [SchedNext]_schedVars
  PROVE  [Clock!ClockNext]_(Clock!clockVars)
<1> USE ExecsAssumption DEF SchedTypeOK, SingleFlight, Clock!clockVars, Busy
<1>1. CASE SchedStart \/ SchedStop \/ Continue
  BY <1>1 DEF SchedStart, SchedStop, Continue
<1>2. CASE RunPulse \/ TimerFires
  <2>1. BeginOrJoin /\ pulseIndex' = pulseIndex
    BY <1>2 DEF RunPulse, TimerFires
  <2>2. CASE inFlight # NoPulse
    BY <2>1, <2>2 DEF BeginOrJoin
  <2>3. CASE inFlight = NoPulse
    <3>1. ~Busy
      BY <2>3
    <3>2. Busy'
      BY <2>1, <2>3 DEF BeginOrJoin
    <3> QED
      BY <2>1, <3>1, <3>2 DEF Clock!ClockNext, Clock!BeginClockPulse
  <2> QED
    BY <2>2, <2>3
<1>3. ASSUME NEW e \in Execs, LoadContext(e) \/ EndTurns(e)
      PROVE  UNCHANGED (Clock!clockVars)
  BY <1>3 DEF LoadContext, EndTurns, MovePhase
<1>4. ASSUME NEW e \in Execs, FinishPulse(e) \/ FailPulse(e)
      PROVE  Clock!EndClockPulse
  <2>1. /\ phase[e] \in {"load", "turns", "review"}
        /\ phase' = [phase EXCEPT ![e] = "settling"]
        /\ pulseIndex' = pulseIndex + 1
    BY <1>4 DEF FinishPulse, FailPulse, MovePhase
  <2>2. \A d \in Execs : d # e => phase[d] = "idle"
    BY <2>1
  <2>3. ~Busy'
    BY <2>1, <2>2
  <2> QED
    BY <2>1, <2>3 DEF Clock!EndClockPulse
<1>5. ASSUME NEW e \in Execs, Settle(e)
      PROVE  UNCHANGED (Clock!clockVars)
  BY <1>5 DEF Settle, MovePhase
<1>6. CASE UNCHANGED schedVars
  BY <1>6 DEF schedVars
<1> QED
  BY <1>1, <1>2, <1>3, <1>4, <1>5, <1>6 DEF SchedNext, PulseStep, Clock!ClockNext

\* However many chains and callers drive it, the scheduler implements the pulse
\* clock: pulses do not overlap and pulseIndex counts the pulses that ended.
THEOREM SchedulerImplementsClock == SchedSpec => PulsesSerial
<1>1. SchedInit => Clock!ClockInit
  BY DEF SchedInit, Clock!ClockInit, Busy
<1> QED
  BY <1>1, SchedStepIsClockStep, SchedTyping, SchedulerSingleFlight, PTL
     DEF SchedSpec, PulsesSerial, Clock!ClockSpec

-------------------------------------------------------------------------------
\* The runtime around it.

\* Every operation of SimulationRuntime, however cut, touches the scheduler by
\* start(), stop() or runPulse(), or not at all.
LEMMA RuntimeStepIsSchedulerStep == [Next]_vars => [SchedNext]_schedVars
<1> SUFFICES ASSUME [Next]_vars PROVE [SchedNext]_schedVars
  OBVIOUS
<1>1. ASSUME NEW c \in Callers, Operation(c) PROVE [SchedNext]_schedVars
  BY <1>1, Zenon DEF Operation, StartCall, StartStatus, StartLog, StartArm, PauseCall,
     PauseLog, StopCall, OperationFails, SchedNext
<1>2. ASSUME NEW c \in AllCallers, StopStep(c) PROVE UNCHANGED schedVars
  BY <1>2, Zenon DEF StopStep, StopLog, StopNotify, StopDelete, NotifyFails
<1>3. ASSUME OperationFails(Scheduler) PROVE UNCHANGED schedVars
  BY <1>3, Zenon DEF OperationFails
<1>4. ASSUME NEW e \in Execs, Commit(e) \/ EndOffered(e) PROVE [SchedNext]_schedVars
  BY <1>4, Zenon DEF Commit, EndOffered, SchedNext
<1>5. ASSUME CallRunPulse PROVE SchedNext
  BY <1>5, Zenon DEF CallRunPulse, SchedNext
<1>6. ASSUME ScheduledStep PROVE SchedNext
  BY <1>6, Zenon DEF ScheduledStep, EndPulse, SchedNext, PulseStep
<1>7. ASSUME UNCHANGED vars PROVE UNCHANGED schedVars
  BY <1>7, Zenon DEF vars, schedVars
<1> QED
  BY <1>1, <1>2, <1>3, <1>4, <1>5, <1>6, <1>7, Zenon DEF Next

\* The runtime implements its scheduler: no interleaving of start(), pause(),
\* stop(), failing appends and ending offers makes it do what PulseScheduler
\* alone could not.
THEOREM RuntimeImplementsScheduler == Spec => RuntimeKeepsScheduler
<1>1. Init => SchedInit
  BY DEF Init
<1> QED
  BY <1>1, RuntimeStepIsSchedulerStep, PTL DEF Spec, RuntimeKeepsScheduler, SchedSpec

\* Hence, in the runtime too, a running simulation always has a chain alive ...
THEOREM RuntimeChainAlive == Spec => []ChainAlive
BY RuntimeImplementsScheduler, SchedulerChainAlive DEF RuntimeKeepsScheduler

\* ... and its pulses do not overlap and are counted by the pulse index.
THEOREM RuntimePulsesSerial == Spec => PulsesSerial
BY RuntimeImplementsScheduler, SchedulerImplementsClock DEF RuntimeKeepsScheduler

-------------------------------------------------------------------------------
Entries == [kind : Kinds, pulse : Nat]

\* What a writer of the log keeps: the entries' type, and the old entries.
LEMMA LogAppended ==
  ASSUME NEW l \in Seq(Entries), NEW x \in Entries
  PROVE  /\ Append(l, x) \in Seq(Entries)
         /\ Len(Append(l, x)) \in Nat
         /\ DOMAIN Append(l, x) = 1 .. Len(l) + 1
         /\ DOMAIN l = 1 .. Len(l)
         /\ Len(l) \in Nat
         /\ \A i \in 1 .. Len(l) : Append(l, x)[i] = l[i]
         /\ Append(l, x)[Len(l) + 1] = x
  BY SMT

\* Moving one caller to its next chunk keeps the table of resumption points.
LEMMA ResumeTyping ==
  ASSUME calls \in [AllCallers -> Resumes], NEW c \in AllCallers,
         NEW from, NEW to \in Resumes, Resume(c, from, to)
  PROVE  calls' \in [AllCallers -> Resumes]
  BY DEF Resume

LEMMA UseTyping ==
  ASSUME used \in [Counters -> Nat], NEW k \in Counters, NEW bound, Use(k, bound)
  PROVE  used' \in [Counters -> Nat]
  BY DEF Use

\* Every variable of the runtime keeps its type (the simulation's row, its log
\* and cursor, and where each caller's operation resumes).
THEOREM RuntimeTyping == Spec => []TypeOK
<1>1. Init => TypeOK
  <2> SUFFICES ASSUME Init PROVE TypeOK
    OBVIOUS
  <2>1. SchedTypeOK
    BY SchedInitTyping DEF Init
  <2>2. /\ log \in Seq([kind : Kinds, pulse : Nat])
        /\ calls \in [AllCallers -> Resumes]
        /\ started \in [AllCallers -> Nat]
        /\ used \in [Counters -> Nat]
    BY DEF Init, Resumes
  <2>3. cursor \in Nat /\ notified \in Nat
    BY DEF Init
  <2> QED
    BY <2>1, <2>2, <2>3 DEF Init, TypeOK, Statuses
<1>2. TypeOK /\ SchedTypeOK' /\ [Next]_vars => TypeOK'
  <2> SUFFICES ASSUME TypeOK, SchedTypeOK', [Next]_vars PROVE TypeOK'
    OBVIOUS
  <2> DEFINE Rest == /\ active \in BOOLEAN
                     /\ status \in Statuses
                     /\ log \in Seq(Entries)
                     /\ cursor \in Nat
                     /\ calls \in [AllCallers -> Resumes]
                     /\ started \in [AllCallers -> Nat]
                     /\ notified \in Nat
                     /\ used \in [Counters -> Nat]
  <2>a. Rest /\ pulseIndex \in Nat /\ 0 \in Nat
    BY DEF TypeOK, Entries, SchedTypeOK
  <2>b. SUFFICES Rest'
    BY <2>b, Zenon DEF TypeOK, Entries
  <2>c. \A c \in Callers : c \in AllCallers
    BY DEF AllCallers
  <2>d. Scheduler \in AllCallers
    BY DEF AllCallers
  <2>e. \A c \in AllCallers : Done(c) \in Resumes
    BY DEF Done, Resumes
  <2>1. ASSUME NEW c \in Callers, StartCall(c) \/ PauseCall(c) PROVE Rest'
    <3>1. calls' \in [AllCallers -> Resumes]
      BY <2>1, <2>a, <2>c, ResumeTyping DEF StartCall, PauseCall, Resumes
    <3>2. used' \in [Counters -> Nat]
      BY <2>1, <2>a, UseTyping DEF StartCall, PauseCall, Counters
    <3>3. status' \in Statuses
      BY <2>1, <2>a DEF StartCall, PauseCall, Statuses
    <3> QED
      BY <2>1, <2>a, <3>1, <3>2, <3>3, Zenon DEF StartCall, PauseCall
  <2>2. ASSUME NEW c \in Callers, StartStatus(c) PROVE Rest'
    <3>1. calls' \in [AllCallers -> Resumes] /\ status' \in Statuses
      BY <2>2, <2>a, <2>c, ResumeTyping DEF StartStatus, Resumes, Statuses
    <3> QED
      BY <2>2, <2>a, <3>1, Zenon DEF StartStatus
  <2>3. ASSUME NEW c \in Callers, StartLog(c) PROVE Rest'
    <3>1. calls' \in [AllCallers -> Resumes]
      BY <2>3, <2>a, <2>c, ResumeTyping DEF StartLog, Resumes
    <3>2. Entry("simulation_started", 0) \in Entries
      BY DEF Entry, Entries, Kinds
    <3>3. log' \in Seq(Entries) /\ Len(log') \in Nat
      BY <2>3, <2>a, <3>2, LogAppended, Zenon DEF StartLog
    <3>4. started' \in [AllCallers -> Nat]
      <4>1. started' = [started EXCEPT ![c] = Len(log')]
        BY <2>3, Zenon DEF StartLog
      <4> QED
        BY <4>1, <2>a, <3>3, Zenon
    <3> QED
      BY <2>3, <2>a, <3>1, <3>3, <3>4, Zenon DEF StartLog
  <2>4. ASSUME NEW c \in Callers, StartArm(c) PROVE Rest'
    <3>1. calls' \in [AllCallers -> Resumes]
      BY <2>4, <2>a, <2>c, ResumeTyping DEF StartArm, Resumes
    <3>2. started[c] \in Nat
      BY <2>a, <2>c
    <3>3. /\ cursor' = started[c]
          /\ UNCHANGED <<active, status, log, started, notified, used>>
      BY <2>4, Zenon DEF StartArm
    <3> QED
      BY <2>4, <2>a, <3>1, <3>2, <3>3, Zenon
  <2>5. ASSUME NEW c \in AllCallers, NEW kind \in Kinds,
               log' = Append(log, Entry(kind, pulseIndex)),
               NEW from, NEW to \in Resumes, Resume(c, from, to),
               UNCHANGED <<active, status, cursor, started, notified, used>>
        PROVE  Rest'
    <3>1. Entry(kind, pulseIndex) \in Entries
      BY <2>a DEF Entry, Entries
    <3>2. log' \in Seq(Entries)
      BY <2>5, <2>a, <3>1, LogAppended, Zenon
    <3>3. calls' \in [AllCallers -> Resumes]
      BY <2>5, <2>a, ResumeTyping
    <3> QED
      BY <2>5, <2>a, <3>2, <3>3, Zenon
  <2>6. ASSUME NEW c \in AllCallers, StopBody(c), Use("stops", MaxStops) PROVE Rest'
    <3>1. calls' \in [AllCallers -> Resumes] /\ status' \in Statuses
      BY <2>6, <2>a, ResumeTyping DEF StopBody, Resumes, Statuses
    <3>2. used' \in [Counters -> Nat]
      BY <2>6, <2>a, UseTyping DEF Counters
    <3> QED
      BY <2>6, <2>a, <3>1, <3>2, Zenon DEF StopBody
  <2>7. ASSUME NEW c \in AllCallers, StopNotify(c) \/ StopDelete(c) PROVE Rest'
    <3>1. calls' \in [AllCallers -> Resumes]
      BY <2>7, <2>a, <2>e, ResumeTyping DEF StopNotify, StopDelete, Resumes
    <3>2. notified' \in Nat
      BY <2>7, <2>a, SMT DEF StopNotify, StopDelete
    <3> QED
      BY <2>7, <2>a, <3>1, <3>2, Zenon DEF StopNotify, StopDelete
  <2>8. ASSUME NEW c \in AllCallers, OperationFails(c) \/ NotifyFails(c) PROVE Rest'
    <3>1. calls' \in [AllCallers -> Resumes]
      BY <2>8, <2>a, <2>e, ResumeTyping DEF OperationFails, NotifyFails, Resumes
    <3>2. notified' \in Nat
      BY <2>8, <2>a, SMT DEF OperationFails, NotifyFails
    <3>3. used' \in [Counters -> Nat]
      BY <2>8, <2>a, UseTyping DEF OperationFails, NotifyFails, Counters
    <3> QED
      BY <2>8, <2>a, <3>1, <3>2, <3>3, Zenon DEF OperationFails, NotifyFails
  <2>9. ASSUME NEW e \in Execs, Commit(e) PROVE Rest'
    <3>1. Entry("event", pulseIndex) \in Entries
      BY <2>a DEF Entry, Entries, Kinds
    <3>2. log' \in Seq(Entries) /\ Len(log') \in Nat
      BY <2>9, <2>a, <3>1, LogAppended, Zenon DEF Commit
    <3>3. used' \in [Counters -> Nat]
      BY <2>9, <2>a, UseTyping DEF Commit, Counters
    <3> QED
      BY <2>9, <2>a, <3>2, <3>3, Zenon DEF Commit
  <2>10. CASE UNCHANGED <<active, status, log, cursor, calls, started, notified, used>>
    BY <2>10, <2>a, Zenon
  <2>11. ASSUME NEW c \in Callers, Operation(c) PROVE Rest'
    <3>1. CASE PauseLog(c)
      <4>1. "simulation_paused" \in Kinds /\ "idle" \in Resumes
        BY DEF Kinds, Resumes
      <4> QED
        BY <3>1, <4>1, <2>c, <2>5, Zenon DEF PauseLog
    <3> QED
      BY <3>1, <2>11, <2>c, <2>1, <2>2, <2>3, <2>4, <2>6, <2>8, Zenon DEF Operation, StopCall
  <2>12. ASSUME NEW c \in AllCallers, StopStep(c) PROVE Rest'
    <3>1. CASE StopLog(c)
      <4>1. "simulation_stopped" \in Kinds /\ "stop.notify" \in Resumes
        BY DEF Kinds, Resumes
      <4> QED
        BY <3>1, <4>1, <2>5, Zenon DEF StopLog
    <3> QED
      BY <3>1, <2>12, <2>7, <2>8, Zenon DEF StopStep
  <2>13. ASSUME NEW e \in Execs, EndOffered(e) PROVE Rest'
    BY <2>13, <2>d, <2>6, Zenon DEF EndOffered
  <2>14. CASE EndPulse
    <3>1. calls' \in [AllCallers -> Resumes]
      BY <2>14, <2>a DEF EndPulse, Resumes
    <3> QED
      BY <2>14, <2>a, <3>1, Zenon DEF EndPulse
  <2> QED
    BY <2>8, <2>9, <2>10, <2>11, <2>12, <2>13, <2>14, <2>d, Zenon
       DEF Next, CallRunPulse, ScheduledStep, vars
<1>3. Spec => []SchedTypeOK
  BY RuntimeImplementsScheduler, SchedTyping DEF RuntimeKeepsScheduler
<1> QED
  BY <1>1, <1>2, <1>3, PTL DEF Spec

-------------------------------------------------------------------------------
\* PulseOrder by itself is not inductive: a writer stamps the index it reads
\* now, so nothing already in the log may be ahead of that index.
Stamped ==
    \A i \in DOMAIN log : log[i].kind # "simulation_started" => log[i].pulse <= pulseIndex

OrderInv == PulseOrder /\ Stamped

\* The pulse index never goes back.
LEMMA IndexAdvances ==
  ASSUME SchedTypeOK, [SchedNext]_schedVars
  PROVE  pulseIndex' >= pulseIndex
<1> USE DEF SchedTypeOK
<1>1. ASSUME NEW e \in Execs, PulseStep(e)
      PROVE  pulseIndex' = pulseIndex \/ pulseIndex' = pulseIndex + 1
  BY <1>1, Zenon DEF PulseStep, LoadContext, EndTurns, FinishPulse, FailPulse, Settle
<1>2. ASSUME SchedStart \/ SchedStop \/ RunPulse \/ TimerFires \/ Continue
      PROVE  pulseIndex' = pulseIndex
  BY <1>2, Zenon DEF SchedStart, SchedStop, RunPulse, TimerFires, Continue
<1>3. ASSUME UNCHANGED schedVars PROVE pulseIndex' = pulseIndex
  BY <1>3, Zenon DEF schedVars
<1>4. pulseIndex' = pulseIndex \/ pulseIndex' = pulseIndex + 1
  BY <1>1, <1>2, <1>3, Zenon DEF SchedNext
<1> QED
  BY <1>4, SMT

\* Any entry appended with the current index, and any simulation_started entry,
\* keeps the order of the log.
LEMMA AppendKeepsOrder ==
  ASSUME TypeOK, OrderInv, NEW x \in Entries,
         log' = Append(log, x), pulseIndex' = pulseIndex,
         x.kind # "simulation_started" => x.pulse = pulseIndex
  PROVE  OrderInv'
<1>1. log \in Seq(Entries) /\ pulseIndex \in Nat
  BY DEF TypeOK, SchedTypeOK, Entries
<1>2. /\ DOMAIN log' = 1 .. Len(log) + 1
      /\ DOMAIN log = 1 .. Len(log)
      /\ Len(log) \in Nat
      /\ \A i \in 1 .. Len(log) : log'[i] = log[i]
      /\ log'[Len(log) + 1] = x
  BY <1>1, LogAppended
<1>3. \A i \in DOMAIN log' : i \in DOMAIN log \/ i = Len(log) + 1
  BY <1>2, SMT
<1>4. \A i \in DOMAIN log : log[i].pulse \in Nat
  <2>1. \A i \in DOMAIN log : log[i] \in Entries
    BY <1>1, SMT
  <2> QED
    BY <2>1 DEF Entries
<1>5. Stamped'
  <2> SUFFICES ASSUME NEW i \in DOMAIN log', log'[i].kind # "simulation_started"
               PROVE  log'[i].pulse <= pulseIndex
    BY DEF Stamped
  <2>1. CASE i \in DOMAIN log
    BY <2>1, <1>2 DEF OrderInv, Stamped
  <2>2. CASE i = Len(log) + 1
    <3>1. log'[i].pulse = pulseIndex
      BY <2>2, <1>2
    <3> QED
      BY <3>1, <1>1, SMT
  <2> QED
    BY <1>3, <2>1, <2>2
<1>6. PulseOrder'
  <2> SUFFICES ASSUME NEW i \in DOMAIN log', NEW j \in DOMAIN log', i < j,
                      log'[i].kind # "simulation_started",
                      log'[j].kind # "simulation_started"
               PROVE  log'[i].pulse <= log'[j].pulse
    BY DEF PulseOrder
  <2>1. i \in DOMAIN log
    BY <1>2, SMT
  <2>2. CASE j \in DOMAIN log
    BY <2>1, <2>2, <1>2 DEF OrderInv, PulseOrder
  <2>3. CASE j = Len(log) + 1
    <3>1. log'[j].pulse = pulseIndex
      BY <2>3, <1>2
    <3>2. log[i].pulse <= pulseIndex
      BY <2>1, <1>2 DEF OrderInv, Stamped
    <3> QED
      BY <3>1, <3>2, <2>1, <1>2
  <2> QED
    BY <1>3, <2>2, <2>3
<1> QED
  BY <1>5, <1>6 DEF OrderInv

\* A step that writes nothing keeps the order while the index does not go back.
LEMMA IndexKeepsOrder ==
  ASSUME TypeOK, OrderInv, log' = log, pulseIndex' >= pulseIndex, pulseIndex' \in Nat
  PROVE  OrderInv'
<1>1. pulseIndex \in Nat /\ \A i \in DOMAIN log : log[i].pulse \in Nat
  <2>1. log \in Seq(Entries) /\ pulseIndex \in Nat
    BY DEF TypeOK, SchedTypeOK, Entries
  <2>2. \A i \in DOMAIN log : log[i] \in Entries
    BY <2>1, SMT
  <2> QED
    BY <2>1, <2>2 DEF Entries
<1>2. PulseOrder'
  BY DEF OrderInv, PulseOrder
<1>3. Stamped'
  BY <1>1 DEF OrderInv, Stamped
<1> QED
  BY <1>2, <1>3 DEF OrderInv

\* The committed log is in pulse order, whoever writes it and whatever fails.
THEOREM RuntimePulseOrder == Spec => []PulseOrder
<1>1. Init => OrderInv
  BY DEF Init, OrderInv, PulseOrder, Stamped
<1>2. TypeOK /\ TypeOK' /\ OrderInv /\ [Next]_vars => OrderInv'
  <2> SUFFICES ASSUME TypeOK, TypeOK', OrderInv, [Next]_vars PROVE OrderInv'
    OBVIOUS
  <2>1. SchedTypeOK /\ pulseIndex \in Nat /\ pulseIndex' \in Nat
    BY DEF TypeOK, SchedTypeOK
  <2>2. pulseIndex' >= pulseIndex
    BY <2>1, RuntimeStepIsSchedulerStep, IndexAdvances
  <2>3. log' = log => OrderInv'
    BY <2>1, <2>2, IndexKeepsOrder
  <2>4. ASSUME NEW kind \in Kinds, log' = Append(log, Entry(kind, pulseIndex)),
               UNCHANGED schedVars
        PROVE  OrderInv'
    <3>1. /\ Entry(kind, pulseIndex) \in Entries
          /\ Entry(kind, pulseIndex).pulse = pulseIndex
      BY <2>1 DEF Entry, Entries
    <3>2. pulseIndex' = pulseIndex
      BY <2>4 DEF schedVars
    <3> QED
      BY <2>4, <3>1, <3>2, AppendKeepsOrder
  <2>5. ASSUME NEW c \in Callers, StartLog(c) PROVE OrderInv'
    <3>1. /\ Entry("simulation_started", 0) \in Entries
          /\ Entry("simulation_started", 0).kind = "simulation_started"
      BY DEF Entry, Entries, Kinds
    <3>2. pulseIndex' = pulseIndex /\ log' = Append(log, Entry("simulation_started", 0))
      BY <2>5 DEF StartLog, schedVars
    <3> QED
      BY <3>1, <3>2, AppendKeepsOrder
  <2>6. {"event", "simulation_paused", "simulation_stopped"} \subseteq Kinds
    BY DEF Kinds
  <2>7. ASSUME NEW c \in Callers, Operation(c) PROVE OrderInv'
    BY <2>7, <2>3, <2>4, <2>5, <2>6, Zenon
       DEF Operation, StartCall, StartStatus, StartArm, PauseCall, PauseLog, StopCall,
           StopBody, OperationFails
  <2>8. ASSUME NEW c \in AllCallers, StopStep(c) PROVE OrderInv'
    BY <2>8, <2>3, <2>4, <2>6, Zenon DEF StopStep, StopLog, StopNotify, StopDelete, NotifyFails
  <2>9. ASSUME NEW e \in Execs, Commit(e) \/ EndOffered(e) PROVE OrderInv'
    BY <2>9, <2>3, <2>4, <2>6, Zenon DEF Commit, EndOffered, StopBody
  <2> QED
    BY <2>3, <2>7, <2>8, <2>9, Zenon
       DEF Next, OperationFails, CallRunPulse, ScheduledStep, EndPulse, vars
<1> QED
  BY <1>1, <1>2, RuntimeTyping, PTL DEF Spec, OrderInv

-------------------------------------------------------------------------------
\* The command line's use: one start(), and pulses only of the timer.
StartedByCommandLine == MaxStarts <= 1 /\ "runPulse" \notin Ops

Starting(c) == calls[c] \in {"start.status", "start.log", "start.arm"}

\* start() has not yet handed the runtime its first chain.
Unstarted == used["starts"] = 0 \/ \E c \in Callers : Starting(c)

\* Until it does nothing moves in the runtime, and no pulse has committed.
Untouched ==
    /\ ~running /\ ~timerArmed
    /\ waiters = 0 /\ continuations = 0
    /\ \A e \in Execs : phase[e] = "idle"
    /\ calls[Scheduler] = "idle"
    /\ \A i \in DOMAIN log : log[i].kind # "event"

\* From then on its chain is the only one.
OneChain ==
    /\ orphans = 0
    /\ waiters + continuations <= 1
    /\ timerArmed => running /\ waiters + continuations = 0

SingleStart ==
    /\ \A c \in AllCallers : Starting(c) => c \in Callers /\ used["starts"] = 1
    /\ \A c, d \in Callers : Starting(c) /\ Starting(d) => c = d
    /\ used["starts"] <= 1

StartInv == SingleStart /\ (Unstarted => Untouched) /\ OneChain

\* start() is entered by StartCall alone; the bound counts it.
LEMMA OnlyStartCallStarts ==
  ASSUME TypeOK, [Next]_vars
  PROVE  \/ \E c \in Callers : StartCall(c)
         \/ /\ used'["starts"] = used["starts"]
            /\ \A c \in AllCallers : (Starting(c))' => Starting(c)
<1> DEFINE Kept == /\ used'["starts"] = used["starts"]
                   /\ \A c \in AllCallers : (Starting(c))' => Starting(c)
<1>a. used \in [Counters -> Nat] /\ calls \in [AllCallers -> Resumes]
  BY DEF TypeOK
<1>b. Callers \subseteq AllCallers /\ Scheduler \in AllCallers
  BY DEF AllCallers
<1>c. ASSUME NEW k \in Counters, k # "starts", NEW bound, Use(k, bound)
      PROVE  used'["starts"] = used["starts"]
  BY <1>a, <1>c DEF Use, Counters
<1>d. ASSUME NEW c \in AllCallers, NEW from, NEW to, Resume(c, from, to),
             to \in {"start.status", "start.log", "start.arm"}
                 => from \in {"start.status", "start.log", "start.arm"}
      PROVE  \A d \in AllCallers : (Starting(d))' => Starting(d)
  BY <1>a, <1>d DEF Resume, Starting
<1>e. {"stops", "commits", "failures"} \subseteq Counters \ {"starts"}
  BY DEF Counters
<1>f. UNCHANGED <<calls, used>> => Kept
  BY DEF Starting
<1>g. \A c \in AllCallers : Done(c) \notin {"start.status", "start.log", "start.arm"}
  BY DEF Done
<1> HIDE DEF Kept
<1>1. ASSUME NEW c \in Callers, StartStatus(c) \/ StartLog(c) \/ StartArm(c) \/ PauseLog(c)
      PROVE  Kept
  <2>1. UNCHANGED used
    BY <1>1, Zenon DEF StartStatus, StartLog, StartArm, PauseLog
  <2>2. \A d \in AllCallers : (Starting(d))' => Starting(d)
    BY <1>1, <1>b, <1>d DEF StartStatus, StartLog, StartArm, PauseLog
  <2> QED
    BY <2>1, <2>2, Zenon DEF Kept
<1>2. ASSUME NEW c \in Callers, PauseCall(c) PROVE Kept
  <2>1. used'["starts"] = used["starts"]
    BY <1>2, <1>c, <1>e DEF PauseCall
  <2>2. \A d \in AllCallers : (Starting(d))' => Starting(d)
    BY <1>2, <1>b, <1>d DEF PauseCall
  <2> QED
    BY <2>1, <2>2, Zenon DEF Kept
<1>3. ASSUME NEW c \in AllCallers, StopBody(c), Use("stops", MaxStops) PROVE Kept
  <2>1. used'["starts"] = used["starts"]
    BY <1>3, <1>c, <1>e
  <2>2. \A d \in AllCallers : (Starting(d))' => Starting(d)
    BY <1>3, <1>d DEF StopBody
  <2> QED
    BY <2>1, <2>2, Zenon DEF Kept
<1>4. ASSUME NEW c \in AllCallers, StopLog(c) \/ StopNotify(c) \/ StopDelete(c)
      PROVE  Kept
  <2>1. UNCHANGED used
    BY <1>4, Zenon DEF StopLog, StopNotify, StopDelete
  <2>2. \A d \in AllCallers : (Starting(d))' => Starting(d)
    BY <1>4, <1>d, <1>g DEF StopLog, StopNotify, StopDelete
  <2> QED
    BY <2>1, <2>2, Zenon DEF Kept
<1>5. ASSUME NEW c \in AllCallers, OperationFails(c) \/ NotifyFails(c) PROVE Kept
  <2>1. used'["starts"] = used["starts"]
    BY <1>5, <1>c, <1>e DEF OperationFails, NotifyFails
  <2>2. \A d \in AllCallers : (Starting(d))' => Starting(d)
    BY <1>5, <1>d, <1>g DEF OperationFails, NotifyFails
  <2> QED
    BY <2>1, <2>2, Zenon DEF Kept
<1>6. ASSUME NEW e \in Execs, Commit(e) PROVE Kept
  <2>1. used'["starts"] = used["starts"]
    BY <1>6, <1>c, <1>e DEF Commit
  <2> QED
    BY <1>6, <2>1 DEF Kept, Commit, Starting
<1>7. ASSUME EndPulse PROVE Kept
  <2>1. used' = used /\ calls' = [calls EXCEPT ![Scheduler] = "idle"]
    BY <1>7, Zenon DEF EndPulse
  <2> QED
    BY <2>1, <1>a DEF Kept, Starting
<1>8. ASSUME NEW c \in Callers, Operation(c) PROVE StartCall(c) \/ Kept
  BY <1>8, <1>b, <1>1, <1>2, <1>3, <1>5, Zenon DEF Operation, StopCall
<1>9. ASSUME NEW c \in AllCallers, StopStep(c) PROVE Kept
  BY <1>9, <1>4, <1>5, Zenon DEF StopStep
<1>10. ASSUME NEW e \in Execs, EndOffered(e) PROVE Kept
  BY <1>10, <1>b, <1>3, Zenon DEF EndOffered
<1> QED
  BY <1>b, <1>f, <1>5, <1>6, <1>7, <1>8, <1>9, <1>10, Zenon
     DEF Next, CallRunPulse, ScheduledStep, vars, Kept

LEMMA SingleStartKept ==
  ASSUME StartedByCommandLine, TypeOK, SingleStart, [Next]_vars
  PROVE  SingleStart'
<1>a. used \in [Counters -> Nat] /\ calls \in [AllCallers -> Resumes]
  BY DEF TypeOK
<1>b. Callers \subseteq AllCallers /\ Scheduler \notin Callers
  BY CallersAssumption DEF AllCallers
<1>c. MaxStarts \in Nat
  BY CallersAssumption
<1>1. ASSUME NEW c \in Callers, StartCall(c) PROVE SingleStart'
  <2>1. used["starts"] < MaxStarts /\ used' = [used EXCEPT !["starts"] = @ + 1]
    BY <1>1 DEF StartCall, Use
  <2>2. used["starts"] = 0 /\ used'["starts"] = 1
    BY <2>1, <1>a, <1>c DEF Counters, StartedByCommandLine
  <2>3. \A d \in AllCallers : ~Starting(d)
    BY <2>2 DEF SingleStart
  <2>4. calls' = [calls EXCEPT ![c] = "start.status"]
    BY <1>1 DEF StartCall, Resume
  <2>5. \A d \in AllCallers : (Starting(d))' => d = c
    BY <2>3, <2>4, <1>a, <1>b DEF Starting
  <2> QED
    BY <2>2, <2>5, <1>b DEF SingleStart
<1>2. ASSUME used'["starts"] = used["starts"],
             \A c \in AllCallers : (Starting(c))' => Starting(c)
      PROVE  SingleStart'
  BY <1>2, <1>b DEF SingleStart
<1> QED
  BY <1>1, <1>2, OnlyStartCallStarts

\* A start that is over, or the call of it, does not become unstarted again.
LEMMA UnstartedBefore ==
  ASSUME StartedByCommandLine, TypeOK, [Next]_vars, SingleStart, Unstarted'
  PROVE  Unstarted /\ ~ \E c \in Callers : StartArm(c)
<1>a. used \in [Counters -> Nat] /\ calls \in [AllCallers -> Resumes]
  BY DEF TypeOK
<1>b. Callers \subseteq AllCallers
  BY DEF AllCallers
<1>1. CASE \E c \in Callers : StartCall(c)
  <2>1. PICK c \in Callers : StartCall(c)
    BY <1>1
  <2>2. used["starts"] < MaxStarts /\ used'["starts"] = used["starts"] + 1
    BY <2>1, <1>a DEF StartCall, Use, Counters
  <2>3. MaxStarts \in Nat
    BY CallersAssumption
  <2>4. used["starts"] = 0
    BY <1>a, <2>2, <2>3 DEF StartedByCommandLine, Counters
  <2>5. ASSUME NEW d \in Callers, StartArm(d) PROVE FALSE
    <3>1. UNCHANGED used
      BY <2>5, Zenon DEF StartArm
    <3> QED
      BY <3>1, <2>2, <1>a DEF Counters
  <2> QED
    BY <2>4, <2>5 DEF Unstarted
<1>2. CASE /\ used'["starts"] = used["starts"]
           /\ \A c \in AllCallers : (Starting(c))' => Starting(c)
  <2>1. Unstarted
    BY <1>2, <1>b DEF Unstarted
  <2>2. ASSUME NEW c \in Callers, StartArm(c) PROVE FALSE
    <3>1. calls[c] = "start.arm" /\ calls' = [calls EXCEPT ![c] = "idle"]
      BY <2>2 DEF StartArm, Resume
    <3>2. used["starts"] = 1 /\ Starting(c)
      BY <3>1, <1>b DEF SingleStart, Starting
    <3>3. PICK d \in Callers : (Starting(d))'
      BY <3>2, <1>2 DEF Unstarted
    <3>4. d = c
      BY <3>3, <3>2, <1>2, <1>b DEF SingleStart
    <3> QED
      BY <3>1, <3>3, <3>4, <1>a, <1>b DEF Starting
  <2> QED
    BY <2>1, <2>2
<1> QED
  BY <1>1, <1>2, OnlyStartCallStarts

\* Before start() hands over the chain nothing can happen but the user's own
\* operations, none of which touches what Untouched speaks of.
LEMMA UntouchedKept ==
  ASSUME StartedByCommandLine, TypeOK, Untouched, orphans = 0, [Next]_vars,
         ~ \E c \in Callers : StartArm(c)
  PROVE  Untouched'
<1> USE DEF Untouched
<1>a. /\ calls \in [AllCallers -> Resumes] /\ phase \in [Execs -> Phases]
      /\ log \in Seq(Entries) /\ orphans \in Nat /\ pulseIndex \in Nat
  BY DEF TypeOK, SchedTypeOK, Entries
<1>b. Scheduler \notin Callers
  BY CallersAssumption
<1>c. ASSUME NEW c \in Callers, NEW from, NEW to, Resume(c, from, to)
      PROVE  calls'[Scheduler] = "idle"
  BY <1>a, <1>b, <1>c DEF Resume, AllCallers
<1>d. ASSUME NEW from, NEW to, from # "idle", Resume(Scheduler, from, to) PROVE FALSE
  BY <1>d DEF Resume
<1>e. ASSUME NEW kind \in Kinds, kind # "event", NEW n \in Nat, log' = Append(log, Entry(kind, n))
      PROVE  \A i \in DOMAIN log' : log'[i].kind # "event"
  <2>1. Entry(kind, n) \in Entries /\ Entry(kind, n).kind = kind
    BY DEF Entry, Entries
  <2>2. \A i \in DOMAIN log' : i \in DOMAIN log \/ i = Len(log) + 1
    BY <1>a, <1>e, <2>1, LogAppended
  <2> QED
    BY <1>a, <1>e, <2>1, <2>2, LogAppended
<1>f. {"simulation_started", "simulation_paused", "simulation_stopped"} \subseteq Kinds
      /\ 0 \in Nat
  BY DEF Kinds
<1>1. ASSUME NEW c \in Callers, StartCall(c) \/ StartStatus(c) \/ OperationFails(c)
                                \/ StopNotify(c) \/ StopDelete(c) \/ NotifyFails(c)
      PROVE  Untouched'
  <2>1. UNCHANGED schedVars /\ log' = log
    BY <1>1, Zenon DEF StartCall, StartStatus, OperationFails, StopNotify, StopDelete, NotifyFails
  <2>2. calls'[Scheduler] = "idle"
    BY <1>1, <1>c, Zenon
       DEF StartCall, StartStatus, OperationFails, StopNotify, StopDelete, NotifyFails
  <2> QED
    BY <2>1, <2>2 DEF schedVars
<1>2. ASSUME NEW c \in Callers, StartLog(c) \/ PauseLog(c) \/ StopLog(c) PROVE Untouched'
  <2>1. UNCHANGED schedVars
    BY <1>2, Zenon DEF StartLog, PauseLog, StopLog
  <2>2. calls'[Scheduler] = "idle"
    BY <1>2, <1>c, Zenon DEF StartLog, PauseLog, StopLog
  <2>3. \A i \in DOMAIN log' : log'[i].kind # "event"
    BY <1>2, <1>a, <1>e, <1>f DEF StartLog, PauseLog, StopLog
  <2> QED
    BY <2>1, <2>2, <2>3 DEF schedVars
<1>3. ASSUME NEW c \in Callers, PauseCall(c) \/ StopCall(c) PROVE Untouched'
  <2>1. SchedStop /\ log' = log
    BY <1>3, Zenon DEF PauseCall, StopCall, StopBody
  <2>2. calls'[Scheduler] = "idle"
    BY <1>3, <1>c, Zenon DEF PauseCall, StopCall, StopBody
  <2> QED
    BY <2>1, <2>2 DEF SchedStop
<1>4. ASSUME StopStep(Scheduler) \/ OperationFails(Scheduler) PROVE FALSE
  BY <1>4, <1>d DEF StopStep, StopLog, StopNotify, StopDelete, NotifyFails, OperationFails
<1>5. ASSUME NEW e \in Execs, Commit(e) \/ EndOffered(e) PROVE FALSE
  BY <1>5 DEF Commit, EndOffered
<1>6. ASSUME CallRunPulse PROVE FALSE
  BY <1>6 DEF CallRunPulse, StartedByCommandLine
<1>7. ASSUME EndPulse PROVE FALSE
  BY <1>7 DEF EndPulse, FinishPulse, MovePhase
<1>8. ASSUME Continue PROVE FALSE
  BY <1>8 DEF Continue
<1>9. ASSUME NEW e \in Execs, LoadContext(e) \/ EndTurns(e) \/ FailPulse(e) \/ Settle(e)
      PROVE FALSE
  BY <1>9 DEF LoadContext, EndTurns, FailPulse, Settle, MovePhase
<1>13. ASSUME TimerFires PROVE FALSE
  BY <1>13 DEF TimerFires
<1>10. ASSUME NEW c \in Callers, Operation(c) PROVE Untouched'
  BY <1>10, <1>1, <1>2, <1>3, Zenon DEF Operation
<1>11. ASSUME NEW c \in AllCallers, StopStep(c) PROVE Untouched'
  BY <1>11, <1>1, <1>2, <1>4, Zenon DEF StopStep, AllCallers
<1>12. ASSUME UNCHANGED vars PROVE Untouched'
  BY <1>12 DEF vars
<1> QED
  BY <1>4, <1>5, <1>6, <1>7, <1>8, <1>9, <1>10, <1>11, <1>12, <1>13, Zenon
     DEF Next, ScheduledStep

\* The one chain is handed from timer to pulse to continuation; a stop() clears
\* its timer or finds it in a pulse, after which it ends.
LEMMA OneChainKept ==
  ASSUME StartedByCommandLine, TypeOK, OneChain, Unstarted => Untouched, [Next]_vars
  PROVE  OneChain'
<1> USE DEF OneChain
<1>a. /\ running \in BOOLEAN /\ timerArmed \in BOOLEAN
      /\ waiters \in Nat /\ continuations \in Nat
  BY DEF TypeOK, SchedTypeOK
<1>1. ASSUME NEW c \in Callers, StartArm(c) PROVE OneChain'
  <2>1. Untouched
    BY <1>1 DEF StartArm, Resume, Unstarted, Starting
  <2>2. SchedStart
    BY <1>1 DEF StartArm
  <2>3. running' = TRUE /\ orphans' = 0 /\ waiters' = 0 /\ continuations' = 0
    BY <2>1, <2>2 DEF SchedStart, ScheduleNext, Untouched
  <2> QED
    BY <2>3
<1>2. ASSUME SchedStop PROVE OneChain'
  BY <1>2, <1>a DEF SchedStop
<1>3. ASSUME TimerFires PROVE OneChain'
  <2>1. timerArmed /\ timerArmed' = FALSE /\ orphans' = 0
    BY <1>3 DEF TimerFires
  <2>2. waiters' = waiters + 1 /\ continuations' = continuations
    BY <1>3 DEF TimerFires
  <2> QED
    BY <2>1, <2>2, <1>a
<1>4. ASSUME Continue PROVE OneChain'
  <2>1. continuations = 1 /\ waiters = 0 /\ ~timerArmed
    BY <1>4, <1>a DEF Continue
  <2>2. continuations' = 0 /\ waiters' = 0 /\ running' = running
    BY <1>4, <2>1 DEF Continue
  <2>3. orphans' = 0 /\ (timerArmed' => running)
    BY <1>4, <2>1 DEF Continue, ScheduleNext
  <2> QED
    BY <2>2, <2>3
<1>5. ASSUME NEW e \in Execs, PulseStep(e) PROVE OneChain'
  <2>1. UNCHANGED <<running, timerArmed, orphans>>
    BY <1>5, Zenon DEF PulseStep, LoadContext, EndTurns, FinishPulse, FailPulse, Settle
  <2>2. \/ waiters' = waiters /\ continuations' = continuations
        \/ waiters' = 0 /\ continuations' = continuations + waiters
    BY <1>5, Zenon DEF PulseStep, LoadContext, EndTurns, FinishPulse, FailPulse, Settle
  <2>3. waiters' + continuations' = waiters + continuations
    BY <2>2, <1>a
  <2> QED
    BY <2>1, <2>3
<1>6. UNCHANGED schedVars => OneChain'
  BY DEF schedVars
<1>7. ASSUME NEW c \in Callers, Operation(c) PROVE OneChain'
  BY <1>7, <1>1, <1>2, <1>6, Zenon
     DEF Operation, StartCall, StartStatus, StartLog, PauseCall, PauseLog, StopCall,
         OperationFails
<1>8. ASSUME NEW c \in AllCallers, StopStep(c) PROVE OneChain'
  BY <1>8, <1>6, Zenon DEF StopStep, StopLog, StopNotify, StopDelete, NotifyFails
<1>9. ASSUME NEW e \in Execs, Commit(e) \/ EndOffered(e) PROVE OneChain'
  BY <1>9, <1>2, <1>6, Zenon DEF Commit, EndOffered
<1>10. ASSUME ScheduledStep PROVE OneChain'
  BY <1>10, <1>3, <1>4, <1>5, Zenon DEF ScheduledStep, EndPulse, PulseStep
<1> QED
  BY <1>6, <1>7, <1>8, <1>9, <1>10, Zenon
     DEF Next, OperationFails, CallRunPulse, StartedByCommandLine, vars, schedVars

LEMMA StartInvInductive ==
  ASSUME StartedByCommandLine
  PROVE  /\ Init => StartInv
         /\ TypeOK /\ StartInv /\ [Next]_vars => StartInv'
<1>1. Init => StartInv
  BY DEF Init, SchedInit, StartInv, SingleStart, Starting, Unstarted, Untouched, OneChain,
         AllCallers, Counters
<1>2. ASSUME TypeOK, StartInv, [Next]_vars PROVE StartInv'
  <2>1. SingleStart' /\ OneChain'
    BY <1>2, SingleStartKept, OneChainKept DEF StartInv
  <2>2. Unstarted' => Untouched'
    BY <1>2, UnstartedBefore, UntouchedKept DEF StartInv, OneChain
  <2> QED
    BY <2>1, <2>2 DEF StartInv
<1> QED
  BY <1>1, <1>2

\* The runtime keeps to it as long as it is started once, whoever stops and
\* pauses it and whatever fails.
LEMMA StartInvHolds ==
  ASSUME StartedByCommandLine
  PROVE  Spec => []StartInv
BY StartInvInductive, RuntimeTyping, PTL DEF Spec

\* stop() and pause() leave no timer armed when the runtime is started once: no
\* start() can have overwritten this.timer.
THEOREM RuntimeStopClearsTimer ==
  ASSUME StartedByCommandLine
  PROVE  Spec => []StopClearsTimer
<1>1. StartInv => StopClearsTimer
  BY DEF StartInv, OneChain, StopClearsTimer
<1> QED
  BY <1>1, StartInvHolds, PTL

\* What begins a pulse is the callback of a timer, and a timer is only armed
\* while the scheduler runs.
LEMMA OnlyRunningBegins ==
  ASSUME StartedByCommandLine, StartInv, [Next]_vars, inFlight = NoPulse, inFlight' # NoPulse
  PROVE  running
<1>1. UNCHANGED inFlight \/ TimerFires \/ CallRunPulse
  <2>1. ASSUME NEW c \in Callers, Operation(c) PROVE UNCHANGED inFlight
    BY <2>1, Zenon
       DEF Operation, StartCall, StartStatus, StartLog, StartArm, PauseCall, PauseLog,
           StopCall, OperationFails, SchedStart, SchedStop, schedVars
  <2>2. ASSUME NEW c \in AllCallers, StopStep(c) PROVE UNCHANGED inFlight
    BY <2>2, Zenon DEF StopStep, StopLog, StopNotify, StopDelete, NotifyFails, schedVars
  <2>3. ASSUME NEW e \in Execs, Commit(e) \/ EndOffered(e) PROVE UNCHANGED inFlight
    BY <2>3, Zenon DEF Commit, EndOffered, SchedStop, schedVars
  <2>4. ASSUME NEW e \in Execs, Settle(e) PROVE inFlight' = NoPulse
    BY <2>4, Zenon DEF Settle
  <2>5. ASSUME ScheduledStep PROVE UNCHANGED inFlight \/ TimerFires
    BY <2>5, <2>4, Zenon
       DEF ScheduledStep, EndPulse, Continue, LoadContext, EndTurns, FinishPulse, FailPulse
  <2> QED
    BY <2>1, <2>2, <2>3, <2>5, Zenon DEF Next, OperationFails, schedVars, vars
<1>2. TimerFires => running
  BY DEF TimerFires, StartInv, OneChain
<1> QED
  BY <1>1, <1>2 DEF CallRunPulse, StartedByCommandLine

-------------------------------------------------------------------------------
\* One user, who starts once and does not pause: what the command line is.
OneUser ==
    /\ StartedByCommandLine
    /\ Ops \subseteq {"start", "stop"}
    /\ \A c, d \in Callers : c = d

Stopping(c) == calls[c] \in {"stop.log", "stop.notify", "stop.delete"}

\* The scheduler, the active map and the row agree while the scheduler runs: the
\* start that sets it going finds nobody stopping, and who stops the simulation
\* stops the scheduler first.
Agreeing ==
    /\ running => active /\ status = "running"
    /\ \A c \in Callers : Starting(c) => active
    /\ \A c \in Callers : calls[c] \in {"start.log", "start.arm"} => status = "running"
    /\ \A c \in AllCallers : Stopping(c) => ~running

LEMMA AgreeingStep ==
  ASSUME OneUser, TypeOK, StartInv, Agreeing, [Next]_vars
  PROVE  Agreeing'
<1>a. calls \in [AllCallers -> Resumes] /\ running \in BOOLEAN /\ active \in BOOLEAN
  BY DEF TypeOK, SchedTypeOK
<1>b. Callers \subseteq AllCallers /\ Scheduler \in AllCallers /\ Scheduler \notin Callers
  BY CallersAssumption DEF AllCallers
<1>c. \A c \in AllCallers : c \in Callers \/ c = Scheduler
  BY DEF AllCallers
<1>d. \A c, d \in Callers : c = d
  BY DEF OneUser
<1>e. \A c \in Callers : Starting(c) => /\ ~running /\ calls[Scheduler] = "idle"
                                       /\ \A e \in Execs : phase[e] = "idle"
  BY DEF StartInv, Unstarted, Untouched
<1>f. UNCHANGED <<running, active, status, calls>> => Agreeing'
  BY DEF Agreeing, Starting, Stopping
<1>1. ASSUME NEW c \in Callers, StartCall(c) PROVE Agreeing'
  <2>1. /\ active /\ UNCHANGED <<running, active, status>>
        /\ calls[c] = "idle" /\ calls' = [calls EXCEPT ![c] = "start.status"]
    BY <1>1 DEF StartCall, Resume, schedVars
  <2> QED
    BY <2>1, <1>a, <1>b, <1>d DEF Agreeing, Starting, Stopping
<1>2. ASSUME NEW c \in Callers, StartStatus(c) \/ StartLog(c) PROVE Agreeing'
  <2>1. /\ UNCHANGED <<running, active>> /\ Starting(c)
        /\ \/ status' = "running" /\ calls' = [calls EXCEPT ![c] = "start.log"]
           \/ /\ calls[c] = "start.log" /\ status' = status
              /\ calls' = [calls EXCEPT ![c] = "start.arm"]
    BY <1>2 DEF StartStatus, StartLog, Resume, schedVars, Starting
  <2>2. \A d \in AllCallers : (Starting(d))' => Starting(d)
    BY <2>1, <1>a DEF Starting
  <2>3. \A d \in AllCallers : (Stopping(d))' => Stopping(d)
    BY <2>1, <1>a DEF Stopping
  <2>4. status' = "running"
    BY <2>1 DEF Agreeing
  <2> QED
    BY <2>1, <2>2, <2>3, <2>4, <1>b, <1>e DEF Agreeing
<1>3. ASSUME NEW c \in Callers, StartArm(c) PROVE Agreeing'
  <2>1. /\ UNCHANGED <<active, status>> /\ running' = TRUE /\ Starting(c)
        /\ calls[c] = "start.arm" /\ calls' = [calls EXCEPT ![c] = "idle"]
    BY <1>3 DEF StartArm, Resume, SchedStart, Starting
  <2>2. active /\ status = "running"
    BY <2>1 DEF Agreeing
  <2>3. \A d \in AllCallers : calls'[d] = "idle"
    BY <2>1, <1>a, <1>b, <1>c, <1>d, <1>e
  <2> QED
    BY <2>1, <2>2, <2>3, <1>b DEF Agreeing, Starting, Stopping
<1>4. ASSUME NEW c \in AllCallers, StopBody(c), SchedStop,
             c = Scheduler => \E e \in Execs : phase[e] # "idle"
      PROVE  Agreeing'
  <2>1. /\ running' = FALSE
        /\ calls[c] = "idle" /\ calls' = [calls EXCEPT ![c] = "stop.log"]
    BY <1>4 DEF StopBody, SchedStop, Resume
  <2>2. \A d \in Callers : ~Starting(d)
    BY <1>4, <2>1, <1>b, <1>c, <1>d, <1>e DEF Starting
  <2>3. \A d \in Callers : ~(Starting(d))'
    BY <2>1, <2>2, <1>a, <1>b DEF Starting
  <2> QED
    BY <2>1, <2>3 DEF Agreeing, Starting
<1>5. ASSUME NEW c \in AllCallers,
             StopLog(c) \/ StopNotify(c) \/ StopDelete(c) \/ NotifyFails(c)
      PROVE  Agreeing'
  <2>1. /\ UNCHANGED <<running, status>> /\ Stopping(c)
        /\ \E to \in {"stop.notify", "stop.delete", Done(c)} : calls' = [calls EXCEPT ![c] = to]
    BY <1>5 DEF StopLog, StopNotify, StopDelete, NotifyFails, Resume, Stopping, schedVars
  <2>2. ~running
    BY <2>1 DEF Agreeing
  <2>3. \A d \in Callers : ~Starting(d)
    BY <2>1, <1>c, <1>d, <1>e DEF Starting, Stopping
  <2>4. \A d \in Callers : ~(Starting(d))'
    BY <2>1, <2>3, <1>a, <1>b DEF Starting, Done
  <2> QED
    BY <2>1, <2>2, <2>4 DEF Agreeing, Starting
<1>6. ASSUME NEW c \in AllCallers, OperationFails(c) PROVE Agreeing'
  <2>1. /\ UNCHANGED <<running, active, status>>
        /\ calls' = [calls EXCEPT ![c] = Done(c)] /\ Done(c) \in {"idle", "offered"}
    BY <1>6 DEF OperationFails, Resume, schedVars, Done
  <2>2. \A d \in AllCallers : calls'[d] = calls[d] \/ calls'[d] \in {"idle", "offered"}
    BY <2>1, <1>a
  <2> QED
    BY <2>1, <2>2, <1>b DEF Agreeing, Starting, Stopping
<1>7. ASSUME ScheduledStep PROVE Agreeing'
  <2>1. UNCHANGED <<running, active, status>>
    BY <1>7, Zenon DEF ScheduledStep, EndPulse, TimerFires, Continue, LoadContext, EndTurns,
       FinishPulse, FailPulse, Settle
  <2>2. calls' = calls \/ calls' = [calls EXCEPT ![Scheduler] = "idle"]
    BY <1>7, Zenon DEF ScheduledStep, EndPulse
  <2>3. \A d \in AllCallers : calls'[d] = calls[d] \/ calls'[d] = "idle"
    BY <2>2, <1>a
  <2> QED
    BY <2>1, <2>3, <1>b DEF Agreeing, Starting, Stopping
<1>8. ASSUME NEW c \in Callers, Operation(c) PROVE Agreeing'
  <2>1. ~PauseCall(c)
    BY DEF PauseCall, OneUser
  <2>2. PauseLog(c) => UNCHANGED <<running, active, status>> /\ calls' = [calls EXCEPT ![c] = "idle"]
    BY DEF PauseLog, Resume, schedVars
  <2>3. PauseLog(c) => Agreeing'
    <3> SUFFICES ASSUME PauseLog(c) PROVE Agreeing'
      OBVIOUS
    <3>1. \A d \in AllCallers : calls'[d] = calls[d] \/ calls'[d] = "idle"
      BY <2>2, <1>a
    <3> QED
      BY <2>2, <3>1, <1>b DEF Agreeing, Starting, Stopping
  <2>4. StopCall(c) => Agreeing'
    BY <1>4, <1>b, Zenon DEF StopCall
  <2> QED
    BY <1>8, <2>1, <2>3, <2>4, <1>1, <1>2, <1>3, <1>6, <1>b, Zenon DEF Operation
<1>9. ASSUME NEW c \in AllCallers, StopStep(c) PROVE Agreeing'
  BY <1>9, <1>5, Zenon DEF StopStep
<1>10. ASSUME NEW e \in Execs, EndOffered(e) PROVE Agreeing'
  <2>1. phase[e] # "idle"
    BY <1>10 DEF EndOffered
  <2> QED
    BY <2>1, <1>10, <1>4, <1>b, Zenon DEF EndOffered
<1>11. ASSUME NEW e \in Execs, Commit(e) PROVE Agreeing'
  BY <1>11, <1>f DEF Commit, schedVars
<1>12. CallRunPulse => Agreeing'
  BY DEF CallRunPulse, OneUser, StartedByCommandLine
<1>13. UNCHANGED vars => Agreeing'
  BY <1>f DEF vars
<1> QED
  BY <1>b, <1>6, <1>7, <1>8, <1>9, <1>10, <1>11, <1>12, <1>13, Zenon DEF Next

\* For the one user no pulse begins in a simulation that is stopped, is being
\* stopped, or is gone from the active map: the ending offer's stop(), made from
\* inside a pulse, and the user's own may overlap at their awaits and may fail.
THEOREM RuntimeNoPulseAfterStop ==
  ASSUME OneUser
  PROVE  Spec => NoPulseAfterStop
<1>0. StartedByCommandLine
  BY DEF OneUser
<1>1. Init => Agreeing
  BY DEF Init, SchedInit, Agreeing, Starting, Stopping, AllCallers
<1>2. TypeOK /\ StartInv /\ Agreeing /\ [Next]_vars => Agreeing'
  BY AgreeingStep
<1>3. ASSUME StartInv, Agreeing, [Next]_vars
      PROVE  [(inFlight = NoPulse /\ inFlight' # NoPulse) =>
                 running /\ active /\ status = "running"]_vars
  BY <1>0, <1>3, OnlyRunningBegins DEF Agreeing
<1> QED
  BY <1>0, <1>1, <1>2, <1>3, StartInvHolds, RuntimeTyping, PTL DEF Spec, NoPulseAfterStop

StoppedAt(i) == log[i].kind = "simulation_stopped"

\* What is in the log of a simulation that is stopped or stopping ...
StoppedInLog ==
    /\ status # "stopped" => (\A i \in DOMAIN log : ~StoppedAt(i))
                             /\ \A c \in AllCallers : ~Stopping(c)
    /\ status = "stopped" => \/ \E i \in DOMAIN log : StoppedAt(i)
                             \/ \E c \in AllCallers : calls[c] = "stop.log"
    /\ status = "stopped" => ~active \/ \E c \in AllCallers : Stopping(c)
    /\ \A i, j \in DOMAIN log : i < j /\ StoppedAt(i) => log[j].kind # "simulation_started"

\* ... and of one that has not been started.
StartedInLog ==
    /\ status = "initializing" => \A i \in DOMAIN log : log[i].kind = "event"
    /\ \A c \in Callers : Starting(c) => status # "stopped"
    /\ \A c \in Callers : calls[c] = "start.log" => status = "running"

NeverPaused ==
    /\ status # "paused"
    /\ \A i \in DOMAIN log : log[i].kind # "simulation_paused"
    /\ \A c \in AllCallers : calls[c] # "pause.log"

StatusInv == used["failures"] = 0 => StoppedInLog /\ StartedInLog /\ NeverPaused

\* A failure that has been counted stays counted.
LEMMA FailuresCounted ==
  ASSUME TypeOK, [Next]_vars, used'["failures"] = 0
  PROVE  /\ used["failures"] = 0
         /\ \A c \in AllCallers : ~OperationFails(c) /\ ~NotifyFails(c)
<1>a. used \in [Counters -> Nat]
  BY DEF TypeOK
<1>1. ASSUME NEW k \in Counters, NEW bound, Use(k, bound)
      PROVE  used["failures"] = 0 /\ k # "failures"
  BY <1>1, <1>a DEF Use, Counters
<1>2. Counters = {"starts", "stops", "commits", "failures"}
  BY DEF Counters
<1>3. \A c \in AllCallers : ~OperationFails(c) /\ ~NotifyFails(c)
  BY <1>1, <1>2 DEF OperationFails, NotifyFails
<1>4. Scheduler \in AllCallers
  BY DEF AllCallers
<1>5. ASSUME NEW c \in Callers, Operation(c) PROVE used["failures"] = 0
  BY <1>5, <1>1, <1>2, Zenon DEF Operation, StartCall, StartStatus, StartLog, StartArm,
     PauseCall, PauseLog, StopCall, OperationFails
<1>6. ASSUME NEW c \in AllCallers, StopStep(c) PROVE used["failures"] = 0
  BY <1>6, <1>1, <1>2, Zenon DEF StopStep, StopLog, StopNotify, StopDelete, NotifyFails
<1>7. ASSUME NEW e \in Execs, Commit(e) \/ EndOffered(e) PROVE used["failures"] = 0
  BY <1>7, <1>1, <1>2, Zenon DEF Commit, EndOffered
<1> QED
  BY <1>3, <1>4, <1>5, <1>6, <1>7, Zenon
     DEF Next, CallRunPulse, ScheduledStep, EndPulse, vars

\* What an append of the runtime does to the questions asked of the log.
LEMMA LogExtended ==
  ASSUME log \in Seq(Entries), NEW kind \in Kinds, NEW n \in Nat,
         log' = Append(log, Entry(kind, n))
  PROVE  /\ DOMAIN log' = 1 .. Len(log) + 1 /\ DOMAIN log = 1 .. Len(log) /\ Len(log) \in Nat
         /\ \A i \in DOMAIN log : i \in DOMAIN log' /\ log'[i] = log[i]
         /\ log'[Len(log) + 1].kind = kind
         /\ \A i \in DOMAIN log' : i \in DOMAIN log \/ i = Len(log) + 1
<1>1. Entry(kind, n) \in Entries /\ Entry(kind, n).kind = kind
  BY DEF Entry, Entries
<1>2. /\ DOMAIN log' = 1 .. Len(log) + 1 /\ DOMAIN log = 1 .. Len(log) /\ Len(log) \in Nat
      /\ \A i \in 1 .. Len(log) : log'[i] = log[i]
      /\ log'[Len(log) + 1] = Entry(kind, n)
  BY <1>1, LogAppended
<1> QED
  BY <1>1, <1>2

LEMMA StatusStep ==
  ASSUME OneUser, TypeOK, StartInv, [Next]_vars, used["failures"] = 0,
         StoppedInLog, StartedInLog, NeverPaused,
         \A c \in AllCallers : ~OperationFails(c) /\ ~NotifyFails(c)
  PROVE  (StoppedInLog /\ StartedInLog /\ NeverPaused)'
<1> DEFINE Goal == StoppedInLog /\ StartedInLog /\ NeverPaused
<1>a. /\ calls \in [AllCallers -> Resumes] /\ log \in Seq(Entries) /\ pulseIndex \in Nat
      /\ used \in [Counters -> Nat] /\ active \in BOOLEAN
      /\ status \in {"initializing", "running", "paused", "stopped"}
  BY DEF TypeOK, SchedTypeOK, Entries, Statuses
<1>b. Callers \subseteq AllCallers /\ Scheduler \in AllCallers /\ Scheduler \notin Callers
  BY CallersAssumption DEF AllCallers
<1>c. \A c \in AllCallers : c \in Callers \/ c = Scheduler
  BY DEF AllCallers
<1>d. \A c, d \in Callers : c = d
  BY DEF OneUser
<1>e. {"event", "simulation_started", "simulation_stopped"} \subseteq Kinds /\ 0 \in Nat
  BY DEF Kinds
<1>f. \A c \in Callers : Starting(c) => calls[Scheduler] = "idle" /\ \A e \in Execs : phase[e] = "idle"
  BY DEF StartInv, Unstarted, Untouched
<1>g. UNCHANGED <<active, status, log, calls>> => Goal'
  BY DEF StoppedInLog, StartedInLog, NeverPaused, Starting, Stopping, StoppedAt
<1> HIDE DEF Goal
<1>1. ASSUME NEW c \in Callers, StartCall(c) PROVE Goal'
  <2>1. /\ active /\ UNCHANGED <<active, status, log>>
        /\ calls[c] = "idle" /\ calls' = [calls EXCEPT ![c] = "start.status"]
    BY <1>1 DEF StartCall, Resume
  <2>2. calls[Scheduler] = "idle"
    <3>1. used["starts"] < MaxStarts /\ MaxStarts \in Nat
      BY <1>1, CallersAssumption DEF StartCall, Use
    <3>2. used["starts"] = 0
      BY <3>1, <1>a DEF OneUser, StartedByCommandLine, Counters
    <3> QED
      BY <3>2 DEF StartInv, Unstarted, Untouched
  <2>3. \A d \in AllCallers : calls[d] = "idle"
    BY <2>1, <2>2, <1>c, <1>d
  <2>4. status # "stopped"
    BY <2>1, <2>3 DEF StoppedInLog, Stopping
  <2>5. \A d \in AllCallers : calls'[d] = "idle" \/ calls'[d] = "start.status"
    BY <2>1, <2>3, <1>a
  <2>6. StoppedInLog'
    BY <2>1, <2>4, <2>5 DEF StoppedInLog, Stopping, StoppedAt
  <2>7. StartedInLog' /\ NeverPaused'
    BY <2>1, <2>4, <2>5, <1>b DEF StartedInLog, NeverPaused, Starting
  <2> QED
    BY <2>6, <2>7 DEF Goal
<1>2. ASSUME NEW c \in Callers, StartStatus(c) PROVE Goal'
  <2>1. /\ status' = "running" /\ UNCHANGED <<active, log>>
        /\ calls[c] = "start.status" /\ calls' = [calls EXCEPT ![c] = "start.log"]
    BY <1>2 DEF StartStatus, Resume
  <2>2. status # "stopped"
    BY <2>1 DEF StartedInLog, Starting
  <2>3. StoppedInLog'
    BY <2>1, <2>2, <1>a DEF StoppedInLog, Stopping, StoppedAt
  <2>4. StartedInLog' /\ NeverPaused'
    BY <2>1, <1>a DEF StartedInLog, NeverPaused
  <2> QED
    BY <2>3, <2>4 DEF Goal
<1>3. ASSUME NEW c \in Callers, StartLog(c) PROVE Goal'
  <2>1. /\ log' = Append(log, Entry("simulation_started", 0)) /\ UNCHANGED <<active, status>>
        /\ calls[c] = "start.log" /\ calls' = [calls EXCEPT ![c] = "start.arm"]
    BY <1>3 DEF StartLog, Resume
  <2>2. status = "running"
    BY <2>1 DEF StartedInLog
  <2>3. /\ \A i \in DOMAIN log : i \in DOMAIN log' /\ log'[i] = log[i]
        /\ \A i \in DOMAIN log' : i \in DOMAIN log \/ log'[i].kind = "simulation_started"
    BY <2>1, <1>a, <1>e, LogExtended
  <2>4. \A i \in DOMAIN log' : log'[i].kind # "simulation_stopped"
    BY <2>2, <2>3 DEF StoppedInLog, StoppedAt
  <2>5. StoppedInLog'
    BY <2>1, <2>2, <2>4, <1>a DEF StoppedInLog, Stopping, StoppedAt
  <2>6. StartedInLog' /\ NeverPaused'
    BY <2>1, <2>2, <2>3, <1>a DEF StartedInLog, NeverPaused
  <2> QED
    BY <2>5, <2>6 DEF Goal
<1>4. ASSUME NEW c \in Callers, StartArm(c) PROVE Goal'
  <2>1. /\ UNCHANGED <<active, status, log>>
        /\ calls[c] = "start.arm" /\ calls' = [calls EXCEPT ![c] = "idle"]
    BY <1>4 DEF StartArm, Resume
  <2>2. StoppedInLog'
    BY <2>1, <1>a DEF StoppedInLog, Stopping, StoppedAt
  <2>3. StartedInLog' /\ NeverPaused'
    BY <2>1, <1>a DEF StartedInLog, NeverPaused, Starting
  <2> QED
    BY <2>2, <2>3 DEF Goal
<1>5. ASSUME NEW c \in AllCallers, StopBody(c), c = Scheduler => \E e \in Execs : phase[e] # "idle"
      PROVE  Goal'
  <2>1. /\ status' = "stopped" /\ UNCHANGED <<active, log>>
        /\ calls[c] = "idle" /\ calls' = [calls EXCEPT ![c] = "stop.log"]
    BY <1>5 DEF StopBody, Resume
  <2>2. calls'[c] = "stop.log"
    BY <2>1, <1>a
  <2>3. \A d \in Callers : ~(Starting(d))'
    BY <1>5, <2>1, <1>a, <1>b, <1>c, <1>d, <1>f DEF Starting
  <2>4. StoppedInLog'
    <3>1. \A i, j \in DOMAIN log : i < j /\ StoppedAt(i) => log[j].kind # "simulation_started"
      BY DEF StoppedInLog
    <3> QED
      BY <2>1, <2>2, <3>1 DEF StoppedInLog, Stopping, StoppedAt
  <2>5. StartedInLog' /\ NeverPaused'
    BY <2>1, <2>3, <1>a DEF StartedInLog, NeverPaused, Starting
  <2> QED
    BY <2>4, <2>5 DEF Goal
<1>6. ASSUME NEW c \in AllCallers, StopLog(c) PROVE Goal'
  <2>1. /\ log' = Append(log, Entry("simulation_stopped", pulseIndex)) /\ UNCHANGED <<active, status>>
        /\ calls[c] = "stop.log" /\ calls' = [calls EXCEPT ![c] = "stop.notify"]
    BY <1>6 DEF StopLog, Resume
  <2>2. status = "stopped"
    BY <2>1 DEF StoppedInLog, Stopping
  <2>3. /\ DOMAIN log' = 1 .. Len(log) + 1 /\ DOMAIN log = 1 .. Len(log) /\ Len(log) \in Nat
        /\ \A i \in DOMAIN log : i \in DOMAIN log' /\ log'[i] = log[i]
        /\ log'[Len(log) + 1].kind = "simulation_stopped"
        /\ \A i \in DOMAIN log' : i \in DOMAIN log \/ i = Len(log) + 1
    BY <2>1, <1>a, <1>e, LogExtended
  <2>4. \E i \in DOMAIN log' : log'[i].kind = "simulation_stopped"
    BY <2>3
  <2>5. ASSUME NEW i \in DOMAIN log', NEW j \in DOMAIN log', i < j,
               log'[i].kind = "simulation_stopped"
        PROVE  log'[j].kind # "simulation_started"
    <3>1. CASE j \in DOMAIN log
      <4>1. i \in DOMAIN log
        BY <3>1, <2>3, <2>5
      <4> QED
        BY <4>1, <3>1, <2>3, <2>5 DEF StoppedInLog, StoppedAt
    <3>2. CASE j = Len(log) + 1
      BY <3>2, <2>3
    <3> QED
      BY <3>1, <3>2, <2>3
  <2>6. calls'[c] = "stop.notify"
    BY <2>1, <1>a
  <2>7. StoppedInLog'
    BY <2>1, <2>2, <2>4, <2>5, <2>6 DEF StoppedInLog, Stopping, StoppedAt
  <2>8. \A d \in AllCallers : calls'[d] = calls[d] \/ calls'[d] = "stop.notify"
    BY <2>1, <1>a
  <2>9. StartedInLog'
    BY <2>1, <2>2, <2>8, <1>b DEF StartedInLog, Starting
  <2>10. NeverPaused'
    BY <2>1, <2>3, <2>8 DEF NeverPaused
  <2> QED
    BY <2>7, <2>9, <2>10 DEF Goal
<1>7. ASSUME NEW c \in AllCallers, StopNotify(c) \/ StopDelete(c) PROVE Goal'
  <2>1. /\ UNCHANGED <<status, log>>
        /\ \/ /\ calls[c] = "stop.notify" /\ active' = active
              /\ calls' = [calls EXCEPT ![c] = "stop.delete"]
           \/ /\ calls[c] = "stop.delete" /\ active' = FALSE
              /\ calls' = [calls EXCEPT ![c] = Done(c)]
    BY <1>7 DEF StopNotify, StopDelete, Resume
  <2>2. Done(c) \in {"idle", "offered"}
    BY DEF Done
  <2>3. status = "stopped"
    BY <2>1 DEF StoppedInLog, Stopping
  <2>4. \A d \in AllCallers : \/ calls'[d] = calls[d]
                              \/ d = c /\ calls'[d] \in {"stop.delete", "idle", "offered"}
    BY <2>1, <2>2, <1>a
  <2>5. ~active' \/ calls'[c] = "stop.delete"
    BY <2>1, <1>a
  <2>6. StoppedInLog'
    <3>1. (\E i \in DOMAIN log : StoppedAt(i)) \/ \E d \in AllCallers : calls'[d] = "stop.log"
      <4>1. CASE \E i \in DOMAIN log : StoppedAt(i)
        BY <4>1
      <4>2. ASSUME NEW d \in AllCallers, calls[d] = "stop.log"
            PROVE  calls'[d] = "stop.log"
        BY <4>2, <2>1, <2>4
      <4> QED
        BY <4>1, <4>2, <2>3 DEF StoppedInLog
    <3>2. \A i, j \in DOMAIN log : i < j /\ StoppedAt(i) => log[j].kind # "simulation_started"
      BY DEF StoppedInLog
    <3> QED
      BY <3>1, <3>2, <2>1, <2>3, <2>5 DEF StoppedInLog, Stopping, StoppedAt
  <2>7. StartedInLog'
    BY <2>1, <2>3, <2>4, <1>b DEF StartedInLog, Starting
  <2>8. NeverPaused'
    BY <2>1, <2>4 DEF NeverPaused
  <2> QED
    BY <2>6, <2>7, <2>8 DEF Goal
<1>8. ASSUME NEW e \in Execs, Commit(e) PROVE Goal'
  <2>1. log' = Append(log, Entry("event", pulseIndex)) /\ UNCHANGED <<active, status, calls>>
    BY <1>8 DEF Commit
  <2>2. /\ DOMAIN log' = 1 .. Len(log) + 1 /\ DOMAIN log = 1 .. Len(log) /\ Len(log) \in Nat
        /\ \A i \in DOMAIN log : i \in DOMAIN log' /\ log'[i] = log[i]
        /\ log'[Len(log) + 1].kind = "event"
        /\ \A i \in DOMAIN log' : i \in DOMAIN log \/ i = Len(log) + 1
    BY <2>1, <1>a, <1>e, LogExtended
  <2>3. \A i \in DOMAIN log' : log'[i].kind # "event" => i \in DOMAIN log /\ log'[i] = log[i]
    BY <2>2
  <2>4. StoppedInLog'
    BY <2>1, <2>2, <2>3 DEF StoppedInLog, Stopping, StoppedAt
  <2>5. StartedInLog' /\ NeverPaused'
    BY <2>1, <2>2, <2>3 DEF StartedInLog, NeverPaused, Starting
  <2> QED
    BY <2>4, <2>5 DEF Goal
<1>9. ASSUME EndPulse PROVE Goal'
  <2>1. /\ calls[Scheduler] \in {"idle", "offered"} /\ calls' = [calls EXCEPT ![Scheduler] = "idle"]
        /\ UNCHANGED <<active, status, log>>
    BY <1>9, Zenon DEF EndPulse
  <2>2. StoppedInLog'
    BY <2>1, <1>a DEF StoppedInLog, Stopping, StoppedAt
  <2>3. StartedInLog' /\ NeverPaused'
    BY <2>1, <1>a, <1>b DEF StartedInLog, NeverPaused, Starting
  <2> QED
    BY <2>2, <2>3 DEF Goal
<1>10. ASSUME NEW c \in Callers, Operation(c) PROVE Goal'
  <2>1. ~PauseCall(c)
    BY DEF PauseCall, OneUser
  <2>2. ~PauseLog(c)
    BY <1>b DEF PauseLog, Resume, NeverPaused
  <2>3. StopCall(c) => Goal'
    BY <1>5, <1>b, Zenon DEF StopCall
  <2> QED
    BY <1>10, <2>1, <2>2, <2>3, <1>1, <1>2, <1>3, <1>4, <1>b, Zenon DEF Operation
<1>11. ASSUME NEW c \in AllCallers, StopStep(c) PROVE Goal'
  BY <1>11, <1>6, <1>7, Zenon DEF StopStep
<1>12. ASSUME NEW e \in Execs, EndOffered(e) PROVE Goal'
  <2>1. phase[e] # "idle"
    BY <1>12 DEF EndOffered
  <2> QED
    BY <2>1, <1>12, <1>5, <1>b, Zenon DEF EndOffered
<1>13. Goal'
  BY <1>b, <1>g, <1>8, <1>9, <1>10, <1>11, <1>12, Zenon
     DEF Next, CallRunPulse, ScheduledStep, vars
<1> QED
  BY <1>13 DEF Goal

\* A bounded set of numbers has a largest element.
LEMMA LargestExists ==
  ASSUME NEW n \in Nat, NEW S \in SUBSET (1 .. n), S # {},
         NEW m, m = CHOOSE i \in S : \A j \in S : j <= i
  PROVE  m \in S /\ \A j \in S : j <= m
<1> DEFINE T == {n - i : i \in S}
<1>1. T # {} /\ T \subseteq Nat
  BY SMT
<1> HIDE DEF T
<1>2. PICK t \in T : \A u \in T : <<u, t>> \notin OpToRel(<, Nat)
  BY <1>1, WFMin, NatLessThanWellFounded, Zenon
<1>3. \A u \in T : ~(u < t)
  BY <1>1, <1>2 DEF OpToRel
<1>4. PICK i \in S : t = n - i
  BY DEF T
<1>5. \A j \in S : n - j \in T
  BY DEF T
<1>6. \A j \in S : j <= i
  BY <1>3, <1>4, <1>5, SMT
<1> QED
  BY <1>6

\* Between the operations of its one user the row's status is the one the
\* newest lifecycle event announces, unless an append failed: an ending offer
\* and the user's own stop() may overlap, and start() may not.
THEOREM RuntimeStatusMatchesLog ==
  ASSUME OneUser
  PROVE  Spec => []StatusMatchesLog
<1>1. Init => StatusInv
  <2> SUFFICES ASSUME Init PROVE StoppedInLog /\ StartedInLog /\ NeverPaused
    BY DEF StatusInv
  <2>1. \A c \in AllCallers : calls[c] = "idle"
    BY DEF Init
  <2>2. DOMAIN log = {} /\ status = "initializing"
    BY DEF Init
  <2>3. Callers \subseteq AllCallers
    BY DEF AllCallers
  <2> QED
    BY <2>1, <2>2, <2>3 DEF StoppedInLog, StartedInLog, NeverPaused, Starting, Stopping, StoppedAt
<1>2. TypeOK /\ StartInv /\ StatusInv /\ [Next]_vars => StatusInv'
  BY FailuresCounted, StatusStep, Zenon DEF StatusInv
<1>3. ASSUME TypeOK, StatusInv PROVE StatusMatchesLog
  <2> SUFFICES ASSUME Idle, used["failures"] = 0, Lifecycle # {},
                      NEW newest, newest = CHOOSE i \in Lifecycle : \A j \in Lifecycle : j <= i
               PROVE  log[newest].kind = CASE status = "running" -> "simulation_started"
                                           [] status = "paused"  -> "simulation_paused"
                                           [] OTHER              -> "simulation_stopped"
    BY DEF StatusMatchesLog
  <2>a. StoppedInLog /\ StartedInLog /\ NeverPaused
    BY <1>3 DEF StatusInv
  <2>b. log \in Seq(Entries) /\ status \in {"initializing", "running", "paused", "stopped"}
    BY <1>3 DEF TypeOK, Entries, Statuses
  <2>1. Lifecycle \subseteq 1 .. Len(log) /\ Len(log) \in Nat
    BY <2>b, SMT DEF Lifecycle
  <2>2. newest \in Lifecycle /\ \A j \in Lifecycle : j <= newest
    BY <2>1, LargestExists
  <2>3. newest \in DOMAIN log /\ log[newest].kind \in Kinds /\ log[newest].kind # "event"
    <3>1. \A i \in DOMAIN log : log[i] \in Entries
      BY <2>b, SMT
    <3> QED
      BY <2>2, <3>1 DEF Lifecycle, Entries
  <2>4. log[newest].kind \in {"simulation_started", "simulation_stopped"}
    BY <2>3, <2>a DEF NeverPaused, Kinds
  <2>5. CASE status = "running"
    BY <2>5, <2>3, <2>4, <2>a DEF StoppedInLog, StoppedAt
  <2>6. CASE status = "stopped"
    <3>1. PICK i \in DOMAIN log : StoppedAt(i)
      BY <2>6, <2>a DEF StoppedInLog, Idle
    <3>2. i \in Lifecycle
      BY <3>1 DEF StoppedAt, Lifecycle
    <3>3. i < newest \/ i = newest
      BY <2>1, <2>2, <3>2, SMT
    <3>4. log[newest].kind # "simulation_started"
      BY <3>1, <3>3, <2>3, <2>a DEF StoppedInLog, StoppedAt
    <3> QED
      BY <2>6, <2>4, <3>4
  <2>7. status # "initializing" /\ status # "paused"
    BY <2>3, <2>a DEF StartedInLog, NeverPaused
  <2> QED
    BY <2>5, <2>6, <2>7, <2>b
<1>4. StartedByCommandLine
  BY DEF OneUser
<1> QED
  BY <1>1, <1>2, <1>3, <1>4, StartInvHolds, RuntimeTyping, PTL DEF Spec
===============================================================================

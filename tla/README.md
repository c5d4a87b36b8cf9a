# Perfectman, specified

Perfectman simulates a chat server whose members are LLM agents. A runtime
advances a simulation in *pulses*; in a pulse each agent may act, what it does
is appended to an event log, and gateways deliver it: to Discord, to snapshots,
to a browser over server-sent events. This directory specifies in TLA+ the
parts of it that run concurrently, model-checks them with TLC and proves their
main theorems with TLAPS. Paths below are relative to the repository, and
`server/` abbreviates `packages/server/src/`.

`PROJECT.json` is the index: which definition models which lines (`map`), what
each run checks (`runs`), what it would take to break each property
(`mutants`), where the code is at risk (`hazards`), where code and documents
disagree (`findings`), and what is proved (`theorems`).

How to run, in this directory:

    tlc -workers 2 -config RuntimeAny.cfg MCSimulationRuntime.tla
    tlapm SimulationRuntimeProofs.tla

## 1. Inventory

The program is single-threaded JavaScript. A step of a process is the code
between two `await`s, and concurrency is what the other processes (timers,
HTTP requests, signals, sockets, gateway calls) do at the `await`.

| Component | State it keeps | Operations | Talks to |
|---|---|---|---|
| Pulse scheduler `server/simulation/pulse-scheduler.ts` | `running`, `timer`, `inFlight`, `pulseIndex`, event cursor | `start`, `stop`, `runPulse`, the timer's callback, `executePulse` | agents, resolver, world review, log; calls the runtime's `stop` through `onEndOffered` |
| Simulation runtime `server/simulation/simulation-runtime.ts` | map of active simulations; the row's status; lifecycle events in the log | `createSimulation`, `start`, `pause`, `stop`, `runPulse` | scheduler, repositories, gateways |
| Run controller and pulse loop `server/http/run/run-controller.ts`, `pulse-loop.ts` | the one live run: status, abort signal, `fatal`, handle, in-flight promise, manifest | `start`, `stop`, `run`, `teardown`; `runPulseLoop`, `drainInFlight` | HTTP routes, runtime, SSE hub, health watch, files |
| SSE hub `server/http/sse-hub.ts` | backlog, bootstrap state, `historyTruncated`, per-client queues | `publish`, `subscribe`, `flush`, `closeAll`, `resetBacklog` | run controller and SSE gateway publish; sockets drain or close |
| Discord rate limiter `server/discord/discord-rate-limiter.ts` | a queue per agent and channel, attempts, `notBefore` | `enqueue`, `flush`, `clear` | Discord gateway; Discord |
| Intent resolver, rate-limit gate, channel registry `server/simulation/` | channels, memberships, windows of charged actions | resolve an intent, deny, fall back, append and project | scheduler, log, channel repository |
| World review, goal registry `server/simulation/world/` | goals, offers, pending ending offer, delivered flag | review, accept, refuse, offer, rebuild from log | scheduler, log, runtime's `stop` |
| Event repositories `server/persistence/sqlite/event-repository.ts`, `server/simulation/in-memory-stores.ts` | the committed events | `append`, `getAfter`, `getCommittedThrough` | everyone |
| Perception: the window of a pulse, `packages/engine/src/visibility/`, `packages/engine/src/memory/get-new-events-since.ts` | `lastProcessedEventId` of each stored agent state | read the log once per pulse, filter, cut at the cursor, move it, store the state | log, agent-state repository, the engine's step |
| LLM budget `server/llm/llm-budget.ts` | sliding windows of calls and tokens | `canCall`, `getPriority`, `recordUsage` | agent's turn |
| Live frames `server/delivery/sse-delivery-gateway.ts`, `packages/web/src/api/useRunStream.ts` | cumulative revisions; the browser's fold | deliver, resume, reconnect | hub |

The other components (providers, prompts, parsing, projections, artifacts, the
engine's arithmetic, the evaluation harness, the interface) are listed in
`PROJECT.json` with what they do and why they are not modelled.

What is hard in this code, and therefore what the properties are about:

* *Interleaving at awaits.* A stop, a pause or a start while a pulse is in
  flight or another operation is half done; a pulse that stops its own
  simulation; a stop request or a health verdict at any await of a run.
* *Chains of timers.* The loop's next timer is armed by the settling of its
  pulse, so a chain can die (a running simulation without a timer) or be
  doubled (a timer nobody can clear).
* *Ordering.* Pulse indices in the log, frames and revisions at a browser,
  messages of one agent in one channel.
* *Failure part-way.* Appends and gateways that reject, a pulse that throws, a
  run's set-up that fails, an answer of Discord that does not tell whether the
  message was posted.
* *Limits.* A browser's queue, the retained history, a Discord queue, attempts.
* *Stale reads.* A pulse reads channels, memberships and log once; a turn reads
  its rate status before the model answers; retries ask a budget that does not
  know their turn's calls yet.
* *Restart.* The goal registry is rebuilt from the log, the self verdicts from a
  table; what was only in memory is gone.
* *Ending.* A run, a stop, an ending offer, a delivery and a closing stream must
  end; an exhausted budget must open again.

What makes each component correct:

* scheduler: pulses are serial, the index counts them, one activation is
  shared by all callers, and a running scheduler always has a chain;
* runtime: the scheduler's promises under any users; the log in pulse order;
  status and log agree; a stop comes to rest;
* controller: one run at a time, each ending once; no pulse after an abort; no
  teardown under a pulse, also when the pulse ends its own simulation; manifest, status and stream tell the same ending;
* hub: a browser misses nothing that is retained, sees frames in order and
  once, hello first; memory is bounded; a closed stream ends with `stopped`;
* limiter: first in, first out per queue; every message accounted for; nothing
  acknowledged is sent again; deliveries end;
* resolver: the limits hold over failed appends; nobody is left speaking in a
  channel that does not exist; what is said where the pulse knows the members is
  marked and delivered;
* registry: equal to its replay from the log, and never behind it; one offer,
  which ends the simulation;
* log and perception: an event is taken for new once by each agent, none is
  passed over, and whoever is in a room hears what is said in it;
* budget: overrun by one turn's calls at most, and open again after a while; a
  turn returns nothing that its checks forbid;
* live frames: a page told that the run is over shows what was published, takes
  nothing back, and learns of the end.

## 2. Plan

Modelled so far, in this order: `PulseScheduler` (implements `PulseClock`),
`SimulationRuntime` (composes the scheduler, extends it), `RunController`
(implements `RunContract`), `DiscordRateLimiter` (implements `MessageLine`),
`SseHub`, `AgentTurn` (the turns inside a pulse), `GoalRegistry` (the review at the end of one, which
`SimulationRuntime` takes as `EndOffered`), `LLMTurn` (the calls of turns and
reviews to the model), `LiveStream` (gateway, retained history, connection and
page), `Perception` (the log as agents read it). A proof module belongs to the
module whose name it begins with, with two exceptions: the theorems about
`PulseScheduler` alone are the first part of `SimulationRuntimeProofs`, and
`WebRunProofs` holds the theorems about both sides of a web run,
`RunController` and `LiveStream`.

What would come next:

1. Discord roles and channels (`server/discord/role-manager.ts`): remote
   creation with partial failure, and its idempotence over restarts.
2. The server's ending: signals while a run is being set up
   (`http/bootstrap.ts:49`).
3. A refinement of the hub to one stream per browser, for which `HubInv`
   already says what the mapping needs.
4. `AgentTurn` and `Perception` over one log, so that what is delivered to a
   gateway and what agents take for new are compared.

## 3. The modules and the code

A definition named `...Afresh`, `...Always`, `...Unbounded` or the like, under a
comment that begins with *Fault*, is not part of a specification: it is a
plausible bug, kept beside the definition it would replace. `PROJECT.json`
(`mutants`) says which property it breaks; every property of a passing run has
one.

### PulseScheduler, and PulseClock which it implements

| State | Code |
|---|---|
| `running`, `pulseIndex` | the fields |
| `timerArmed`, `orphans` | `this.timer` is armed; other armed timers `this.timer` no longer refers to |
| `inFlight` | the shared promise, named by the activation of `executePulse()` behind it |
| `phase` | where each activation stands: `load` (reads the context), `turns` (the agents), `review` (the world review), `settling` (result known, `.finally` not run) |
| `waiters`, `continuations` | `.finally(scheduleNext)` attached to the promise; the same, promise settled, not yet run |

The chain is `setTimeout -> runPulse().finally(scheduleNext)`. Nothing ties a
chain to the `start()` that began it: `Continue` looks at `running` when it
runs. `FailPulse` is the early return after a context that cannot be read, and
the exception that `runPulse()` catches; both count the pulse. What agents
decide is left out; that a pulse commits events is in the runtime's module.

`PulseClock` is what readers of the pulse index rely on: pulses do not overlap,
and the index moves only when the one that is running ends. The refinement maps
`busy` to "some activation is in load, turns or review".

### SimulationRuntime

Extends the scheduler with the operations of the runtime, each cut at its
awaits: `calls[c]` names the chunk caller `c` resumes at (`start`: status read
and written, event appended, scheduler armed; `pause`; `stop`: scheduler
stopped and row written, event appended, gateways notified, entry deleted). A
pulse is itself a caller, `Scheduler`: the review that delivers an ending offer
awaits `stop()` from inside the pulse (`EndOffered`), and the pulse cannot end
before that returns. `log` holds kinds and pulse indices, `cursor` is
`lastCommittedEventId` as a position. An append may reject (`OperationFails`),
a gateway may reject the stop (`NotifyFails`); what was done before stays done.

The events of one append are one entry: SQLite appends them in a transaction,
and no property counts them. Which goals make an ending offer, and
`createSimulation`, are not modelled; `Init` is the state after it.

### RunController, and RunContract which it implements

`start()` and `run()` are one process per run; `at` is the await it is suspended
in, in the code's order: inputs, config, health, build, seed, then pulse and
yield alternately, then drain, stop, manifest, close. `Stop(r)` is the stop
route for a run id `r`, any run ever started, since the route does not compare
it. `LlmFatal` is the verdict of the health watch, given from inside a pulse.
`WriteFails` leaves the process `rejected`: `start()` throws before `run()` is
called and nothing takes back `validating`. The wall clock may be found
expired at any reading. A pulse once begun does not reject: the scheduler
catches what it throws.

`sim` is the handle's simulation as the runtime's active map has it: there, or
taken out by the pulse itself (`offered`) or by teardown (`stopped`). A run of
kind `raw-json` may configure a goal layer; its ending offer (`EndOffered`) calls
the runtime's `stop()` from inside a pulse, which deletes the simulation under
the loop. The pulse settles as any other. If the loop asks for another one,
`runPulse()` throws, and the loop's own `error` outcome ends the run as failed:
`Outcome` has the four outcomes of the loop, and `LoopFrom` what `run()` makes
of them (`EarnedEndIsNoError` in section 6).

`RunContract`: a run is accepted only when none is open and ends once, as done
or failed. The refinement maps its `verdict` to "open" while the controller is
active and to the state otherwise.

### DiscordRateLimiter, and MessageLine which it implements

One queue per agent and channel. `SendAgentMessage` is `enqueue` and the start
of `flush` up to its first await; the answers of Discord are the actions
`SendSucceeds`, `RateLimited`, `PermanentFailure(posted)` and
`TransientFailure(posted)`, where `posted` says whether Discord shows the
message although the limiter saw an error. `Clear` is the stop of the
simulation, which empties the Map under a flush that goes on with the array it
holds (`held`, `detached`). Deliveries are serial because a pulse awaits each
and pulses are serial (`PulsesSerial`). Time is the flag `wait` of an entry and
`BackoffExpires`. The code tells only `low` from the other saliences, so there
are two. `shown` is Discord, an external part; its error classes are those of
`discord-errors.ts`.

`MessageLine`: per agent and channel a line of messages, of which only the
oldest is posted, once per try; a message joins at the cost of at most one low
message, itself or an older one; what has left does not return; the end of the
simulation empties every line but the one being served. The refinement maps a
line to the numbers on the key's queue, or on the array a flush still holds
after `clear()` (`orphan`). Waiting, attempts and fates are not in it.

### SseHub

A message is its replay key and a publication number. `Publish`, `Subscribe`,
`PublishStoppedAndCloseAll` (teardown publishes `stopped` and closes without an
await) and `ResetBacklog` are the hub's operations under its producers; `Flush`
is the set of outcomes of writing a queue to a socket that may accept, become
full after any message, or throw. `written` is history: what the socket was
given. Channels may be published before hello (they are announced while the
simulation is built), pulses only after it; that is the producers' part,
modelled from `run-controller.ts` and the gateway.

### AgentTurn

A pulse reads memberships (`seen`) and channels (`known`); each turn reads the
rate status (`limited`), waits for the model and ends with at most one act.
`Act` is the path through `computeAvailableActions()`, the parser's and the
validator's checks (`Permitted`), the membership check against the registry as
it is now (`IsMember`), the gate (`Allowed`), registration (`Register`), the
charge (`Charge`), and the append, which may fail and takes nothing back.
`RegistryFails` is an addition of members that stops half-way. `anchor` is
`currentChannelIdByAgent`: where an agent speaks that names no channel.
`WindowPasses` resets the fixed minute. `said` keeps of each utterance its
channel, its marking, whether a gateway got it, and whether the pulse knew the
channel (`old`). A simulation begins with one public channel; an agent may make
one of any type (`make`), private where the model names none, and the type
decides who may be invited there, which channels may be left and what is marked.
`MCAgentTurn` adds the symmetry of agents, whom nothing in the module tells
apart.

### GoalRegistry

`registry` is the memory, `log` the registry its log replays to, moved by one
`Replay` per commit. A review goes through `review`, `append`, `deliver`,
`persist`; `ReviewPending` is the review while an offer is open, `ReviewOpen`
any other, `ReviewFails` one that throws before its events exist. `Crash` may
come anywhere: the registry is replayed, the self verdicts come from `table`
through `Restored`, `pulse` and `delivered` start afresh. What a review decides
is arbitrary, so scores, plateau and the model's judgement are covered by all
their outcomes.

### LLMTurn

`calls` and `tokens` are the records of `LLMBudget` by age; the last bucket is
what `cleanup()` drops. `Begin` is the budget's gate of a turn or of the goal
layer, `Answer` a parsed answer with everything that may follow: another retry
if the budget allows it, the block of a repeat, the floor of an unresolved
target (`Settled`), and the record of the turn's calls (`Finish`). `answered`
is history, counted when the answer arrives and not when it is recorded.
`GoalAnswer` is the goal layer's one call, `ProviderFails` a call that is
never counted.

### LiveStream

Gateway: `Think` and `Deliver` collect what a pulse shows, and `Deliver`
publishes it as the next revision of the pulse's frame; `CommitPulse` publishes
the complete one. Hub: `Retained` is the bounded history with its replay keys,
`queue` what the hub holds for the connection. In both a newer revision takes
its predecessor's place (`Added`), but not in `wire`, what `Write` has given to
the socket: there several revisions of a pulse may be on their way. Page:
`Receive` folds one message. `Connect` replays hello, the notice that history
has expired, and the history; `Cut` breaks the connection and loses what was
queued and on its way; after `NextRun` a reconnect is refused. The content of a
frame is how many things it shows. A queue that overflows either drops a status,
which shows nothing, or breaks the connection, which is a `Cut`; the limits
themselves, and when a socket is full, are in `SseHub`.

### Perception, and MCPerception

`log` is the events in the order of their appends, each with its creation time,
the number in its id, and, as history, the members of its room. SQLite reads
them back by creation time and id text (`Before`); `TextRank` is the place of a
number in the order of text, and `MCPerception` computes it for ids that count
in base two, so that a number gains a digit, and sorts before smaller ones,
within few events. The in-memory log is the case in which `TextRank` keeps
their order. `BeginPulse` reads length and memberships once (`seen`, `known`);
`BeginTurn` is the engine's step: `InWindow` the last 40 events that are not
`operator_only`, `Visible` those of the agent's rooms that are for everybody
there or name it in `visibleToAgents`, `NewSince` those after
its cursor, `Advanced` where the cursor goes. `Persist` writes the agent's
state at the end of its turn, and may fail; so may the read before it, which
then uses the configured state (at most one such failure in the instance,
`lapsed`). A new channel and an invitation are for their parties (`Invite`), the
goal layer's announcements for the goal's agent (`Announce`). Seeds and the
events of world verdicts are room events like any other and are not told apart;
nobody leaves a membership in this code, since `leave_channel` does not remove
it.

## 4. The runs

| Run | Instance | Question | Result |
|---|---|---|---|
| `RuntimeAny` | 2 users, all operations, 2 starts, 2 stops, 2 pulses, 1 commit | What holds whoever uses the runtime? | passes, 794 000 states: chain alive, single flight, pulse order, the scheduler and its clock |
| `RuntimeCli` | 1 user that starts once and may stop; ending offers; 3 pulses, 2 commits, 1 failure | What holds for the command line? | passes, 9 000 states: timers cleared, status and log agree, no pulse after a stop, pulses keep coming, a stop comes to rest |
| `RunAny` | 3 runs of 3 pulses | The properties of the controller | passes, 271 000 states |
| `DiscordAny` | 2 queues of depth 2, 3 messages, 2 attempts | Every property of the limiter | passes, 75 000 states |
| `Hub` | 1 browser, 2 pulses' keys, queue and history of 2, 5 messages, 2 runs | Every property of the hub | passes, 129 000 states |
| `AgentAny` | 2 agents, 3 pulses, 2 channels made by agents, 1 message a minute, 1 channel each; agents symmetric | Do limits, anchors and delivery hold whatever agents do and what fails? | passes, 557 000 states |
| `AgentPrivate` | the same | Is everything said in a private channel marked so? | violated (finding 1) |
| `GoalsAny` | 2 goals, offers accepted at once or a pulse later, 1 crash | Is the registry its log's replay, and does an offer end the simulation? | passes, 268 000 states |
| `LLMAny` | limits of 4 calls and 7 tokens, 2 retries, costs 1 and 2 | How far is the budget overrun, does it open again, what may a turn return? | passes, 92 000 states |
| `LiveAny` | 2 pulses of 2 items, history of 2, 2 broken connections | What does the page show, and does it learn of the end? | passes, 330 000 states |
| `PerceptionAny` | 2 agents, 2 rooms, window of 2, 4 ids, a clock of 2 readings | Is everything taken for new once? | passes, 73 000 states |
| `PerceptionDeaf` | the same, 5 ids | Is an agent's cursor always in the window? | violated (finding 2) |

### Bounds

* `MaxStarts`, `MaxStops`: two of each give every order of a start, a pause, a
  stop and a start again, at each other's awaits and around a pulse in flight.
  `MaxPulses` bounds the pulses begun: two are the least at which a chain may
  overtake another; the command line's instance has three, so that a pulse that
  ends its simulation has one before and would have one after. `MaxChains` bounds only `start()`.
  The theorems hold without these bounds: they are parameters.
* `Execs` has two activations, one more than may be under way: a second one
  could begin if the single flight were broken, and does with a mutant.
* `RuntimeAny` has symmetry over callers and activations; it checks no liveness.
* `RunAny`: three runs let a request that names the first meet the second
  and the third; three pulses, since no offer can come in the first (the review
  skips pulse 0) and the loop must still want one after the pulse it comes in.
* `DiscordAny`: three messages fill a queue of depth two and one more; two
  attempts are one retry. The two queues share only `flush` and `Clear`.
* `Hub`: one browser is enough because the shared state (backlog, bootstrap,
  `ended`) depends on no client, and no property relates two. Two pulse keys
  and the limits of two overflow both the queue and the history; five messages
  go past both, with revisions of what was dropped.
* `AgentAny`: one agent to invite and one to be invited; two new channels
  let one be made after a failed append of the other; three pulses are one to
  create, one to speak there, and one after that. The limits of one are reached.
* `GoalsAny`: two goals, one of which is offered and one not; `AcceptPulses` of
  0 and 1 are the two branches of the code; one crash, since after it the state
  is again one a run may start from.
* `LLMAny`: limits that are reached at 80 % and passed by a turn of three calls.
* `LiveAny`: a history of two holds less than two pulses, the status and the
  ending make, so pulses are lost from it; a pulse has up to three revisions, so
  one may be shown, one written and one queued; the second broken connection
  meets a page that has been folded over one reconnect already. Neither queue
  nor wire is bounded: what may be published bounds them.
* `PerceptionAny`: a window of two for 40 is passed by three events in a room;
  four ids in base two gain a digit twice, once (3 to 4) against the order of
  text. Ids, not pulses, bound the behaviours: pulses go on for ever. One agent has
  goals (`GoalAgents`): whom an announcement is for is then one agent and not the
  other.

Deadlock is not checked except in `LLMAny`, where time always moves: every other
instance may come to rest (a stopped simulation, the last run, an empty queue, a
bound reached).

### Fairness

* Runtime (`FairSpec`): the timers that are due fire, the pulse's awaited calls
  settle, and an operation that was begun goes on, per caller. Nothing makes a
  user call, an append fail or an offer come. Node's event loop gives this, as
  long as model calls and deliveries settle, which is the next item.
* Controller: what the process awaits settles (files, the health check, timers),
  and so does a pulse. Its model calls are timed out, and so is the web page's
  gateway; a `raw-json` run may configure other gateways, of which it is assumed
  that they answer. `HangSpec` is the same without the pulse (see section 6).
* Limiter: Discord answers or the request times out; the clock moves.
* Hub: none; its properties are safety, and no browser need read.
* Goal layer: what a review awaits settles (`WF(Steps)`), and while the
  simulation runs reviews become due (`WF(Pulse(TRUE))`). No append need succeed.
* Model calls: time passes, and a provider answers or times out.
* Live stream: the page reads, so its socket drains and the hub's `flush()` goes
  on (it writes in a loop, and again at `drain`), and EventSource reconnects.
  The run need do nothing.
* Perception: pulses follow one another, each agent has its turn in each, and
  turns end. Nothing makes a read, a write or an append fail, or an agent speak.

## 5. The proofs

All are checked by tlapm to the last leaf, from the assumptions the modules
name on their constants (`ExecsAssumption`, `BoundAssumption`,
`CallersAssumption`, `ControllerAssumption`, `LimiterAssumption`,
`HubAssumption`, `TurnAssumption`, `GoalAssumption`, `LLMAssumption`,
`LiveAssumption`, `PerceptionAssumption`): an identity that is not in a set, and bounds that are
natural numbers. So they hold for any number of users, activations, starts,
stops, pulses, runs, connections, queues, messages, agents, channels, goals,
crashes, events, retries and broken connections. Three theorems about the
runtime suppose something more of its constants, in their own statements (below).

**SimulationRuntimeProofs, the scheduler.** `SchedTyping`;
`SchedulerChainAlive`: the invariant is inductive as it stands once
`ScheduleNextKeepsChains` says that the chains do not get fewer when one is
armed while running; `SchedulerSingleFlight`; `SchedulerImplementsClock`: with
`SingleFlight` at most one activation is in a busy phase, so that each step
begins the clock's pulse, ends it, or stutters (`SchedStepIsClockStep`).

**SimulationRuntimeProofs, the runtime.** `RuntimeImplementsScheduler`: every
step of the runtime is a step of the scheduler or leaves it alone
(`RuntimeStepIsSchedulerStep`), so the scheduler's invariants and the clock hold
in it (`RuntimeChainAlive`, `RuntimePulsesSerial`). `RuntimeTyping`.
`RuntimePulseOrder` needs a strengthening, `Stamped`: no event of the log, a
`simulation_started` apart, is stamped beyond the present `pulseIndex`; the
index never goes back (`IndexAdvances`), so that an append keeps the order
(`AppendKeepsOrder`), and so does a step of the index (`IndexKeepsOrder`).

**SimulationRuntimeProofs, a runtime started once.** `StopClearsTimer` and
`NoPulseAfterStop` are false when `start()` may be called again (section 6). The
command line (`cli/run-simulation.ts`) calls it once and leaves all pulses to
the timer; the web's loop calls `runPulse()` and never `start()`, and is
`RunController`'s. `StartedByCommandLine` says just that, one start and no
`runPulse`; for `StopClearsTimer` any number of callers may still stop and pause
the runtime, and anything may fail. The invariant is `StartInv`: while the start
is not over nothing else has moved (`Untouched`), and afterwards there is one
chain, in one place (`OneChain`): an armed timer, or a continuation, or a
waiter, and no orphan. `NoPulseAfterStop` says that where a pulse begins the
scheduler runs, the simulation is active and its row says so. It supposes
`OneUser`, one caller that starts and stops and does not pause: with two, one
may stop between the awaits of the other's start, which then arms a simulation
that is gone. Its invariant, `Agreeing`, ties the three fields together over the
user's stop and a pulse's own, which may overlap at their awaits
(`AgreeingStep`), and only a timer begins a pulse (`OnlyRunningBegins`). `StatusMatchesLog`
supposes `OneUser` as well: two callers may leave row and log in different
orders. Its invariant, `StatusInv`, follows an
ending offer's stop and the user's own from the row to the log: what the newest
lifecycle event says is what the row says, or the event is on its way, or an
append failed, which the property excepts.

**WebRunProofs, the controller.** The invariant `IInv` ties the await a run is suspended
in to the shared fields: the controller is free exactly when no process is
suspended, `inFlight` is set exactly across the await of a pulse, from the
build until teardown's stop the run's own database is open and its simulation
is active or was ended by a pulse of its own, a handle is open only
until teardown is over, the stream is ended exactly in a terminal state; and
what teardown was told stands. None of `OneHandle`, `PulseHasItsRoom` and
`StreamEndsWithRun` is inductive without it, since they do not say where the
process is. There is one lemma per conjunct and in it one step per action.
`ControllerManifestTellsTheRun` adds `Written`: nothing is on disk before
teardown writes it, and what is then on disk is what teardown was told; with
`IInv` it says that the final state set later is the one already written.
`ControllerNoPulseAfterAbort` is an action property: only `Seed` and `Yielded`
begin a pulse, and both read the signal in the step that begins it.
`ControllerImplementsContract` maps `Start` to `Accept`, `Close` to `End` and
the rest to stuttering.

**WebRunProofs, the live view.** `StoppedShowsAll` speaks of a page that has been
told the end; nothing in it says why no revision was lost before. `LiveInv`
follows a revision that was announced along the three places it goes through.
The history has the newest frame of every pulse, once, or admits that a pulse
has left (`HubInv`). Of an open connection it looks at everything that is on its
way, written or queued, as one sequence (`Flow`), which `Write` leaves alone:
its revisions of a pulse follow one another, none older than what is shown and
none newer than what is announced (`InOrder`), hello leads, `stopped` comes
last, and of each pulse the newest frame is in it, or is shown, or has left the
history of which the page is told (`Due`). The page is never ahead of what is
announced (`PageInv`). So a page that reads `stopped` reads the end of the flow,
where `Due` leaves nothing on its way. The lemmas are about three ways a sequence
changes: a message is added and what it replaces taken out (`Placed`: what
stays keeps its order), the head leaves, the history is sent from its beginning.
`InOrder` is also why `LiveShownNeverShrinks` holds: what `upsertPulse()` takes
is never older than what is shown.

**DiscordRateLimiterProofs.** The proof looks at the queue a key *lives* on
(`Live`): the Map's, or, under a flush that outlived `clear()`, the array it
holds. Seen so a flush is the same before and after the stop. `LimiterInv` says
that a live queue is in the order of sending, none twice (`Orderly`), that what
Discord shows of a key is not newer than what still waits (`KeyInv`), that no
message is on two queues, and that a fate is open exactly for what is on one
(`FateInv`). `FifoPerKey` is not inductive without the link from `shown` to the
queue, nor `Accounted` without the order, which gives a message its one place.
The steps are few: every answer of Discord goes on with a queue that has lost
its head or kept it (`FlushSteps`, `FlushKeeps`), `enqueue()` takes out one entry
at most and appends (`RoomMade`, `Behind`), and the stop empties all queues but
one. `LimiterAcknowledgedStays` is an action property: an acknowledged message
is on no live queue, and only the head of one is sent.
`LimiterImplementsLine` maps every answer to `Try`, or to `TryLast` when it
ends a flush whose array is off the Map, `SendAgentMessage` to `Join`, `Clear`
to `End` and the passing of time to stuttering. The mapping needs `LimiterInv`:
that the head is the oldest message comes from `Orderly`, and that what leaves
a full queue is one low message from `RoomMade` and `Enqueued`.

**SseHubProofs.** A connection is looked at through its stream, what it was
sent followed by what is queued: flushing leaves it alone, and publishing
appends to it and may take out one older, replaceable message (`Took`).
`HubInv` says of each stream that it is in the order of publication
(`Ordered`), that hello precedes pulse frames (`Introduced`), that it holds
everything retained that is not replaceable, and that it ends with `stopped`
if it is closing (`Owed`); of the backlog that it is ordered with one revision
of each key, which is what a new subscriber starts from (`BacklogInv`,
`BootstrapInv`). The four properties are parts of it; none is inductive alone,
since a new stream is made of what is retained. The library of lemmas it rests
on says what concatenation, appending and taking out do to an ordered sequence.

**AgentTurnProofs.** `GateHolds` (`LimitsKept`) needs `Charged`: the gate's
counter bounds the log because a message is charged before it is appended; and
`Creators`, a count of a set (`AtMostOneMore`). `AnchorsAreChannels` and
`KnownRoomsAreReached` need `Inhabited`: an anchor points at a channel with
members, only registered channels have members, and a channel the pulse knows
has members now only if it had some when the pulse began, because whoever
invites must have been in it then; and that what is said is said in a
registered channel (`SaidSomewhere`), whose type no longer changes.

**GoalRegistryProofs.** `RebuildIsExact`, `MemoryCoversLog` and
`NoOrphanVerdicts` are one induction, strengthened by `BatchFits`: while the
events of a review wait to be appended, the registry has what they accept, has
no goal among what they propose, holds their offer, which the log lacks, and,
if nothing failed before, is what the log will replay to.

**LLMTurnProofs.** `TurnsReturnNoViolation`: the order of block and floor in
`Settled` leaves nothing that violates (`SettledIsFine`), and the goal layer
leaves the last intent alone (`Clean`). `CallsOfWindowBounded` is about sums
over ages, which `UpTo` computes as a function, so that its equation is a fact
about each age (`SumExists`, by the finiteness of the ages; `SumsAdded`,
`SumsAged`, `SumsCleaned` say what recording, ageing and cleaning do to it). The
invariant is `Covered`, that however far back one looks, what was answered is
recorded or part of the turn under way, and `Budget`, that this turn began below
four fifths of the limit and has made no more calls than it retried.

**PerceptionProofs.** `ProcessedOnceCorrect` needs only that nothing processed
lies behind the cursor (`Forward`), that `Before` is transitive, and that what
is committed keeps its place (`OrderKept`): it holds for any order of ids, the
wrong one included. `NothingSkippedCorrect` supposes `Even` and needs more: the
order is then that of the appends (`EvenOrder`, from `Timely`), so a window has
no holes (`WindowClosed`, a comparison of cardinalities), and whoever was a
member when an event was committed is one in the memberships the pulse read
(`RoomsKept`), and whom it names it named then (`Addressed`: whom an event
was for are those of its room's members it names). Both follow from one invariant over `Grows`, which says what any
step may do to log and memberships.

**Only model-checked.** Liveness (`PulsesKeepComing`, `StopQuiesces`, `RunsEnd`,
`FlushEnds`, `OfferEnds`, `BudgetRecovers`, `EndIsSeen`, `Heard`):
fairness and ENABLED are out of the prover's reach. Every other property of a
passing run is stated by a theorem; `OneHandle` is
proved and in no run.

## 6. Findings

Each is a run that TLC must find violated, and a sentence of the repository
that says otherwise (quoted in `PROJECT.json`).

1. `AgentPrivate`: an agent invited to a private channel made in the same pulse
   speaks there unmarked, and the spectators' gateways get it as public:
   `channelVisibility()` looks among the channels the pulse had read.
2. `PerceptionDeaf`: the window does not keep the agents' cursors. Once 40 room
   events of any rooms have followed an agent's cursor, in rooms it is not in or
   in one busy pulse, it takes nothing for new ever again. `Heard` holds for
   everybody else.

Kept as properties no run checks, each to be seen with the constants of the run
named and the property as the only one:

| Property | Run's constants | What happens |
|---|---|---|
| `StopClearsTimer` | `RuntimeAny` | a pause and a start during a pulse make two timer chains; a later stop clears one timer, the other runs a pulse of a stopped simulation (no shipped caller pauses) |
| `NoPulseAfterStop` | `RuntimeAny` | `runPulse()` does not ask whether the simulation was started (the web's loop relies on that); with `CliOps` for `AnyOps`, a stop between the awaits of another caller's start lets the start arm a simulation that is gone (no shipped caller overlaps them) |
| `NoCommitAfterStopped` | `RuntimeCli` | a pulse in flight commits events after `simulation_stopped` |
| `StoppedOnce` | `RuntimeCli` | an operator's stop and an ending offer's both run to the end: two events, two notifications |
| `EarnedEndIsNoError` | `RunAny` | the ending offer of a web run with a goal layer (inputs of kind `raw-json`) stops the simulation from inside a pulse; the loop is not told, asks for the next pulse, gets "Simulation not found" (`pulse-loop.ts:60`), and the run ends as failed, although `docs/concepts/goal-layer.md:16` has "an earned end offer" terminate it "through the runtime's stop path". It ends as done only if the offer came in the last pulse, or a stop or the wall clock came first |
| `StopIsForThisRun` | `RunAny` | a late stop request for one run aborts the next: the route does not compare the run id |
| `StopFreesController` | `RunAny`, `HangSpec` | a pulse that hangs is awaited by the loop, so teardown's bounded wait is never reached and `dirty` never written |
| `HighNeverDropped` | `DiscordAny` | the limiter drops urgent messages after its attempts, silently |
| `CriticalIsRetried` | `DiscordAny` | a message that must wait is retried only by a later message to its queue |
| `CommittedOfferEnds` | `GoalsAny` | a crash between the append of an immediate offer and its delivery leaves a committed offer that no later review delivers |
| `CallsWithinLimit` | `LLMAny` | `canCall()` is asked before each retry but does not know the calls of its own turn: the retries of one turn pass the limit |

Met while modelling, and part of the models:

* an invitation without a channel moves the invited agent's anchor to the
  inviter's channel without making it a member; `leave_channel` never removes
  the membership in the registry; an invitation of several people names the
  first in its event; a new channel registers `personTargets` its event does not
  name;
* a start while a pulse is in flight sets the scheduler's cursor back to its own
  event (`simulation-runtime.ts:275`), so the next pulse is given again what that
  pulse has committed since; no shipped caller starts twice;
* a failed append leaves the channel and the charge behind; after one the log
  may hold verdicts or an offer of a goal whose acceptance it lacks;
* attaching to a surviving simulation writes the configured agent states over
  the stored ones (`simulation-runtime.ts:113-115`), and pulse index, anchors
  and rate windows start afresh;
* an agent state that cannot be read is replaced by the configured one, which
  the turn then stores (`pulse-scheduler.ts:249-252`): the agent takes the whole
  window for new again, which is the exception in `ProcessedOnce`;
* failed calls and unparsable answers of the goal layer are never counted; the
  last fifth of the call budget cannot be used, since `getPriority()` says `low`
  there and `canCall()` refuses `low`; large prompts may be starved by small
  ones, which is why `BudgetRecovers` speaks of the smallest;
* the comments at `pulse-scheduler.ts:187` and `256` say that later agents of a
  pulse see what earlier ones did; the refresh reaches only the world signals,
  and the events an agent takes for new are those of the pulse's beginning;
* a counter that gains a digit between two events of one millisecond puts the
  later event first (`event-repository.ts:148`): an agent whose cursor is on the
  earlier number passes over the later event, which is why `NothingSkipped`
  supposes `Even`.

## 7. What is not modelled

The numeric part of the engine (initiative, salience, emotions, memory decay) is
arithmetic on reals, beyond TLC. Prompts, parsing, output formats, projections,
snapshots, configuration, authoring, the evaluation harness and the providers'
network code are sequential text processing; where their outcome matters (an
answer that repeats, a file that cannot be written, a call that fails) it is a
choice in the model of their caller. Of the HTTP server only the start and stop
routes are modelled. The Discord gateway's roles and channels and the process's
own ending (signals during set-up) are hazards or components no property covers
yet; they are the first items of the plan. `createSimulation` and the attach to
a surviving simulation are the initial states of the modules, not actions.

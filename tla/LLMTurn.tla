------------------------------- MODULE LLMTurn -------------------------------
(***************************************************************************)
(* One simulation's calls to its language models: the sliding windows of   *)
(* llm/llm-budget.ts, the turn of an agent (agent/agent-runtime.ts and     *)
(* agent/surface/action-intent-step.ts: budget gate, provider call, strict *)
(* parse, bounded retries, floor and fallback) and the goal layer's call   *)
(* (simulation/world/goal-layer-llm.ts).                                   *)
(*                                                                         *)
(* The scheduler awaits every call, so one is in flight at a time.  A call *)
(* is checked against the usage recorded so far and recorded after the     *)
(* whole turn.  Time is kept as the age of each record; an age beyond the  *)
(* window is one bucket, emptied by cleanup().                             *)
(***************************************************************************)
EXTENDS Integers

CONSTANTS
    CallLimit,    \* llmCallBudgetPerMinute
    TokenLimit,   \* tokenBudgetPerHour
    CallWindow,   \* CALL_WINDOW_MS in ticks
    TokenWindow,  \* TOKEN_WINDOW_MS in ticks
    MaxRetries,   \* policy.maxRetries
    Costs         \* bound: what a call may cost and a prompt be estimated at

ASSUME LLMAssumption ==
    /\ {CallLimit, TokenLimit} \subseteq Nat \ {0}
    /\ {CallWindow, TokenWindow, MaxRetries} \subseteq Nat
    /\ Costs \subseteq 1..TokenLimit

\* A parsed answer: whether it nearly repeats an earlier utterance, and whether
\* the event it replies or reacts to was found.  no_op is also every fallback.
Intents == [kind : {"no_op", "send", "reply", "react"}, repeat : BOOLEAN, resolved : BOOLEAN]

NoOp == [kind |-> "no_op", repeat |-> FALSE, resolved |-> TRUE]

\* Only messages are compared, only replies and reactions have a target event.
Answers == {a \in Intents : /\ a.repeat => a.kind \in {"send", "reply"}
                            /\ ~a.resolved => a.kind \in {"reply", "react"}}

VARIABLES
    calls,     \* recorded calls by age
    tokens,    \* recorded tokens by age
    answered,  \* history: answered calls by age
    turn,      \* "idle", or whose call is in flight: "intent", "goal"
    priority,  \* the budget priority read when the turn began
    retries,   \* retries begun in this turn
    spent,     \* calls and tokens of this turn, not recorded yet
    intent     \* the latest parsed intent; between turns, what the turn returned

vars == <<calls, tokens, answered, turn, priority, retries, spent, intent>>

Ages(window) == 0..(window + 1)
Nothing(window) == [i \in Ages(window) |-> 0]
Unspent == [calls |-> 0, tokens |-> 0]

TypeOK ==
    /\ calls \in [Ages(CallWindow) -> Nat] /\ answered \in [Ages(CallWindow) -> Nat]
    /\ tokens \in [Ages(TokenWindow) -> Nat]
    /\ turn \in {"idle", "intent", "goal"}
    /\ priority \in {"high", "normal", "low", "blocked"}
    /\ retries \in 0..MaxRetries
    /\ spent \in [calls : Nat, tokens : Nat]
    /\ intent \in Answers

Init ==
    /\ calls = Nothing(CallWindow) /\ answered = Nothing(CallWindow)
    /\ tokens = Nothing(TokenWindow)
    /\ turn = "idle" /\ priority = "high" /\ retries = 0
    /\ spent = Unspent /\ intent = NoOp

-------------------------------------------------------------------------------
\* Fault: nothing is ever dropped.
CleanupNone(record, window) == record

\* cleanup(): a record is kept while it is in its window.
Cleanup(record, window) == [record EXCEPT ![window + 1] = 0]

\* getPriority() for so many calls and tokens.
PriorityAt(c, t) ==
    IF c >= CallLimit \/ t >= TokenLimit THEN "blocked"
    ELSE IF 10 * c >= 8 * CallLimit \/ 10 * t >= 8 * TokenLimit THEN "low"
    ELSE IF 2 * c >= CallLimit \/ 2 * t >= TokenLimit THEN "normal"
    ELSE "high"

\* canCall()
CanCall(c, t, p, estimate) ==
    /\ p # "blocked"
    /\ c < CallLimit
    /\ t + estimate <= TokenLimit
    /\ p = "low" => 10 * c < 8 * CallLimit
    /\ p = "normal" => 100 * c < 95 * CallLimit

\* What a record holds up to each age, and in all.
UpTo(record) ==
    LET sum[age \in DOMAIN record] ==
            record[age] + (IF age = 0 THEN 0 ELSE sum[age - 1])
    IN  sum

Total(record, window) == UpTo(record)[window + 1]

CallsNow == Total(Cleanup(calls, CallWindow), CallWindow)
TokensNow == Total(Cleanup(tokens, TokenWindow), TokenWindow)
PriorityNow == PriorityAt(CallsNow, TokensNow)

CleanedUp == /\ calls' = Cleanup(calls, CallWindow)
             /\ tokens' = Cleanup(tokens, TokenWindow)

\* Fault: usage is stamped with the simulation's clock, long past the window.
RecordOnSimClock(used) ==
    /\ calls' = [calls EXCEPT ![CallWindow + 1] = @ + used.calls]
    /\ tokens' = [tokens EXCEPT ![TokenWindow + 1] = @ + used.tokens]

\* recordUsage() for every call of the turn.
Record(used) ==
    /\ calls' = [calls EXCEPT ![0] = @ + used.calls]
    /\ tokens' = [tokens EXCEPT ![0] = @ + used.tokens]

-------------------------------------------------------------------------------
\* generateIntent() or the goal client's call() begins: priority and gate.
Begin(surface, estimate) ==
    /\ turn = "idle"
    /\ CanCall(CallsNow, TokensNow, PriorityNow, estimate)
    /\ turn' = surface
    /\ priority' = PriorityNow
    /\ retries' = 0
    /\ CleanedUp
    /\ UNCHANGED <<answered, spent, intent>>

\* The gate blocks: the agent gets a no_op, the goal layer its own proposals.
Refuse(surface, estimate) ==
    /\ turn = "idle"
    /\ ~CanCall(CallsNow, TokensNow, PriorityNow, estimate)
    /\ intent' = IF surface = "intent" THEN NoOp ELSE intent
    /\ CleanedUp
    /\ UNCHANGED <<answered, turn, priority, retries, spent>>

\* The turn is over: its calls are recorded and it returns an intent.
Finish(used, result) ==
    /\ Record(used)
    /\ spent' = Unspent
    /\ turn' = "idle"
    /\ intent' = result
    /\ UNCHANGED <<priority, retries>>

Answered(tokensUsed) == [calls |-> spent.calls + 1, tokens |-> spent.tokens + tokensUsed]

Violates(a) == a.repeat \/ ~a.resolved

\* floorTargets(): the triggering or last visible message becomes the target;
\* with none, a reply becomes a message and a reaction is dropped.
Floored(a) == {[a EXCEPT !.resolved = TRUE],
               IF a.kind = "reply" THEN [a EXCEPT !.kind = "send", !.resolved = TRUE] ELSE NoOp}

\* Fault: an unresolved target is floored before the repetition block.
SettledTargetFirst(a) ==
    IF ~a.resolved THEN Floored(a) ELSE IF a.repeat THEN {NoOp} ELSE {a}

\* What may become of the last answer: a repeat is blocked, then a target that
\* is still unresolved is floored.
Settled(a) ==
    IF a.repeat THEN {NoOp} ELSE IF ~a.resolved THEN Floored(a) ELSE {a}

\* An agent's answer arrives.  One that violates a guard is tried again while
\* retries are left and the budget, which does not know this turn's calls yet,
\* permits; otherwise it is settled.
Answer(a, tokensUsed, estimate) ==
    LET used == Answered(tokensUsed)
    IN  /\ turn = "intent"
        /\ answered' = [answered EXCEPT ![0] = @ + 1]
        /\ \/ /\ Violates(a) /\ retries < MaxRetries
              /\ CanCall(CallsNow, TokensNow, priority, estimate)
              /\ retries' = retries + 1
              /\ spent' = used
              /\ intent' = a
              /\ CleanedUp
              /\ UNCHANGED <<turn, priority>>
           \/ /\ Violates(a) /\ retries < MaxRetries =>
                     ~CanCall(CallsNow, TokensNow, priority, estimate)
              /\ \E result \in Settled(a) : Finish(used, result)

\* The provider fails: a no_op, and the failed call is never recorded.
ProviderFails ==
    /\ turn # "idle"
    /\ Finish(spent, IF turn = "intent" THEN NoOp ELSE intent)
    /\ UNCHANGED answered

\* The goal layer's answer arrives and is understood.  One that does not parse
\* is not recorded: it counts as a failure of the provider here.
GoalAnswer(tokensUsed) ==
    /\ turn = "goal"
    /\ answered' = [answered EXCEPT ![0] = @ + 1]
    /\ Finish(Answered(tokensUsed), intent)

Aged(record, window) ==
    [i \in Ages(window) |-> IF i = 0 THEN 0
                            ELSE record[i - 1] + (IF i = window + 1 THEN record[i] ELSE 0)]

\* Time passes; the history forgets what has left the window.
Tick ==
    /\ calls' = Aged(calls, CallWindow)
    /\ tokens' = Aged(tokens, TokenWindow)
    /\ answered' = [Aged(answered, CallWindow) EXCEPT ![CallWindow + 1] = 0]
    /\ UNCHANGED <<turn, priority, retries, spent, intent>>

Next ==
    \/ \E surface \in {"intent", "goal"}, estimate \in Costs :
          Begin(surface, estimate) \/ Refuse(surface, estimate)
    \/ \E a \in Answers, used, estimate \in Costs : Answer(a, used, estimate)
    \/ \E used \in Costs : GoalAnswer(used)
    \/ ProviderFails
    \/ Tick

Spec == Init /\ [][Next]_vars

\* Time passes, and a provider has a timeout.
FairSpec == Spec /\ WF_vars(Tick) /\ WF_vars(ProviderFails)

-------------------------------------------------------------------------------
\* In one window, the answered calls exceed the share of the limit at which
\* calls stop (80 %) by no more than the calls of one turn.
CallsBounded == 10 * (Total(answered, CallWindow) - 1 - MaxRetries) < 8 * CallLimit

\* A turn never returns a near repeat or an unresolved target, whatever its
\* retries answered and whether the budget allowed them.
NeverReturnsViolation == turn = "idle" => ~Violates(intent)

\* An exhausted budget opens again, at least to the smallest prompts.
Affordable == \E estimate \in Costs : CanCall(CallsNow, TokensNow, PriorityNow, estimate)
BudgetRecovers == ~Affordable ~> Affordable

\* agent/repetition-guard.ts: canCall is checked again "before every retry, so
\* raising `maxRetries` cannot multiply unmetered wire calls".
CallsWithinLimit == Total(answered, CallWindow) <= CallLimit
===============================================================================

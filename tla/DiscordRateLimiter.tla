-------------------------- MODULE DiscordRateLimiter --------------------------
(***************************************************************************)
(* packages/server/src/discord/discord-rate-limiter.ts as the Discord      *)
(* gateway (discord-gateway.ts) uses it: sendAgentMessage() enqueues and   *)
(* flushes the message's queue, one call at a time because a pulse awaits  *)
(* each delivery (PulsesSerial of PulseScheduler), and                     *)
(* onSimulationStopped() clears every queue, possibly under a flush that   *)
(* is waiting for Discord.                                                 *)
(*                                                                         *)
(* Messages are numbered in the order they are sent.  Time is abstract: a  *)
(* message that may not be tried before `notBefore` waits until            *)
(* BackoffExpires.  Only "low" is told apart from the other saliences by   *)
(* the code; "critical" stands for medium, high and critical.              *)
(***************************************************************************)
EXTENDS Naturals, FiniteSets, SequencesExt

CONSTANTS
    Keys,          \* agent and Discord channel: one queue each
    NoKey,         \* no flush in progress
    MaxMessages,   \* bound: messages sent
    MaxDepth,      \* config.maxQueueDepth
    MaxAttempts    \* config.maxAttempts

ASSUME LimiterAssumption ==
    /\ NoKey \notin Keys
    /\ {MaxMessages, MaxDepth, MaxAttempts} \subseteq Nat \ {0}

Messages == 1..MaxMessages
Saliences == {"low", "critical"}
Fates == {"unsent", "queued", "refused", "evicted", "sent", "dropped", "cancelled"}

VARIABLES
    queues,     \* the Map: per key its queue, <<>> when it has no entry
    flush,      \* the key a flush is sending the head of, or NoKey
    held,       \* the array that flush holds after clear() took it off the Map
    detached,   \* whether it does
    stopped,    \* onSimulationStopped() has cleared the queues
    salience,   \* of each message
    fate,       \* what became of each message, as the limiter sees it
    shown,      \* per key, what Discord shows
    sends       \* sendAgentMessage() calls so far

vars == <<queues, flush, held, detached, stopped, salience, fate, shown, sends>>

Entry == [id : Messages, attempts : Nat, wait : BOOLEAN]

TypeOK ==
    /\ queues \in [Keys -> Seq(Entry)]
    /\ flush \in Keys \cup {NoKey}
    /\ held \in Seq(Entry)
    /\ detached \in BOOLEAN
    /\ stopped \in BOOLEAN
    /\ salience \in [Messages -> Saliences]
    /\ fate \in [Messages -> Fates]
    /\ shown \in [Keys -> Seq(Messages)]
    /\ sends \in 0..MaxMessages
    /\ detached => stopped /\ flush # NoKey
    /\ flush # NoKey => (IF detached THEN held ELSE queues[flush]) # <<>>

Init ==
    /\ queues = [k \in Keys |-> <<>>]
    /\ flush = NoKey
    /\ held = <<>>
    /\ detached = FALSE
    /\ stopped = FALSE
    /\ salience \in [Messages -> Saliences]
    /\ fate = [m \in Messages |-> "unsent"]
    /\ shown = [k \in Keys |-> <<>>]
    /\ sends = 0

-------------------------------------------------------------------------------
IsLow(e) == salience[e.id] = "low"
Full(q) == Len(q) >= MaxDepth

\* enqueue(): a full queue refuses a low message and makes room for any other
\* by removing its oldest low one, if it has one.
Refuses(q, m) == Full(q) /\ salience[m] = "low"

\* Fault: the oldest message makes room, whatever its salience.
EnqueueEvictsOldest(q, m) ==
    IF Refuses(q, m) THEN q
    ELSE Append(IF Full(q) THEN Tail(q) ELSE q,
                [id |-> m, attempts |-> 0, wait |-> FALSE])

Enqueue(q, m) ==
    IF Refuses(q, m) THEN q
    ELSE Append(IF Full(q) THEN RemoveFirstMatch(q, IsLow) ELSE q,
                [id |-> m, attempts |-> 0, wait |-> FALSE])

Ids(q) == {q[i].id : i \in DOMAIN q}

\* The test at the top of flush()'s loop: the head is sent unless it must wait.
HeadReady(q) == q # <<>> /\ ~Head(q).wait

\* sendAgentMessage(): enqueue, then flush up to the first await.  The result
\* of enqueue() is ignored, so a refused message still flushes the queue.
SendAgentMessage(k) ==
    LET m == sends + 1
        q == Enqueue(queues[k], m)
    IN  /\ flush = NoKey
        /\ sends < MaxMessages
        /\ sends' = m
        /\ queues' = [queues EXCEPT ![k] = q]
        /\ fate' = [x \in Messages |->
                      CASE x = m -> IF x \in Ids(q) THEN "queued" ELSE "refused"
                        [] x \in Ids(queues[k]) \ Ids(q) -> "evicted"
                        [] OTHER -> fate[x]]
        /\ flush' = IF HeadReady(q) THEN k ELSE NoKey
        /\ UNCHANGED <<held, detached, stopped, salience, shown>>

-------------------------------------------------------------------------------
\* The array the flush in progress works on, and the message it is sending.
Flushed == IF detached THEN held ELSE queues[flush]
Sending == Head(Flushed).id

Shows(posted) ==
    shown' = IF posted THEN [shown EXCEPT ![flush] = Append(@, Sending)] ELSE shown

\* Fault: the flush puts the array it holds back on the Map.
FlushPutsBack(q, became) ==
    LET ends == ~HeadReady(q)
    IN  /\ flush' = IF ends THEN NoKey ELSE flush
        /\ detached' = (detached /\ ~ends)
        /\ held' = IF detached /\ ~ends THEN q ELSE <<>>
        /\ queues' = [queues EXCEPT ![flush] = q]
        /\ fate' = [fate EXCEPT ![Sending] = became]

\* The flush goes on with the array q if its head may be sent.  It ends
\* otherwise, and messages left in an array that is off the Map are cancelled
\* with it.  An empty queue has no entry in the Map.
FlushGoesOn(q, became) ==
    LET ends == ~HeadReady(q)
        lost == IF ends /\ detached THEN Ids(q) ELSE {}
    IN  /\ flush' = IF ends THEN NoKey ELSE flush
        /\ detached' = (detached /\ ~ends)
        /\ held' = IF detached /\ ~ends THEN q ELSE <<>>
        /\ queues' = IF detached THEN queues ELSE [queues EXCEPT ![flush] = q]
        /\ fate' = [x \in Messages |-> IF x \in lost THEN "cancelled"
                                       ELSE IF x = Sending THEN became
                                       ELSE fate[x]]

\* Fault: the acknowledged message stays at the head.
SendSucceedsUnshifted ==
    /\ flush # NoKey
    /\ Shows(TRUE)
    /\ FlushGoesOn(<<[Head(Flushed) EXCEPT !.wait = TRUE]>> \o Tail(Flushed), "sent")
    /\ UNCHANGED <<stopped, salience, sends>>

\* Discord accepts the message and the limiter learns that it did.
SendSucceeds ==
    /\ flush # NoKey
    /\ Shows(TRUE)
    /\ FlushGoesOn(Tail(Flushed), "sent")
    /\ UNCHANGED <<stopped, salience, sends>>

\* Fault: the head makes way for the next message instead of waiting.
RateLimitedRotates ==
    /\ flush # NoKey
    /\ FlushGoesOn(Append(Tail(Flushed), Head(Flushed)), "queued")
    /\ UNCHANGED <<stopped, salience, shown, sends>>

\* 429: the head waits for retry_after, uncounted.
RateLimited ==
    /\ flush # NoKey
    /\ FlushGoesOn([Flushed EXCEPT ![1].wait = TRUE], "queued")
    /\ UNCHANGED <<stopped, salience, shown, sends>>

\* 401, 403, 404, an unknown channel or an unknown error: the message is
\* removed, and nobody is told (the gateway passes no onError).  An unknown
\* error may follow a post that Discord did accept.
PermanentFailure(posted) ==
    /\ flush # NoKey
    /\ Shows(posted)
    /\ FlushGoesOn(Tail(Flushed), "dropped")
    /\ UNCHANGED <<stopped, salience, sends>>

\* Faults: a failed message goes behind the others; attempts are not counted.
TransientFailureRequeues(posted) ==
    /\ flush # NoKey
    /\ Shows(posted)
    /\ FlushGoesOn(Append(Tail(Flushed),
                          [Head(Flushed) EXCEPT !.attempts = @ + 1, !.wait = TRUE]), "queued")
    /\ UNCHANGED <<stopped, salience, sends>>

\* A 5xx answer, a reset connection or a timeout, after which Discord may or
\* may not have posted the message: back off, and give up at MaxAttempts.
TransientFailure(posted) ==
    LET tried == Head(Flushed).attempts + 1
    IN  /\ flush # NoKey
        /\ Shows(posted)
        /\ IF tried >= MaxAttempts
           THEN FlushGoesOn(Tail(Flushed), "dropped")
           ELSE FlushGoesOn([Flushed EXCEPT ![1].attempts = tried, ![1].wait = TRUE], "queued")
        /\ UNCHANGED <<stopped, salience, sends>>

\* The clock passes the notBefore of a queue's head.
BackoffExpires(k) ==
    /\ queues[k] # <<>> /\ Head(queues[k]).wait
    /\ queues' = [queues EXCEPT ![k][1].wait = FALSE]
    /\ UNCHANGED <<flush, held, detached, stopped, salience, fate, shown, sends>>

\* onSimulationStopped(), once the channels are locked: clear() empties the
\* Map, but a flush in progress keeps the array it works on.
Clear ==
    LET kept == IF flush = NoKey THEN <<>> ELSE queues[flush]
    IN  /\ ~stopped
        /\ stopped' = TRUE
        /\ held' = kept
        /\ detached' = (flush # NoKey)
        /\ queues' = [k \in Keys |-> <<>>]
        /\ fate' = [m \in Messages |->
                      IF fate[m] = "queued" /\ m \notin Ids(kept) THEN "cancelled" ELSE fate[m]]
        /\ UNCHANGED <<flush, salience, shown, sends>>

DiscordAnswers ==
    \/ SendSucceeds
    \/ RateLimited
    \/ \E posted \in BOOLEAN : PermanentFailure(posted) \/ TransientFailure(posted)

Next ==
    \/ DiscordAnswers
    \/ Clear
    \/ \E k \in Keys : SendAgentMessage(k) \/ BackoffExpires(k)

Spec == Init /\ [][Next]_vars

\* Discord answers every request, and time passes.
FairSpec ==
    /\ Spec
    /\ WF_vars(DiscordAnswers)
    /\ \A k \in Keys : WF_vars(BackoffExpires(k))

-------------------------------------------------------------------------------
\* Discord shows the messages of one agent in one channel in the order they
\* were sent: a message that failed and is tried again is never overtaken,
\* and the eviction of low messages reorders nothing.
FifoPerKey ==
    \A k \in Keys : \A i, j \in DOMAIN shown[k] : i < j => shown[k][i] <= shown[k][j]

At(k, i, m) == i \in DOMAIN queues[k] /\ queues[k][i].id = m
Places(m) == {p \in Keys \X (1..MaxMessages) : At(p[1], p[2], m)}
HeldPlaces(m) == {i \in DOMAIN held : held[i].id = m}

\* No message is lost or doubled inside the limiter: a message whose fate is
\* open is in exactly one queue, once, and a message whose fate is decided is
\* in none.  The stop that empties the Map under a flush keeps this true.
Accounted ==
    \A m \in Messages :
        IF fate[m] = "queued"
        THEN Cardinality(Places(m)) + Cardinality(HeldPlaces(m)) = 1
        ELSE Places(m) = {} /\ HeldPlaces(m) = {}

\* What Discord has acknowledged is on screen and is not posted again.
AcknowledgedStays ==
    [][\A m \in Messages : fate[m] = "sent" =>
          /\ fate'[m] = "sent"
          /\ \A k \in Keys : {i \in DOMAIN shown'[k] : shown'[k][i] = m}
                               = {i \in DOMAIN shown[k] : shown[k][i] = m}]_vars

\* A delivery ends if Discord answers, so the pulse that awaits it does too:
\* no answer makes flush() loop on one message.
FlushEnds == flush # NoKey ~> flush = NoKey

\* docs/notes/discord/messaging-rate-limits-errors.md: "high and critical
\* messages are never dropped by local policy".
HighNeverDropped == \A m \in Messages : salience[m] = "critical" => fate[m] # "dropped"

\* The same notes: "critical: never drop; retry until success, cancellation,
\* or manual operator intervention".  A queued message does not stay there.
CriticalIsRetried ==
    \A m \in Messages : (salience[m] = "critical" /\ fate[m] = "queued") ~> fate[m] # "queued"

\* The numbers of the messages on the array a key's flush works on, or would.
Waiting(k) == Ids(IF detached /\ flush = k THEN held ELSE queues[k])

Line == INSTANCE MessageLine WITH
    low <- {m \in Messages : salience[m] = "low"},
    sent <- sends,
    waiting <- [k \in Keys |-> Waiting(k)],
    orphan <- IF detached THEN flush ELSE NoKey

\* Every agent's messages in a channel form a line: only its oldest is posted,
\* none that left it comes back, and a full queue makes room at the cost of one
\* low message, never of an urgent one.
LimiterIsLine == Line!LineSpec
===============================================================================

-------------------------------- MODULE SseHub --------------------------------
(***************************************************************************)
(* packages/server/src/http/sse-hub.ts under its one producer, the run     *)
(* controller with its SSE gateway: live run events fanned out to browsers *)
(* through bounded per-client queues, with a replayable history for the    *)
(* ones that connect late.                                                 *)
(*                                                                         *)
(* A message is its key and the number of its publication, so a later      *)
(* number of the same key is a newer revision.  Everything the hub does is *)
(* synchronous; what is open is how each socket answers a write, which     *)
(* Flush ranges over, and when sockets drain, close or time out.           *)
(***************************************************************************)
EXTENDS Naturals, FiniteSets, SequencesExt

CONSTANTS
    Clients,        \* connections, each made at most once
    Pulses,         \* replay keys of pulse frames
    MaxQueue,       \* MAX_QUEUE
    BacklogLimit,   \* retained history
    MaxPublishes,   \* bound: messages published
    MaxRuns         \* bound: runs the hub serves

ASSUME HubAssumption ==
    /\ {MaxQueue, BacklogLimit, MaxPublishes, MaxRuns} \subseteq Nat \ {0}
    /\ Pulses \cap {"status", "hello", "channel", "notice", "stopped", "truncated"} = {}

VARIABLES
    backlog,     \* history replayed to a late joiner
    bootstrap,   \* current hello and channel state, replayed before it
    truncated,   \* historyTruncated: a pulse has left the backlog
    ended,       \* closeAll() has ended this run's stream
    clients,     \* per connection: state, queue, paused, and what was written
    published,   \* messages published so far
    runs         \* runs started so far

vars == <<backlog, bootstrap, truncated, ended, clients, published, runs>>

Bootstraps == {"hello", "channel"}              \* have a bootstrapKey
Replayed == Pulses \cup {"status"}              \* have a replayKey
Coalesced == {"status"}                         \* have a coalesceKey
Keys == Bootstraps \cup Replayed \cup {"notice", "stopped"}

Message == [key : Keys \cup {"truncated"}, n : Nat]
Client == [state : {"new", "open", "closing", "ended", "gone"},
           queue : Seq(Message), paused : BOOLEAN, written : Seq(Message)]

TypeOK ==
    /\ backlog \in Seq(Message) /\ Len(backlog) <= BacklogLimit
    /\ bootstrap \in Seq(Message) /\ Len(bootstrap) <= Cardinality(Bootstraps)
    /\ truncated \in BOOLEAN
    /\ ended \in BOOLEAN
    /\ clients \in [Clients -> Client]
    /\ published \in 0..(MaxPublishes + MaxRuns)
    /\ runs \in 1..MaxRuns

NewClient == [state |-> "new", queue |-> <<>>, paused |-> FALSE, written |-> <<>>]
Gone == [NewClient EXCEPT !.state = "gone"]

\* A run has just started: resetBacklog() has been called.
Init ==
    /\ backlog = <<>>
    /\ bootstrap = <<>>
    /\ truncated = FALSE
    /\ ended = FALSE
    /\ clients = [c \in Clients |-> NewClient]
    /\ published = 0
    /\ runs = 1

-------------------------------------------------------------------------------
Connected(c) == c.state \in {"open", "closing"}

\* Fault: end() does not wait for the queue of a full socket.
WroteAndEnded(c, n, full) ==
    [c EXCEPT !.queue = SubSeq(@, n + 1, Len(@)),
              !.written = @ \o SubSeq(c.queue, 1, n),
              !.state = IF @ = "closing" THEN "ended" ELSE @,
              !.paused = full \/ @]

\* flush() after n chunks, the last of which the socket accepted with `full`.
\* A closing client whose queue is written is ended: end() flushes the socket.
Wrote(c, n, full) ==
    LET rest == SubSeq(c.queue, n + 1, Len(c.queue))
        done == c.state = "closing" /\ rest = <<>>
    IN  [c EXCEPT !.queue = rest,
                  !.written = @ \o SubSeq(c.queue, 1, n),
                  !.state = IF done THEN "ended" ELSE @,
                  !.paused = IF done THEN FALSE ELSE full \/ @]

\* flush(): the clients that can result.  Writing stops at the first chunk
\* that fills the socket; a socket that throws or has buffered too much is
\* removed; a paused client with something queued waits for its drain.
Flush(c) ==
    IF ~Connected(c) \/ (c.paused /\ c.queue # <<>>) THEN {c}
    ELSE {Wrote(c, Len(c.queue), FALSE)}
         \cup {Wrote(c, n, TRUE) : n \in 1..Len(c.queue)}
         \cup {Gone : n \in 1..Len(c.queue)}

Enqueued(c, q) == [c EXCEPT !.queue = q]

Coalescable(m) == m.key \in Coalesced

\* Faults: a revision takes the place of the one it replaces; a full queue
\* loses its oldest message, whatever it is.
EnqueueInPlace(c, m) ==
    LET Older(x) == x.key = m.key
    IN  IF c.state # "open" THEN c
        ELSE IF m.key \in Replayed /\ \E x \in Range(c.queue) : Older(x)
        THEN Enqueued(c, [i \in DOMAIN c.queue |-> IF Older(c.queue[i]) THEN m ELSE c.queue[i]])
        ELSE Enqueued(c, Append(c.queue, m))

EnqueueOverOldest(c, m) ==
    LET Older(x) == x.key = m.key /\ m.key \in Replayed
        q == Append(RemoveFirstMatch(c.queue, Older), m)
    IN  IF c.state # "open" THEN c
        ELSE Enqueued(c, IF Len(q) > MaxQueue THEN Tail(q) ELSE q)

\* enqueue(): a newer revision takes its predecessor out of the queue.  Past
\* the limit the oldest coalescable message goes, and without one the client.
\* (A coalescable message has a replay key as well, so the in-place
\* replacement by coalesceKey never finds anything to replace.)
Enqueue(c, m) ==
    LET Older(x) == x.key = m.key
        q == Append(c.queue, m)
    IN  IF c.state # "open" THEN c
        ELSE IF m.key \in Replayed /\ \E x \in Range(c.queue) : Older(x)
        THEN Enqueued(c, Append(RemoveFirstMatch(c.queue, Older), m))
        ELSE IF Len(q) <= MaxQueue THEN Enqueued(c, q)
        ELSE IF \E x \in Range(q) : Coalescable(x)
        THEN Enqueued(c, RemoveFirstMatch(q, Coalescable))
        ELSE Gone

\* finishClient(): a client is closing until its queue is written.
Finish(c) == IF c.state = "open" THEN Flush([c EXCEPT !.state = "closing"]) ELSE {c}

-------------------------------------------------------------------------------
\* publish()'s bookkeeping.  The backlog keeps the latest revision of each
\* replay key, in the order of publication, up to its limit.
Retain(m) ==
    LET Older(x) == x.key = m.key
        kept == IF m.key \in Replayed THEN RemoveFirstMatch(backlog, Older) ELSE backlog
        q == Append(kept, m)
    IN  IF m.key \in Bootstraps
        THEN /\ bootstrap' = IF \E x \in Range(bootstrap) : Older(x)
                             THEN [i \in DOMAIN bootstrap |->
                                     IF Older(bootstrap[i]) THEN m ELSE bootstrap[i]]
                             ELSE Append(bootstrap, m)
             /\ UNCHANGED <<backlog, truncated>>
        ELSE /\ backlog' = IF Len(q) > BacklogLimit THEN Tail(q) ELSE q
             /\ truncated' = (truncated \/ (Len(q) > BacklogLimit /\ Head(q).key \in Pulses))
             /\ UNCHANGED bootstrap

IsHello(m) == m.key = "hello"

SaidHello == \E m \in Range(bootstrap) : IsHello(m)

\* The controller says hello once, when the simulation is built, and pulses
\* begin after it.  Channels are announced while the simulation is being built
\* and whenever their members change.
Publish(key) ==
    LET m == [key |-> key, n |-> published + 1]
    IN  /\ ~ended
        /\ published < MaxPublishes
        /\ key = "hello" => ~SaidHello
        /\ key \in Pulses => SaidHello
        /\ published' = m.n
        /\ Retain(m)
        /\ clients' \in [Clients -> UNION {Flush(Enqueue(clients[c], m)) : c \in Clients}]
        /\ \A c \in Clients : clients'[c] \in Flush(Enqueue(clients[c], m))
        /\ UNCHANGED <<ended, runs>>

\* The end of teardown(): `stopped` is published and closeAll() finishes every
\* client, with no await between the two.
PublishStoppedAndCloseAll ==
    LET m == [key |-> "stopped", n |-> published + 1]
        Finished(c) == UNION {Finish(x) : x \in Flush(Enqueue(clients[c], m))}
    IN  /\ ~ended
        /\ ended' = TRUE
        /\ published < MaxPublishes + MaxRuns
        /\ published' = m.n
        /\ Retain(m)
        /\ clients' \in [Clients -> UNION {Finished(c) : c \in Clients}]
        /\ \A c \in Clients : clients'[c] \in Finished(c)
        /\ UNCHANGED runs

\* RunController.start(): resetBacklog() for the next run.
ResetBacklog ==
    /\ ended
    /\ runs < MaxRuns
    /\ runs' = runs + 1
    /\ backlog' = <<>>
    /\ bootstrap' = <<>>
    /\ truncated' = FALSE
    /\ ended' = FALSE
    /\ UNCHANGED <<clients, published>>

Notice == IF truncated THEN <<[key |-> "truncated", n |-> 0]>> ELSE <<>>

\* The sort by type moves the hello, of which the map holds one, to the front.
HelloToFront(q) ==
    IF \E m \in Range(q) : IsHello(m)
    THEN <<q[SelectInSeq(q, IsHello)]>> \o RemoveFirstMatch(q, IsHello)
    ELSE q

\* Fault: the backlog is replayed before the bootstrap state.
HistoryBacklogFirst == backlog \o HelloToFront(bootstrap) \o Notice

\* What a new connection is replayed: hello first, then channels, then the
\* notice that history is missing, then the backlog.
History == HelloToFront(bootstrap) \o Notice \o backlog

Subscribe(c) ==
    LET joined == [NewClient EXCEPT !.state = "open", !.queue = History]
    IN  /\ clients[c].state = "new"
        /\ \E x \in IF ended THEN Finish(joined) ELSE Flush(joined) :
             clients' = [clients EXCEPT ![c] = x]
        /\ UNCHANGED <<backlog, bootstrap, truncated, ended, published, runs>>

-------------------------------------------------------------------------------
\* The socket has room again.
Drain(c) ==
    /\ Connected(clients[c]) /\ clients[c].paused
    /\ \E x \in Flush([clients[c] EXCEPT !.paused = FALSE]) :
         clients' = [clients EXCEPT ![c] = x]
    /\ UNCHANGED <<backlog, bootstrap, truncated, ended, published, runs>>

\* The socket closes or fails.
PeerCloses(c) ==
    /\ Connected(clients[c])
    /\ clients' = [clients EXCEPT ![c] = Gone]
    /\ UNCHANGED <<backlog, bootstrap, truncated, ended, published, runs>>

\* A closing socket that never drains is destroyed after FINAL_DRAIN_TIMEOUT_MS.
FinalDrainTimeout(c) ==
    /\ clients[c].state = "closing"
    /\ clients' = [clients EXCEPT ![c] = Gone]
    /\ UNCHANGED <<backlog, bootstrap, truncated, ended, published, runs>>

Next ==
    \/ \E key \in Keys \ {"stopped"} : Publish(key)
    \/ PublishStoppedAndCloseAll
    \/ ResetBacklog
    \/ \E c \in Clients : Subscribe(c) \/ Drain(c) \/ PeerCloses(c) \/ FinalDrainTimeout(c)

Spec == Init /\ [][Next]_vars

-------------------------------------------------------------------------------
\* What a client has been sent and will be sent, in order.
Stream(c) == clients[c].written \o clients[c].queue

\* A client connected to the run misses nothing a client connecting now would
\* be replayed: whatever pauses, drains and revisions lie behind it, each
\* retained pulse frame, in its latest revision, and the current hello and
\* channels are written to it or queued for it.  (The status is not: it may be
\* the victim that makes room in a full queue.)
MissesNothingRetained ==
    \A c \in Clients : clients[c].state = "open" =>
        \A m \in Range(bootstrap \o backlog) : m.key \notin Coalesced => m \in Range(Stream(c))

\* Pulse frames and statuses reach a browser in the order of publication and
\* at most once, over the replayed history, the queue and its replacements.
StreamInOrder ==
    \A c \in Clients : \A i, j \in DOMAIN Stream(c) :
        (i < j /\ {Stream(c)[i].key, Stream(c)[j].key} \cap (Bootstraps \cup {"truncated"}) = {})
            => Stream(c)[i].n < Stream(c)[j].n

\* A browser is told what the run is before it is told what happens in it: it
\* ignores a pulse frame, or a change of a channel, that it is sent before hello.
HelloComesFirst ==
    \A c \in Clients : \A i \in DOMAIN Stream(c) :
        /\ Stream(c)[i].key \in Pulses => \E j \in 1..(i - 1) : IsHello(Stream(c)[j])
        /\ \A j \in 1..(i - 1) :
              IsHello(Stream(c)[i]) /\ Stream(c)[j].key = "channel"
                  => Stream(c)[j].n < Stream(c)[i].n

\* A stream the hub ends itself, rather than destroys, ends with `stopped`:
\* the browser does not take a cut connection for the end of the run.
EndsWithStopped ==
    \A c \in Clients : clients[c].state = "ended" => Last(clients[c].written).key = "stopped"
===============================================================================

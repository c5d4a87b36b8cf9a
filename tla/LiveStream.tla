------------------------------ MODULE LiveStream ------------------------------
(***************************************************************************)
(* The live view of one run, end to end: delivery/sse-delivery-gateway.ts  *)
(* turns the events of a pulse into cumulative frames, the hub (http/      *)
(* sse-hub.ts, here only its retained history and one connection) carries  *)
(* them, and web/src/api/useRunStream.ts folds what arrives into the       *)
(* replay the page shows.                                                  *)
(*                                                                         *)
(* The connection may break whenever it likes and loses what was on its    *)
(* way; EventSource opens it again.  The content of a frame is the number  *)
(* of things it shows.                                                     *)
(***************************************************************************)
EXTENDS Naturals, SequencesExt

CONSTANTS
    RunPulses,      \* pulses the run asks for
    BacklogLimit,   \* SSE_BACKLOG
    MaxItems,       \* bound: events delivered in a pulse
    MaxCuts         \* bound: broken connections

ASSUME LiveAssumption ==
    /\ {RunPulses, MaxItems, MaxCuts} \subseteq Nat
    /\ BacklogLimit \in Nat \ {0}

VARIABLES
    phase,      \* the run: building, running, stopped, or replaced by the next
    pulse,      \* the pulse under way
    frame,      \* the gateway's partial frame of that pulse
    announced,  \* per pulse, the last frame the gateway has published
    hub,        \* hello retained, backlog, historyTruncated
    link,       \* EventSource: down, up, or closed for good
    queue,      \* the hub's queue for the connection
    wire,       \* what was written to its socket and is on its way
    view,       \* what the page shows
    cuts        \* broken connections so far

runVars == <<phase, pulse, frame, announced>>
liveVars == <<runVars, hub, link, queue, wire, view, cuts>>

Pulses == 0 .. RunPulses
Frame == [items : 0 .. MaxItems, revision : Nat, complete : BOOLEAN]
emptyFrame == [items |-> 0, revision |-> 0, complete |-> FALSE]

Message(type) == [type |-> type, pulse |-> 0, frame |-> emptyFrame]
PulseMessage(p, f) == [type |-> "pulse", pulse |-> p, frame |-> f]
Messages == [type : {"hello", "status", "truncated", "pulse", "stopped"},
             pulse : Pulses, frame : Frame]

\* Every variable has its type, and the backlog keeps to its limit.
LiveTypeOK ==
    /\ phase \in {"building", "running", "stopped", "replaced"}
    /\ pulse \in Pulses
    /\ frame \in Frame
    /\ announced \in [Pulses -> Frame]
    /\ hub \in [hello : BOOLEAN, backlog : Seq(Messages), truncated : BOOLEAN]
    /\ Len(hub.backlog) <= BacklogLimit
    /\ link \in {"down", "up", "closed"}
    /\ queue \in Seq(Messages) /\ wire \in Seq(Messages)
    /\ view \in [hello : BOOLEAN, told : BOOLEAN, stopped : BOOLEAN, lost : BOOLEAN,
                 pulses : [Pulses -> Frame]]
    /\ cuts \in 0 .. MaxCuts

LiveInit ==
    /\ phase = "building"
    /\ pulse = 0
    /\ frame = emptyFrame
    /\ announced = [p \in Pulses |-> emptyFrame]
    /\ hub = [hello |-> FALSE, backlog |-> <<>>, truncated |-> FALSE]
    /\ link = "down"
    /\ queue = <<>> /\ wire = <<>>
    /\ view = [hello |-> FALSE, told |-> FALSE, stopped |-> FALSE, lost |-> FALSE,
               pulses |-> [p \in Pulses |-> emptyFrame]]
    /\ cuts = 0

-------------------------------------------------------------------------------
\* The hub.  A pulse frame and the status have a replayKey: a newer revision
\* takes its predecessor's place at the end.
Replaces(m, x) == x.type \in {"pulse", "status"} /\ x.type = m.type /\ x.pulse = m.pulse

Added(q, m) == Append(RemoveFirstMatch(q, LAMBDA x : Replaces(m, x)), m)

\* Faults: an expired frame leaves no notice; only events of the past are
\* kept, so the end of the run is not.
RetainedQuietly(h, m) ==
    LET b == Added(h.backlog, m)
    IN  [h EXCEPT !.backlog = IF Len(b) > BacklogLimit THEN Tail(b) ELSE b]

RetainedHistory(h, m) ==
    LET b == Added(h.backlog, m)
    IN  IF m.type = "stopped" THEN h
        ELSE IF Len(b) <= BacklogLimit THEN [h EXCEPT !.backlog = b]
        ELSE [h EXCEPT !.backlog = Tail(b), !.truncated = @ \/ Head(b).type = "pulse"]

\* publish() into the history: past the limit the oldest message leaves, and
\* historyTruncated remembers that a pulse has left.
Retained(h, m) ==
    LET b == Added(h.backlog, m)
    IN  IF m.type = "hello" THEN [h EXCEPT !.hello = TRUE]
        ELSE IF Len(b) <= BacklogLimit THEN [h EXCEPT !.backlog = b]
        ELSE [h EXCEPT !.backlog = Tail(b), !.truncated = @ \/ Head(b).type = "pulse"]

\* What a subscriber is sent first.
Replay(h) ==
    (IF h.hello THEN <<Message("hello")>> ELSE <<>>)
        \o (IF h.truncated THEN <<Message("truncated")>> ELSE <<>>) \o h.backlog

\* publish(), once and twice in a row: to the history and to the queue of the
\* connection.  What is written already is not taken back.
Sent(q, m) == IF link = "up" THEN Added(q, m) ELSE q

Publish(m) ==
    /\ hub' = Retained(hub, m)
    /\ queue' = Sent(queue, m)
    /\ UNCHANGED <<link, wire, view, cuts>>

PublishBoth(m, n) ==
    /\ hub' = Retained(Retained(hub, m), n)
    /\ queue' = Sent(Sent(queue, m), n)
    /\ UNCHANGED <<link, wire, view, cuts>>

-------------------------------------------------------------------------------
\* The gateway and its producer.

\* Seeds are applied, hello is published, the status says running.
Hello ==
    /\ phase = "building"
    /\ phase' = "running"
    /\ PublishBoth(Message("hello"), Message("status"))
    /\ UNCHANGED <<pulse, frame, announced>>

Delivering == phase = "running" /\ pulse < RunPulses /\ frame.items < MaxItems

\* An action_intent is collected but not shown: the act is not committed yet.
Think ==
    /\ Delivering
    /\ frame' = [frame EXCEPT !.items = @ + 1]
    /\ UNCHANGED <<phase, pulse, announced, hub, link, queue, wire, view, cuts>>

\* A visible event, a state snapshot or a notice: collected and published with
\* everything collected so far, as the next revision.
Deliver ==
    LET f == [frame EXCEPT !.items = @ + 1, !.revision = @ + 1]
    IN  /\ Delivering
        /\ frame' = f
        /\ announced' = [announced EXCEPT ![pulse] = f]
        /\ Publish(PulseMessage(pulse, f))
        /\ UNCHANGED <<phase, pulse>>

\* onPulse: commitPulse() seals the frame, and the status is published.
CommitPulse ==
    LET f == [frame EXCEPT !.revision = @ + 1, !.complete = TRUE]
    IN  /\ phase = "running" /\ pulse < RunPulses
        /\ announced' = [announced EXCEPT ![pulse] = f]
        /\ PublishBoth(PulseMessage(pulse, f), Message("status"))
        /\ pulse' = pulse + 1
        /\ frame' = emptyFrame
        /\ UNCHANGED phase

\* teardown(): after a build that fails, between pulses, or after a pulse that
\* throws and leaves its frame unsealed.
RunStops ==
    /\ phase \in {"building", "running"}
    /\ phase' = "stopped"
    /\ PublishBoth(Message("status"), Message("stopped"))
    /\ UNCHANGED <<pulse, frame, announced>>

\* start() of the next run: this run's stream is no longer served.
NextRun ==
    /\ phase = "stopped"
    /\ phase' = "replaced"
    /\ UNCHANGED <<pulse, frame, announced, hub, link, queue, wire, view, cuts>>

-------------------------------------------------------------------------------
\* The browser.

\* EventSource connects, or connects again.  A run that is not the current one
\* answers 404, after which EventSource does not try again.
Connect ==
    /\ link = "down"
    /\ IF phase = "replaced"
       THEN link' = "closed" /\ view' = [view EXCEPT !.lost = TRUE] /\ UNCHANGED <<queue, wire>>
       ELSE link' = "up" /\ queue' = Replay(hub) /\ wire' = <<>> /\ UNCHANGED view
    /\ UNCHANGED <<runVars, hub, cuts>>

\* flush() writes the next message: when it is queued, or when the socket that
\* was full has drained.
Write ==
    /\ link = "up" /\ queue # <<>>
    /\ wire' = Append(wire, Head(queue))
    /\ queue' = Tail(queue)
    /\ UNCHANGED <<runVars, hub, link, view, cuts>>

Cut ==
    /\ link = "up" /\ cuts < MaxCuts
    /\ link' = "down"
    /\ queue' = <<>> /\ wire' = <<>>
    /\ cuts' = cuts + 1
    /\ UNCHANGED <<runVars, hub, view>>

\* upsertPulse(): an older revision does not replace a newer one.
Upserted(pulses, m) ==
    IF pulses[m.pulse].revision > m.frame.revision THEN pulses
    ELSE [pulses EXCEPT ![m.pulse] = m.frame]

\* Fault: every hello starts the replay over.
FoldedAfresh(v, m) ==
    CASE m.type = "hello" -> [v EXCEPT !.hello = TRUE, !.pulses = [p \in Pulses |-> emptyFrame]]
      [] m.type = "truncated" -> [v EXCEPT !.told = TRUE]
      [] m.type = "pulse" /\ v.hello -> [v EXCEPT !.pulses = Upserted(@, m)]
      [] m.type = "stopped" -> [v EXCEPT !.stopped = TRUE]
      [] OTHER -> v

\* fold(): the first hello opens an empty replay; the one of a reconnect keeps
\* the pulses already shown.
Folded(v, m) ==
    CASE m.type = "hello" -> [v EXCEPT !.hello = TRUE]
      [] m.type = "truncated" -> [v EXCEPT !.told = TRUE]
      [] m.type = "pulse" /\ v.hello -> [v EXCEPT !.pulses = Upserted(@, m)]
      [] m.type = "stopped" -> [v EXCEPT !.stopped = TRUE]
      [] OTHER -> v

\* onMessage: fold, and close the source once the run has stopped.
Receive ==
    /\ link = "up" /\ wire # <<>>
    /\ view' = Folded(view, Head(wire))
    /\ IF Head(wire).type = "stopped"
       THEN link' = "closed" /\ queue' = <<>> /\ wire' = <<>>
       ELSE wire' = Tail(wire) /\ UNCHANGED <<link, queue>>
    /\ UNCHANGED <<runVars, hub, cuts>>

LiveNext ==
    \/ Hello \/ Think \/ Deliver \/ CommitPulse \/ RunStops \/ NextRun
    \/ Connect \/ Write \/ Cut \/ Receive

LiveSpec == LiveInit /\ [][LiveNext]_liveVars

\* The browser's event loop runs, so that its socket drains, and EventSource
\* retries after `retry:`.
LiveFairSpec ==
    LiveSpec /\ WF_liveVars(Connect) /\ WF_liveVars(Write) /\ WF_liveVars(Receive)

-------------------------------------------------------------------------------
\* What the page has shown of a pulse it never takes back, whatever the
\* connection does and however old the history a reconnect is sent
\* (useRunStream.ts: keep what is already folded).
ShownNeverShrinks ==
    [][\A p \in Pulses : view'.pulses[p].items >= view.pulses[p].items]_view

\* A page that has been told the run is over shows every pulse exactly as the
\* gateway last published it, unless the pulse has left the history and the
\* page says that history has expired: no revision is lost between the gateway,
\* the bounded history, a broken connection and the fold.
StoppedShowsAll ==
    view.stopped =>
        \A p \in Pulses :
            \/ view.pulses[p] = announced[p]
            \/ view.told /\ \A m \in Range(hub.backlog) : m.type # "pulse" \/ m.pulse # p

\* Once the run has stopped the page learns it, or learns that its stream has
\* gone: it does not wait for ever on a run that ended while it was away.
EndIsSeen == phase = "stopped" ~> view.stopped \/ view.lost

===============================================================================

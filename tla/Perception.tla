------------------------------- MODULE Perception ------------------------------
(***************************************************************************)
(* How a committed event reaches the agents: the SQLite event log          *)
(* (persistence/sqlite/event-repository.ts), which orders by creation time *)
(* and by id as text, the pulse that reads it (simulation/                 *)
(* pulse-scheduler.ts) and the cursor each agent keeps in it               *)
(* (engine/src/memory/get-new-events-since.ts).                            *)
(*                                                                         *)
(* Events are named by their place in the order they were appended, which  *)
(* is the order of the in-memory log (simulation/in-memory-stores.ts): the *)
(* case of this module in which TextRank keeps the order of the counters   *)
(* and the clock moves between appends.  Both halves of an id              *)
(* `evt_<ms>_<counter>` are read within the synchronous append, so its     *)
(* milliseconds are those of created_at.                                   *)
(***************************************************************************)
EXTENDS Naturals, Sequences, FiniteSets

CONSTANTS
    Agents, NoAgent,
    GoalAgents,     \* the agents that may have goals
    Rooms, Lobby,   \* channels; the default public one
    Nowhere,        \* stands for the room of an operator_only event
    Window,         \* CONTEXT_WINDOW_PULSES_LIMIT: events a context holds
    TextRank,       \* the place of a counter's numeral in the order of text
    MaxIds,         \* bound: ids given out
    MaxClock        \* bound: milliseconds

ASSUME PerceptionAssumption ==
    /\ NoAgent \notin Agents /\ GoalAgents \subseteq Agents
    /\ Lobby \in Rooms /\ Nowhere \notin Rooms
    /\ {Window, MaxClock} \subseteq Nat /\ MaxIds \in Nat \ {0}
    /\ TextRank \in [1 .. MaxIds -> Nat]

VARIABLES
    log,        \* the committed events, in the order of their appends
    counter,    \* _counter, of the process
    clock,      \* Date.now()
    member,     \* the memberships, per room
    todo,       \* agents whose turn in this pulse is to come
    seen,       \* length of the log when the pulse read its context
    known,      \* the memberships the pulse has read
    turn,       \* the turn under way
    stored,     \* lastProcessedEventId of each stored agent state, 0 when null
    processed,  \* history: what each agent has taken for new
    lapsed      \* history: agents whose state failed to be read or written (bound: one)

events == <<log, counter, clock>>
pulse == <<seen, known>>
vars == <<events, member, pulse, todo, turn, stored, processed, lapsed>>

Positions == 1 .. Len(log)

\* An event's visibleToAgents, where empty is for everybody in its room; and,
\* as history, those of its room's members whom it was for when committed.
Event == [room : Rooms \cup {Nowhere}, visibleToAgents : SUBSET Agents, to : SUBSET Agents,
          created : 0 .. MaxClock, no : 1 .. MaxIds]

\* A turn: the agent and the cursor its updated state carries.
Turn == [agent : Agents \cup {NoAgent}, cursor : Nat]
NoTurn == [agent |-> NoAgent, cursor |-> 0]

\* Every variable has its type; cursors name events of the log.
TypeOK ==
    /\ log \in Seq(Event)
    /\ counter \in 0 .. MaxIds
    /\ clock \in 0 .. MaxClock
    /\ member \in [Rooms -> SUBSET Agents]
    /\ known \in [Rooms -> SUBSET Agents]
    /\ todo \subseteq Agents
    /\ seen \in 0 .. Len(log)
    /\ turn \in Turn /\ turn.cursor <= Len(log)
    /\ stored \in [Agents -> 0 .. Len(log)]
    /\ processed \in [Agents -> SUBSET Positions]
    /\ lapsed \subseteq Agents

-------------------------------------------------------------------------------
\* The event log.

\* ORDER BY created_at ASC, id ASC.
Before(p, q) ==
    \/ log[p].created < log[q].created
    \/ /\ log[p].created = log[q].created
       /\ TextRank[log[p].no] < TextRank[log[q].no]

\* Whom an event in room r is for, with memberships m and visibleToAgents v.
For(r, m, v) == IF r = Nowhere THEN {} ELSE IF v = {} THEN m[r] ELSE m[r] \cap v

\* append() of events that belong to rooms, for v in them, with memberships m:
\* one creation time for all, an id of its own for each.
Append_(rooms, m, v) ==
    LET batch == [i \in DOMAIN rooms |->
                     [room |-> rooms[i], created |-> clock, no |-> counter + i,
                      visibleToAgents |-> v, to |-> For(rooms[i], m, v)]]
    IN  /\ counter + Len(rooms) <= MaxIds
        /\ counter' = counter + Len(rooms)
        /\ log' = log \o batch
        /\ UNCHANGED clock

\* A transaction that is rolled back leaves the counter where it got to.
AppendRejects(rooms) ==
    /\ counter + Len(rooms) <= MaxIds
    /\ counter' = counter + Len(rooms)
    /\ UNCHANGED <<log, clock>>

-------------------------------------------------------------------------------
\* What an agent takes for new.

Shown(upto) == {p \in 1 .. upto : log[p].room # Nowhere}

\* Fault: the window keeps the oldest events.
InWindowOldest(upto) ==
    {p \in Shown(upto) : Cardinality({q \in Shown(upto) : Before(q, p)}) < Window}

\* The rolling window: the last events that are not operator_only.
InWindow(upto) ==
    {p \in Shown(upto) : Cardinality({q \in Shown(upto) : Before(p, q)}) < Window}

\* filterVisibleEventsForAgent().  The event types it blocks are committed as
\* operator_only.
Visible(a) ==
    {p \in InWindow(seen) :
        /\ a \in known[log[p].room]
        /\ log[p].visibleToAgents = {} \/ a \in log[p].visibleToAgents}

\* Faults: the event at the cursor is new again; a lost cursor begins afresh.
NewSinceInclusive(c, S) ==
    IF c = 0 THEN S ELSE IF c \notin S THEN {} ELSE {c} \cup {p \in S : Before(c, p)}

NewSinceAfresh(c, S) ==
    IF c \notin S THEN S ELSE {p \in S : Before(c, p)}

\* getNewEventsSince(): a cursor outside of the events gives none.
NewSince(c, S) ==
    IF c = 0 THEN S ELSE IF c \notin S THEN {} ELSE {p \in S : Before(c, p)}

\* getLastEventId() of the new events, or the cursor as it was.
Advanced(c, S) ==
    LET N == NewSince(c, S)
    IN  IF N = {} THEN {c} ELSE {p \in N : \A q \in N : ~Before(p, q)}

Init ==
    /\ member = [r \in Rooms |-> IF r = Lobby THEN Agents ELSE {}]
    \* the start of the simulation, or a seed of the web run
    /\ log = <<[room |-> Lobby, visibleToAgents |-> {}, to |-> Agents, created |-> 0, no |-> 1]>>
    /\ counter = 1
    /\ clock = 0
    /\ todo = {} /\ seen = 0 /\ known = member
    /\ turn = NoTurn
    /\ stored = [a \in Agents |-> 0]
    /\ processed = [a \in Agents |-> {}]
    /\ lapsed = {}

\* executePulse() reads channels, memberships and events, once.
BeginPulse ==
    /\ todo = {} /\ turn = NoTurn
    /\ todo' = Agents
    /\ seen' = Len(log)
    /\ known' = member
    /\ UNCHANGED <<events, member, turn, stored, processed, lapsed>>

\* An agent's turn and the engine's step in it.  The order of the turns is
\* drawn anew each pulse.  loaded: the stored state could be read; the
\* configured one, which stands in for it, has no cursor.  The refresh of the
\* event window before the turn reaches only the world signals.
BeginTurn(a, loaded) ==
    /\ turn = NoTurn /\ a \in todo
    /\ loaded \/ lapsed = {}
    /\ todo' = todo \ {a}
    /\ LET c == IF loaded THEN stored[a] ELSE 0
       IN  /\ processed' = [processed EXCEPT ![a] = @ \cup NewSince(c, Visible(a))]
           /\ \E n \in Advanced(c, Visible(a)) :
                turn' = [agent |-> a, cursor |-> n]
    /\ lapsed' = IF loaded THEN lapsed ELSE lapsed \cup {a}
    /\ UNCHANGED <<events, member, pulse, stored>>

\* The turn ends with persistAndSnapshot(), whose write may fail.
Persist(saved) ==
    /\ turn # NoTurn
    /\ saved \/ lapsed = {}
    /\ turn' = NoTurn
    /\ stored' = IF saved THEN [stored EXCEPT ![turn.agent] = turn.cursor] ELSE stored
    /\ lapsed' = IF saved THEN lapsed ELSE lapsed \cup {turn.agent}
    /\ UNCHANGED <<pulse, todo, processed>>

\* Nothing is committed in the turn.
Silent(saved) ==
    /\ Persist(saved)
    /\ UNCHANGED <<events, member>>

\* An intent is resolved: the act in its room, for v in it, and the agent's
\* motive.  m are the memberships an invitation or a new channel has registered
\* before the append, which may reject.
Resolve(r, m, v, saved, committed) ==
    /\ Persist(saved)
    /\ member' = m
    /\ IF committed THEN Append_(<<r, Nowhere>>, m, v) ELSE AppendRejects(<<r, Nowhere>>)

Speak(r, saved, committed) ==
    /\ turn.agent \in member[r]
    /\ Resolve(r, member, {}, saved, committed)

\* create_channel or invite_agent, whose event is for its parties only.
Invite(r, guests, saved, committed) ==
    LET parties == guests \cup {turn.agent}
    IN  /\ turn.agent \in member[r] \/ member[r] = {}
        /\ Resolve(r, [member EXCEPT ![r] = @ \cup parties], parties, saved, committed)

\* Memories, a no_op and motives are committed as operator_only events.
Record ==
    /\ turn # NoTurn
    /\ Append_(<<Nowhere>>, member, {})
    /\ UNCHANGED <<member, pulse, todo, turn, stored, processed, lapsed>>

\* pause() and stop() append at any moment.
Lifecycle ==
    /\ Append_(<<Lobby>>, member, {})
    /\ UNCHANGED <<member, pulse, todo, turn, stored, processed, lapsed>>

\* The world review at the end of a pulse: an event for the agent of a goal, in
\* the room of one of the events it sprang from.
Announce(a, r) ==
    /\ todo = {} /\ turn = NoTurn
    /\ Append_(<<r>>, member, {a})
    /\ UNCHANGED <<member, pulse, todo, turn, stored, processed, lapsed>>

\* The wall clock moves.
Tick ==
    /\ clock < MaxClock
    /\ clock' = clock + 1
    /\ UNCHANGED <<log, counter, member, pulse, todo, turn, stored, processed, lapsed>>

EndTurn ==
    \E saved \in BOOLEAN :
        \/ Silent(saved)
        \/ \E r \in Rooms, committed \in BOOLEAN :
            \/ Speak(r, saved, committed)
            \/ \E guests \in SUBSET Agents : Invite(r, guests, saved, committed)

Next ==
    \/ BeginPulse
    \/ \E a \in Agents, loaded \in BOOLEAN : BeginTurn(a, loaded)
    \/ EndTurn
    \/ Record
    \/ Lifecycle
    \/ \E a \in GoalAgents, p \in Shown(Len(log)) : Announce(a, log[p].room)
    \/ Tick

Spec == Init /\ [][Next]_vars

\* The chain of pulses goes on, every agent has its turn in each and every
\* turn ends; nothing makes a read, a write or an append fail or an agent act.
Fairness ==
    /\ WF_vars(BeginPulse)
    /\ \A a \in Agents : WF_vars(\E loaded \in BOOLEAN : BeginTurn(a, loaded))
    /\ WF_vars(EndTurn)

FairSpec == Spec /\ Fairness

-------------------------------------------------------------------------------
\* No counter gained a digit, which puts it before smaller ones in the order
\* of text, between two events of one millisecond.
Even ==
    \A p, q \in Positions :
        p < q /\ log[p].created = log[q].created => TextRank[log[p].no] < TextRank[log[q].no]

\* "Old events never retrigger emotion cycles": whatever the order of the
\* log, an agent takes no event for new twice, unless its state failed to be
\* read or written.
ProcessedOnce ==
    [][turn' # turn /\ turn' # NoTurn =>
        \/ turn'.agent \in lapsed'
        \/ NewSince(stored[turn'.agent], Visible(turn'.agent)) \cap processed[turn'.agent] = {}]_vars

\* The cursor an agent has: its turn's, or that of its stored state.
Cursor(a) == IF turn.agent = a THEN turn.cursor ELSE stored[a]

\* A cursor passes over nothing its agent was to see: from the first event it
\* has processed to the one at its cursor, it has processed all of its rooms.
NothingSkipped ==
    Even => \A a \in Agents \ lapsed : \A first \in processed[a] :
        \A p \in first .. Cursor(a) : a \in log[p].to => p \in processed[a]

\* The cursor has fallen out of the window: the agent takes nothing for new
\* any more.
Deaf(a) == stored[a] # 0 /\ stored[a] \notin InWindow(Len(log))

\* An event committed in an agent's room after one that the agent has taken for
\* new is taken for new as well, if the agent does not go deaf.
Heard ==
    \A a \in Agents : \A p \in 2 .. MaxIds :
        p \in Positions /\ a \in log[p].to /\ (\E q \in processed[a] : q < p)
            ~> p \in processed[a] \/ a \in lapsed \/ ~Even \/ Deaf(a)

\* shared/src/engine/engine.types.ts: the window "MUST include the event at
\* agentState.lastProcessedEventId".  The code does not see to it.
WindowHasCursor ==
    turn # NoTurn /\ stored[turn.agent] # 0 => stored[turn.agent] \in InWindow(seen)
===============================================================================

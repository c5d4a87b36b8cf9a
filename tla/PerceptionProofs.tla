---------------------------- MODULE PerceptionProofs ---------------------------
(***************************************************************************)
(* That agents take no event for new twice, for every log, order of ids,   *)
(* window and clock; and that they skip none where the order of the log is *)
(* that of its appends.                                                    *)
(*                                                                         *)
(* An agent's cursor is behind nothing the agent has processed: that is    *)
(* all the first result needs, and it holds of any order of ids.  For the  *)
(* second, what lies between the cursor and a later event of the window    *)
(* lies in the window too, and in the rooms the pulse read: whoever was a  *)
(* member when an event was committed still is.                            *)
(***************************************************************************)
EXTENDS Perception, FiniteSetTheorems, TLAPS

\* A turn under way is an agent's.
Acting == turn # NoTurn => turn.agent \in Agents

\* Rooms keep their members: those of an event are members still, and those of
\* an event in the pulse's context are members in the pulse's memberships.
RoomsKept ==
    /\ \A p \in Positions : log[p].to # {} =>
        log[p].room \in Rooms /\ log[p].to \subseteq member[log[p].room]
    /\ \A p \in 1 .. seen : log[p].to # {} => log[p].to \subseteq known[log[p].room]

\* An event that is not for everybody in its room is for those it lists.
Addressed ==
    \A p \in Positions : log[p].visibleToAgents = {} \/ log[p].to \subseteq log[p].visibleToAgents

\* The wall clock does not go back.
Timely ==
    /\ \A p \in Positions : log[p].created <= clock
    /\ \A p, q \in Positions : p <= q => log[p].created <= log[q].created

\* Nothing processed lies behind the cursor, nor anything before there is one.
Forward ==
    \A a \in Agents \ lapsed :
        /\ Cursor(a) = 0 => processed[a] = {}
        /\ \A e \in processed[a] : ~Before(Cursor(a), e)

Inv == TypeOK /\ Acting /\ RoomsKept /\ Addressed /\ Timely /\ Forward /\ NothingSkipped

\* What any step does to the log and the memberships: both only grow, and an
\* event is for members of its room.
Grows ==
    /\ log' \in Seq(Event) /\ Len(log) <= Len(log')
    /\ counter' \in 0 .. MaxIds /\ clock' \in 0 .. MaxClock
    /\ \A p \in Positions : log'[p] = log[p]
    /\ clock <= clock'
    /\ \A p \in (Len(log) + 1) .. Len(log') : log'[p].created = clock'
    /\ member' \in [Rooms -> SUBSET Agents]
    /\ \A r \in Rooms : member[r] \subseteq member'[r]
    /\ \A p \in (Len(log) + 1) .. Len(log') : log'[p].to # {} =>
        log'[p].room \in Rooms /\ log'[p].to \subseteq member'[log'[p].room]
    /\ \A p \in (Len(log) + 1) .. Len(log') :
        log'[p].visibleToAgents = {} \/ log'[p].to \subseteq log'[p].visibleToAgents

-------------------------------------------------------------------------------
LEMMA Bounds ==
    /\ Window \in Nat /\ MaxIds \in Nat \ {0} /\ MaxClock \in Nat
    /\ TextRank \in [1 .. MaxIds -> Nat]
    /\ NoAgent \notin Agents /\ Lobby \in Rooms /\ Nowhere \notin Rooms
BY PerceptionAssumption

LEMMA Concat ==
    ASSUME NEW S, NEW s \in Seq(S), NEW t \in Seq(S)
    PROVE  /\ s \o t \in Seq(S) /\ Len(s \o t) = Len(s) + Len(t)
           /\ \A p \in 1 .. Len(s) : (s \o t)[p] = s[p]
           /\ \A p \in (Len(s) + 1) .. (Len(s) + Len(t)) : (s \o t)[p] = t[p - Len(s)]
OBVIOUS

\* append() adds the events, each for the members of its room.
LEMMA AppendGrows ==
    ASSUME TypeOK,
           NEW rooms \in Seq(Rooms \cup {Nowhere}),
           member' \in [Rooms -> SUBSET Agents],
           \A r \in Rooms : member[r] \subseteq member'[r],
           NEW v \in SUBSET Agents,
           Append_(rooms, member', v)
    PROVE  Grows
<1> DEFINE batch == [i \in DOMAIN rooms |->
                        [room |-> rooms[i], created |-> clock, no |-> counter + i,
                         visibleToAgents |-> v, to |-> For(rooms[i], member', v)]]
<1>1. /\ counter + Len(rooms) <= MaxIds /\ counter' = counter + Len(rooms)
      /\ log' = log \o batch /\ clock' = clock
  BY DEF Append_
<1>2. /\ log \in Seq(Event) /\ Len(log) \in Nat /\ counter \in Nat /\ clock \in 0 .. MaxClock
      /\ Len(rooms) \in Nat /\ DOMAIN rooms = 1 .. Len(rooms)
  BY Bounds DEF TypeOK
<1>3. \A i \in 1 .. Len(rooms) : batch[i] \in Event
  <2> TAKE i \in 1 .. Len(rooms)
  <2>1. rooms[i] \in Rooms \cup {Nowhere}
    OBVIOUS
  <2>2. counter + i \in 1 .. MaxIds
    BY <1>1, <1>2, Bounds
  <2>3. For(rooms[i], member', v) \in SUBSET Agents
    BY <2>1 DEF For
  <2> QED
    BY <1>2, <2>1, <2>2, <2>3 DEF Event
<1>4. batch \in Seq(Event) /\ Len(batch) = Len(rooms)
  <2>1. batch \in [1 .. Len(rooms) -> Event]
    BY <1>2, <1>3
  <2>2. DOMAIN batch = 1 .. Len(rooms)
    BY <1>2
  <2> HIDE DEF batch
  <2> QED
    BY <1>2, <2>1, <2>2
<1>5. /\ log' \in Seq(Event) /\ Len(log') = Len(log) + Len(rooms)
      /\ \A p \in 1 .. Len(log) : log'[p] = log[p]
      /\ \A p \in (Len(log) + 1) .. Len(log') : log'[p] = batch[p - Len(log)]
  <2> HIDE DEF batch
  <2>1. /\ log \o batch \in Seq(Event) /\ Len(log \o batch) = Len(log) + Len(batch)
        /\ \A p \in 1 .. Len(log) : (log \o batch)[p] = log[p]
        /\ \A p \in (Len(log) + 1) .. (Len(log) + Len(batch)) :
              (log \o batch)[p] = batch[p - Len(log)]
    BY <1>2, <1>4, Concat
  <2> QED
    BY <1>1, <1>4, <2>1
<1>6. \A p \in (Len(log) + 1) .. Len(log') : log'[p].to # {} =>
          log'[p].room \in Rooms /\ log'[p].to \subseteq member'[log'[p].room]
  <2> SUFFICES ASSUME NEW p \in (Len(log) + 1) .. Len(log'), log'[p].to # {}
               PROVE  log'[p].room \in Rooms /\ log'[p].to \subseteq member'[log'[p].room]
    OBVIOUS
  <2>1. p - Len(log) \in 1 .. Len(rooms)
    BY <1>2, <1>5
  <2>2. PICK i \in 1 .. Len(rooms) : i = p - Len(log)
    BY <2>1
  <2>3. log'[p] = batch[i] /\ rooms[i] \in Rooms \cup {Nowhere}
    <3> HIDE DEF batch
    <3> QED
      BY <1>5, <2>2
  <2>4. /\ batch[i].room = rooms[i]
        /\ batch[i].to = For(rooms[i], member', v)
    BY <1>2, <2>2
  <2> QED
    BY <2>3, <2>4 DEF For
<1>7. counter' \in 0 .. MaxIds /\ clock' \in 0 .. MaxClock /\ Len(log) <= Len(log')
  BY <1>1, <1>2, <1>5, Bounds
<1>8. \A p \in (Len(log) + 1) .. Len(log') : log'[p].created = clock
  <2> SUFFICES ASSUME NEW p \in (Len(log) + 1) .. Len(log')
               PROVE  log'[p].created = clock
    OBVIOUS
  <2>1. p - Len(log) \in 1 .. Len(rooms)
    BY <1>2, <1>5
  <2>2. log'[p] = batch[p - Len(log)]
    <3> HIDE DEF batch
    <3> QED
      BY <1>5
  <2>3. \A i \in 1 .. Len(rooms) : batch[i].created = clock
    BY <1>2
  <2> HIDE DEF batch
  <2> QED
    BY <2>1, <2>2, <2>3
<1>9. clock <= clock' /\ \A p \in (Len(log) + 1) .. Len(log') : log'[p].created = clock'
  <2>1. clock \in Nat /\ clock' = clock
    BY <1>1, <1>2, Bounds
  <2> QED
    BY <1>8, <2>1
<1>10. \A p \in (Len(log) + 1) .. Len(log') :
           log'[p].visibleToAgents = {} \/ log'[p].to \subseteq log'[p].visibleToAgents
  <2> SUFFICES ASSUME NEW p \in (Len(log) + 1) .. Len(log')
               PROVE  log'[p].visibleToAgents = {} \/ log'[p].to \subseteq log'[p].visibleToAgents
    OBVIOUS
  <2>1. p - Len(log) \in 1 .. Len(rooms)
    BY <1>2, <1>5
  <2>2. log'[p] = batch[p - Len(log)]
    <3> HIDE DEF batch
    <3> QED
      BY <1>5
  <2>3. \A i \in 1 .. Len(rooms) :
            batch[i].visibleToAgents = {} \/ batch[i].to \subseteq batch[i].visibleToAgents
    BY <1>2 DEF For
  <2> HIDE DEF batch
  <2> QED
    BY <2>1, <2>2, <2>3
<1> HIDE DEF batch
<1> QED
  BY <1>5, <1>6, <1>7, <1>9, <1>10 DEF Grows, Positions

\* A step that leaves the log alone and takes no member away.
LEMMA SameGrows ==
    ASSUME TypeOK, UNCHANGED <<log, member>>,
           counter' \in 0 .. MaxIds, clock' \in 0 .. MaxClock, clock <= clock'
    PROVE  Grows
<1>1. log \in Seq(Event) /\ Len(log) \in Nat /\ member \in [Rooms -> SUBSET Agents]
      /\ clock \in 0 .. MaxClock
  BY DEF TypeOK
<1> QED
  BY <1>1 DEF Grows, Positions

LEMMA NextGrows ==
    ASSUME TypeOK, Acting, [Next]_vars
    PROVE  Grows
<1> USE DEF TypeOK
<1>1. member \in [Rooms -> SUBSET Agents] /\ counter \in 0 .. MaxIds /\ clock \in 0 .. MaxClock
  OBVIOUS
<1>2. ASSUME NEW r \in Rooms PROVE <<r, Nowhere>> \in Seq(Rooms \cup {Nowhere})
  OBVIOUS
<1>3. <<Nowhere>> \in Seq(Rooms \cup {Nowhere}) /\ <<Lobby>> \in Seq(Rooms \cup {Nowhere})
  BY Bounds
<1>4. ASSUME NEW r \in Rooms, NEW m, NEW v \in SUBSET Agents, NEW saved, NEW committed,
             Resolve(r, m, v, saved, committed),
             m \in [Rooms -> SUBSET Agents], \A q \in Rooms : member[q] \subseteq m[q]
      PROVE  Grows
  <2>1. member' = m
    BY <1>4 DEF Resolve
  <2>2. CASE committed
    BY <1>2, <1>4, <2>1, <2>2, AppendGrows DEF Resolve
  <2>3. CASE ~committed
    <3>1. AppendRejects(<<r, Nowhere>>)
      BY <1>4, <2>3 DEF Resolve
    <3>2. counter' \in 0 .. MaxIds /\ log' = log /\ clock' = clock
      BY <1>1, <3>1, Bounds DEF AppendRejects
    <3> QED
      BY <1>1, <1>4, <2>1, <3>2 DEF Grows, Positions
  <2> QED
    BY <2>2, <2>3
<1>5. CASE BeginPulse
  BY <1>1, <1>5, SameGrows DEF BeginPulse, events
<1>6. ASSUME NEW a \in Agents, NEW loaded \in BOOLEAN, BeginTurn(a, loaded) PROVE Grows
  BY <1>1, <1>6, SameGrows DEF BeginTurn, events
<1>7. ASSUME NEW saved \in BOOLEAN, Silent(saved) PROVE Grows
  BY <1>1, <1>7, SameGrows DEF Silent, events
<1>8. ASSUME NEW r \in Rooms, NEW saved \in BOOLEAN, NEW committed \in BOOLEAN,
             Speak(r, saved, committed)
      PROVE  Grows
  BY <1>1, <1>4, <1>8 DEF Speak
<1>9. ASSUME NEW r \in Rooms, NEW saved \in BOOLEAN, NEW committed \in BOOLEAN,
             NEW guests \in SUBSET Agents, Invite(r, guests, saved, committed)
      PROVE  Grows
  <2> DEFINE m == [member EXCEPT ![r] = @ \cup (guests \cup {turn.agent})]
  <2>1. turn # NoTurn /\ turn.agent \in Agents
    BY <1>9 DEF Invite, Resolve, Persist, Acting
  <2>2. m \in [Rooms -> SUBSET Agents] /\ \A q \in Rooms : member[q] \subseteq m[q]
    BY <1>1, <2>1
  <2>3. Resolve(r, m, guests \cup {turn.agent}, saved, committed)
    BY <1>9 DEF Invite
  <2> QED
    BY <1>4, <2>1, <2>2, <2>3
<1>10. CASE Record
  <2>1. Append_(<<Nowhere>>, member', {}) /\ member' = member
    BY <1>10 DEF Record
  <2>2. {} \in SUBSET Agents /\ member' \in [Rooms -> SUBSET Agents]
        /\ \A r \in Rooms : member[r] \subseteq member'[r]
    BY <1>1, <2>1
  <2> QED
    BY <1>3, <2>1, <2>2, AppendGrows
<1>11. CASE Lifecycle
  <2>1. Append_(<<Lobby>>, member', {}) /\ member' = member
    BY <1>11 DEF Lifecycle
  <2>2. {} \in SUBSET Agents /\ member' \in [Rooms -> SUBSET Agents]
        /\ \A r \in Rooms : member[r] \subseteq member'[r]
    BY <1>1, <2>1
  <2> QED
    BY <1>3, <2>1, <2>2, AppendGrows
<1>12. ASSUME NEW a \in GoalAgents, NEW p \in Shown(Len(log)), Announce(a, log[p].room) PROVE Grows
  <2>1. log[p] \in Event /\ log[p].room # Nowhere
    BY DEF Shown
  <2>2. log[p].room \in Rooms
    BY <2>1 DEF Event
  <2>3. <<log[p].room>> \in Seq(Rooms \cup {Nowhere})
    BY <2>2
  <2>4. Append_(<<log[p].room>>, member', {a}) /\ member' = member
    BY <1>12 DEF Announce
  <2>5. {a} \in SUBSET Agents /\ member' \in [Rooms -> SUBSET Agents]
        /\ \A r \in Rooms : member[r] \subseteq member'[r]
    BY <1>1, <2>4, PerceptionAssumption
  <2> QED
    BY <2>3, <2>4, <2>5, AppendGrows
<1>13. CASE Tick
  BY <1>1, <1>13, Bounds, SameGrows DEF Tick
<1>14. CASE UNCHANGED vars
  BY <1>1, <1>14, SameGrows DEF vars, events
<1> QED
  BY <1>5, <1>6, <1>7, <1>8, <1>9, <1>10, <1>11, <1>12, <1>13, <1>14 DEF Next, EndTurn

-------------------------------------------------------------------------------
\* The order of two events is settled when they are committed.
LEMMA OrderKept ==
    ASSUME Grows
    PROVE  /\ \A p, q \in Positions : Before(p, q)' <=> Before(p, q)
           /\ Even' => Even
<1>1. \A p, q \in Positions : Before(p, q)' <=> Before(p, q)
  BY DEF Before, Grows
<1>2. Positions \subseteq Positions'
  <2>1. Len(log) \in Nat /\ Len(log') \in Nat /\ Len(log) <= Len(log')
    BY DEF Grows
  <2> QED
    BY <2>1 DEF Positions
<1> QED
  BY <1>1, <1>2 DEF Even, Grows

LEMMA RankType ==
    ASSUME TypeOK, NEW p \in Positions
    PROVE  log[p].created \in Nat /\ TextRank[log[p].no] \in Nat
<1>1. log[p] \in Event
  BY DEF TypeOK, Positions
<1>2. log[p].created \in 0 .. MaxClock /\ log[p].no \in 1 .. MaxIds
  BY <1>1 DEF Event
<1> QED
  BY <1>2, Bounds

\* Where the order of ids is even, the log's order is that of the appends.
LEMMA EvenOrder ==
    ASSUME TypeOK, Timely, Even, NEW p \in Positions, NEW q \in Positions
    PROVE  Before(p, q) <=> p < q
<1>1. /\ p \in Nat /\ q \in Nat
      /\ log[p].created \in Nat /\ log[q].created \in Nat
      /\ TextRank[log[p].no] \in Nat /\ TextRank[log[q].no] \in Nat
  BY RankType DEF Positions
<1>2. CASE p < q
  BY <1>1, <1>2 DEF Before, Even, Timely
<1>3. CASE q < p
  BY <1>1, <1>3 DEF Before, Even, Timely
<1>4. CASE p = q
  BY <1>1, <1>4 DEF Before
<1> QED
  BY <1>1, <1>2, <1>3, <1>4

\* Before is an order of the log, whatever the ids.
LEMMA BeforeOrder ==
    ASSUME TypeOK, NEW p \in Positions, NEW q \in Positions, NEW r \in Positions
    PROVE  Before(p, q) /\ Before(q, r) => Before(p, r)
<1>1. /\ log[p].created \in Nat /\ log[q].created \in Nat /\ log[r].created \in Nat
      /\ TextRank[log[p].no] \in Nat /\ TextRank[log[q].no] \in Nat /\ TextRank[log[r].no] \in Nat
  BY RankType
<1> QED
  BY <1>1 DEF Before

LEMMA VisibleRead ==
    ASSUME TypeOK, NEW a \in Agents
    PROVE  /\ InWindow(seen) \subseteq 1 .. seen /\ 1 .. seen \subseteq Positions
           /\ Visible(a) \subseteq InWindow(seen)
BY DEF TypeOK, InWindow, Shown, Visible, Positions

\* The window has no holes: what comes after one of its events is in it too.
LEMMA WindowClosed ==
    ASSUME TypeOK, Timely, Even, NEW c \in InWindow(seen), NEW p \in Shown(seen), c < p
    PROVE  p \in InWindow(seen)
<1> DEFINE After(e) == {q \in Shown(seen) : Before(e, q)}
<1>1. Shown(seen) \subseteq Positions /\ c \in Shown(seen) /\ Shown(seen) \subseteq 1 .. seen
  BY DEF TypeOK, InWindow, Shown, Positions
<1>2. IsFiniteSet(After(c))
  <2>1. IsFiniteSet(1 .. seen)
    BY FS_Interval DEF TypeOK
  <2> QED
    BY <1>1, <2>1, FS_Subset
<1>3. After(p) \subseteq After(c)
  <2> SUFFICES ASSUME NEW q \in Shown(seen), Before(p, q) PROVE Before(c, q)
    OBVIOUS
  <2>1. Before(c, p)
    BY <1>1, EvenOrder
  <2> QED
    BY <1>1, <2>1, BeforeOrder
<1>4. Cardinality(After(p)) <= Cardinality(After(c)) /\ Cardinality(After(c)) \in Nat
      /\ Cardinality(After(p)) \in Nat
  BY <1>2, <1>3, FS_Subset, FS_CardinalityType
<1>5. Cardinality(After(c)) < Window
  BY DEF InWindow
<1>6. Cardinality(After(p)) < Window
  BY <1>4, <1>5, Bounds
<1> QED
  BY <1>6 DEF InWindow

-------------------------------------------------------------------------------
\* What members the rooms of committed events have.
LEMMA RoomsStay ==
    ASSUME TypeOK, RoomsKept, Addressed, Grows,
           \/ UNCHANGED pulse
           \/ UNCHANGED <<log, member>> /\ seen' = Len(log) /\ known' = member
    PROVE  RoomsKept' /\ Addressed'
<1>1. /\ Len(log) \in Nat /\ Len(log') \in Nat /\ Len(log) <= Len(log')
      /\ log \in Seq(Event) /\ log' \in Seq(Event) /\ seen \in 0 .. Len(log)
  BY DEF TypeOK, Grows
<1>2. ASSUME NEW p \in Positions', log'[p].to # {}
      PROVE  log'[p].room \in Rooms /\ log'[p].to \subseteq member'[log'[p].room]
  <2>1. CASE p \in Positions
    BY <1>2, <2>1 DEF Grows, RoomsKept
  <2>2. CASE p \notin Positions
    <3>1. p \in (Len(log) + 1) .. Len(log')
      BY <1>1, <2>2 DEF Positions
    <3> QED
      BY <1>2, <3>1 DEF Grows
  <2> QED
    BY <2>1, <2>2
<1>3. Addressed'
  <2> SUFFICES ASSUME NEW p \in Positions'
               PROVE  log'[p].visibleToAgents = {} \/ log'[p].to \subseteq log'[p].visibleToAgents
    BY DEF Addressed
  <2>1. CASE p \in Positions
    BY <2>1 DEF Grows, Addressed
  <2>2. CASE p \notin Positions
    <3>1. p \in (Len(log) + 1) .. Len(log')
      BY <1>1, <2>2 DEF Positions
    <3> QED
      BY <3>1 DEF Grows
  <2> QED
    BY <2>1, <2>2
<1>4. CASE UNCHANGED pulse
  <2>1. \A p \in 1 .. seen : log'[p] = log[p]
    BY <1>1 DEF Grows, Positions
  <2> QED
    BY <1>2, <1>3, <1>4, <2>1 DEF RoomsKept, pulse
<1>5. CASE UNCHANGED <<log, member>> /\ seen' = Len(log) /\ known' = member
  BY <1>2, <1>3, <1>5 DEF RoomsKept, Positions
<1> QED
  BY <1>3, <1>4, <1>5

LEMMA TimelyStays ==
    ASSUME TypeOK, Timely, Grows
    PROVE  Timely'
<1>1. /\ Len(log) \in Nat /\ Len(log') \in Nat /\ Len(log) <= Len(log')
      /\ log \in Seq(Event) /\ log' \in Seq(Event) /\ clock \in Nat /\ clock' \in Nat
  BY Bounds DEF TypeOK, Grows
<1>2. \A p \in Positions : log[p].created \in Nat /\ log[p].created <= clock /\ log'[p] = log[p]
  <2> TAKE p \in Positions
  <2>1. log[p] \in Event
    BY <1>1 DEF Positions
  <2> QED
    BY <2>1 DEF Event, Timely, Grows
<1>3. \A p \in Positions' : p \in Nat /\ (p \in Positions \/ log'[p].created = clock')
  BY <1>1 DEF Positions, Grows
<1>4. \A p \in Positions' : log'[p].created <= clock'
  BY <1>1, <1>2, <1>3 DEF Grows
<1>5. ASSUME NEW p \in Positions', NEW q \in Positions', p <= q
      PROVE  log'[p].created <= log'[q].created
  <2>1. CASE q \in Positions
    <3>1. p \in Positions
      BY <1>1, <1>3, <1>5, <2>1 DEF Positions
    <3> QED
      BY <1>2, <1>5, <2>1, <3>1 DEF Timely
  <2>2. CASE q \notin Positions
    BY <1>3, <1>4, <2>2
  <2> QED
    BY <2>1, <2>2
<1> QED
  BY <1>4, <1>5 DEF Timely

\* A step that moves no cursor and processes nothing.
LEMMA CursorsStay ==
    ASSUME Inv, Grows, processed' = processed,
           \A a \in Agents \ lapsed' : a \notin lapsed /\ Cursor(a)' = Cursor(a)
    PROVE  Forward' /\ NothingSkipped'
<1>1. /\ Len(log) \in Nat /\ Len(log') \in Nat /\ Len(log) <= Len(log')
      /\ log \in Seq(Event) /\ log' \in Seq(Event)
  BY DEF Inv, TypeOK, Grows
<1>2. \A a \in Agents : processed[a] \subseteq Positions /\ Cursor(a) \in 0 .. Len(log)
  BY <1>1 DEF Inv, TypeOK, Positions, Cursor, Turn
<1>3. Forward'
  <2> SUFFICES ASSUME NEW a \in Agents \ lapsed', NEW e \in processed[a]
               PROVE  Cursor(a)' # 0 /\ ~(Before(Cursor(a), e)')
    BY DEF Forward
  <2>1. Cursor(a) # 0 /\ ~Before(Cursor(a), e)
    BY DEF Inv, Forward
  <2>2. Cursor(a) \in Positions /\ e \in Positions /\ Cursor(a)' = Cursor(a)
    BY <1>1, <1>2, <2>1 DEF Positions
  <2>3. log'[Cursor(a)] = log[Cursor(a)] /\ log'[e] = log[e]
    BY <2>2 DEF Grows
  <2> QED
    BY <2>1, <2>2, <2>3 DEF Before
<1>4. NothingSkipped'
  <2> SUFFICES ASSUME Even', NEW a \in Agents \ lapsed', NEW first \in processed[a],
                      NEW p \in first .. Cursor(a)', a \in log'[p].to
               PROVE  p \in processed[a]
    BY DEF NothingSkipped
  <2>1. a \notin lapsed /\ Cursor(a)' = Cursor(a) /\ Even
    BY OrderKept
  <2>2. p \in Positions
    BY <1>1, <1>2, <2>1 DEF Positions
  <2>3. a \in log[p].to
    BY <2>2 DEF Grows
  <2> QED
    BY <2>1, <2>3 DEF Inv, NothingSkipped
<1> QED
  BY <1>3, <1>4

-------------------------------------------------------------------------------
LEMMA InitInv == Init => Inv
<1> SUFFICES ASSUME Init PROVE Inv
  OBVIOUS
<1>1. log = <<[room |-> Lobby, visibleToAgents |-> {}, to |-> Agents, created |-> 0, no |-> 1]>>
  BY DEF Init
<1>2. [room |-> Lobby, visibleToAgents |-> {}, to |-> Agents, created |-> 0, no |-> 1] \in Event
  BY Bounds DEF Event
<1>3. log \in Seq(Event) /\ Len(log) = 1
  BY <1>1, <1>2
<1>4. member \in [Rooms -> SUBSET Agents] /\ member[Lobby] = Agents
  BY Bounds DEF Init
<1>5. TypeOK
  BY <1>3, <1>4, Bounds DEF Init, TypeOK, Turn, NoTurn, Positions
<1>6. Acting /\ Forward /\ NothingSkipped
  BY Bounds DEF Init, Acting, Forward, NothingSkipped, Cursor, NoTurn
<1>7. RoomsKept /\ Addressed /\ Timely
  BY <1>1, <1>3, <1>4, Bounds DEF Init, RoomsKept, Addressed, Timely, Positions
<1> QED
  BY <1>5, <1>6, <1>7 DEF Inv

\* The step of an agent's turn, if the agent's stored state was read.
LEMMA TurnTakes ==
    ASSUME Inv, NEW a \in Agents \ lapsed, turn = NoTurn,
           NEW n \in Advanced(stored[a], Visible(a))
    PROVE  LET P == processed[a] \cup NewSince(stored[a], Visible(a))
           IN  /\ n \in 0 .. Len(log)
               /\ n = 0 => P = {}
               /\ \A e \in P : ~Before(n, e)
               /\ Even => \A first \in P : \A p \in first .. n : a \in log[p].to => p \in P
<1> DEFINE c == stored[a]
           V == Visible(a)
           N == NewSince(c, V)
           P == processed[a] \cup N
<1>1. /\ log \in Seq(Event) /\ Len(log) \in Nat /\ seen \in 0 .. Len(log)
      /\ c \in 0 .. Len(log) /\ processed[a] \subseteq Positions
      /\ V \subseteq InWindow(seen) /\ InWindow(seen) \subseteq 1 .. seen /\ 1 .. seen \subseteq Positions
  BY VisibleRead DEF Inv, TypeOK
<1>2. Cursor(a) = c
  BY Bounds DEF Cursor, NoTurn
<1>3. /\ c = 0 => processed[a] = {}
      /\ \A e \in processed[a] : ~Before(c, e)
  BY <1>2 DEF Inv, Forward
<1>4. N \subseteq V
  BY DEF NewSince
<1>5. CASE N = {}
  <2>1. n = c /\ P = processed[a]
    BY <1>5 DEF Advanced
  <2>2. Even => \A first \in P : \A p \in first .. n : a \in log[p].to => p \in P
    BY <1>2, <2>1 DEF Inv, NothingSkipped
  <2> QED
    BY <1>1, <1>3, <2>1, <2>2
<1>6. CASE N # {}
  <2>1. n \in N /\ \A q \in N : ~Before(n, q)
    BY <1>6 DEF Advanced
  <2>2. n \in 1 .. seen /\ n \in Positions
    BY <1>1, <1>4, <2>1
  <2>3. CASE c = 0
    <3>1. P = N /\ N = V
      BY <1>3, <2>3 DEF NewSince
    <3>2. ASSUME Even, NEW first \in V, NEW p \in first .. n, a \in log[p].to
          PROVE  p \in V
      <4>1. first \in InWindow(seen) /\ first \in 1 .. seen /\ p \in 1 .. seen
        BY <1>1, <2>2
      <4>2. /\ log[p].room \in Rooms /\ a \in known[log[p].room]
            /\ log[p].visibleToAgents = {} \/ a \in log[p].visibleToAgents
        BY <1>1, <3>2, <4>1 DEF Inv, RoomsKept, Addressed
      <4>3. p \in Shown(seen)
        BY <4>1, <4>2, Bounds DEF Shown
      <4>4. p \in InWindow(seen)
        <5>1. CASE p = first
          BY <4>1, <5>1
        <5>2. CASE first < p
          BY <3>2, <4>1, <4>3, <5>2, WindowClosed DEF Inv
        <5> QED
          BY <4>1, <5>1, <5>2
      <4> QED
        BY <4>2, <4>4 DEF Visible
    <3> QED
      BY <1>1, <2>1, <2>2, <3>1, <3>2
  <2>4. CASE c # 0
    <3>1. c \in V /\ N = {p \in V : Before(c, p)}
      BY <1>6, <2>4 DEF NewSince
    <3>2. Before(c, n) /\ c \in Positions
      BY <1>1, <2>1, <3>1
    <3>3. \A e \in P : ~Before(n, e)
      <4> SUFFICES ASSUME NEW e \in processed[a], Before(n, e) PROVE FALSE
        BY <2>1
      <4>1. Before(c, e)
        BY <1>1, <2>2, <3>2, BeforeOrder DEF Inv
      <4> QED
        BY <1>3, <4>1
    <3>4. ASSUME Even, NEW first \in P, NEW p \in first .. n, a \in log[p].to
          PROVE  p \in P
      <4>1. p \in 1 .. seen /\ p \in Positions
        <5>1. first \in Positions
          BY <1>1, <1>4
        <5> QED
          BY <1>1, <2>2, <5>1 DEF Positions
      <4>2. CASE p <= c
        <5>1. first \in processed[a]
          <6> SUFFICES ASSUME first \in N PROVE FALSE
            OBVIOUS
          <6>1. Before(c, first) /\ first \in Positions
            BY <1>1, <1>4, <3>1
          <6>2. c < first
            BY <3>2, <3>4, <6>1, EvenOrder DEF Inv
          <6> QED
            BY <4>2, <6>1, <6>2, <1>1 DEF Positions
        <5> QED
          BY <1>2, <3>4, <4>2, <5>1, <1>1 DEF Inv, NothingSkipped
      <4>3. CASE c < p
        <5>1. /\ log[p].room \in Rooms /\ a \in known[log[p].room]
              /\ log[p].visibleToAgents = {} \/ a \in log[p].visibleToAgents
          BY <3>4, <4>1 DEF Inv, RoomsKept, Addressed
        <5>2. p \in Shown(seen)
          BY <4>1, <5>1, Bounds DEF Shown
        <5>3. p \in InWindow(seen)
          BY <1>1, <3>1, <3>4, <4>3, <5>2, WindowClosed DEF Inv
        <5>4. Before(c, p)
          BY <3>2, <3>4, <4>1, <4>3, EvenOrder DEF Inv
        <5> QED
          BY <3>1, <5>1, <5>3, <5>4 DEF Visible
      <4> QED
        BY <1>1, <4>1, <4>2, <4>3
    <3> QED
      BY <1>1, <2>2, <3>3, <3>4
  <2> QED
    BY <2>3, <2>4
<1> QED
  BY <1>5, <1>6

LEMMA TurnInv ==
    ASSUME Inv, Grows, NEW a \in Agents, NEW loaded \in BOOLEAN, BeginTurn(a, loaded)
    PROVE  /\ turn' \in Turn /\ turn'.cursor <= Len(log) /\ turn'.agent = a
           /\ processed' \in [Agents -> SUBSET Positions]
           /\ Forward' /\ NothingSkipped'
<1> DEFINE c == IF loaded THEN stored[a] ELSE 0
           V == Visible(a)
           N == NewSince(c, V)
<1>1. /\ turn = NoTurn /\ stored' = stored /\ UNCHANGED <<events, member, pulse>>
      /\ processed' = [processed EXCEPT ![a] = @ \cup N]
      /\ lapsed' = IF loaded THEN lapsed ELSE lapsed \cup {a}
  BY DEF BeginTurn
<1>2. PICK n \in Advanced(c, V) : turn' = [agent |-> a, cursor |-> n]
  BY DEF BeginTurn
<1>3. /\ log \in Seq(Event) /\ Len(log) \in Nat /\ seen \in 0 .. Len(log) /\ c \in 0 .. Len(log)
      /\ V \subseteq 1 .. seen /\ 1 .. seen \subseteq Positions
      /\ processed \in [Agents -> SUBSET Positions]
  BY VisibleRead DEF Inv, TypeOK
<1>4. N \subseteq V
  BY DEF NewSince
<1>5. n = c \/ n \in N
  BY DEF Advanced
<1>6. n \in 0 .. Len(log)
  <2>1. CASE n = c
    BY <1>3, <2>1
  <2>2. CASE n \in N
    <3>1. n \in 1 .. seen
      BY <1>3, <1>4, <2>2
    <3> QED
      BY <1>3, <3>1
  <2> QED
    BY <1>5, <2>1, <2>2
<1>7. turn' \in Turn /\ turn'.cursor <= Len(log) /\ turn'.agent = a
  BY <1>2, <1>6 DEF Turn
<1>8. processed' \in [Agents -> SUBSET Positions]
  <2> HIDE DEF N, V
  <2> QED
    BY <1>1, <1>3, <1>4
<1>9. UNCHANGED log /\ \A p, q : Before(p, q)' <=> Before(p, q)
  BY <1>1 DEF events, Before
<1>10. ASSUME NEW b \in Agents \ lapsed', b # a
       PROVE  /\ b \notin lapsed /\ processed'[b] = processed[b]
              /\ Cursor(b)' = Cursor(b)
  BY <1>1, <1>2, <1>10, <1>3, Bounds DEF Cursor, NoTurn
<1>11. ASSUME a \notin lapsed'
       PROVE  /\ n \in Advanced(stored[a], V) /\ a \notin lapsed /\ Cursor(a)' = n
              /\ processed'[a] = processed[a] \cup NewSince(stored[a], V)
  BY <1>1, <1>2, <1>3, <1>11 DEF Cursor
<1>12. Forward'
  <2> SUFFICES ASSUME NEW b \in Agents \ lapsed'
               PROVE  /\ Cursor(b)' = 0 => processed'[b] = {}
                      /\ \A e \in processed'[b] : ~(Before(Cursor(b), e)')
    BY DEF Forward
  <2>1. CASE b = a
    <3>1. /\ n = 0 => processed'[a] = {}
          /\ \A e \in processed'[a] : ~Before(n, e)
      BY <1>1, <1>11, <2>1, TurnTakes
    <3> QED
      BY <1>9, <1>11, <2>1, <3>1 DEF Before
  <2>2. CASE b # a
    <3>1. /\ Cursor(b) = 0 => processed[b] = {}
          /\ \A e \in processed[b] : ~Before(Cursor(b), e)
      BY <1>10, <2>2 DEF Inv, Forward
    <3> QED
      BY <1>9, <1>10, <2>2, <3>1 DEF Before
  <2> QED
    BY <2>1, <2>2
<1>13. NothingSkipped'
  <2> SUFFICES ASSUME Even', NEW b \in Agents \ lapsed', NEW first \in processed'[b],
                      NEW p \in first .. Cursor(b)', b \in log'[p].to
               PROVE  p \in processed'[b]
    BY DEF NothingSkipped
  <2>1. Even
    BY OrderKept
  <2>2. CASE b = a
    BY <1>1, <1>9, <1>11, <2>1, <2>2, TurnTakes
  <2>3. CASE b # a
    BY <1>9, <1>10, <2>1, <2>3 DEF Inv, NothingSkipped
  <2> QED
    BY <2>2, <2>3
<1> QED
  BY <1>7, <1>8, <1>12, <1>13

\* The end of a turn.
LEMMA PersistInv ==
    ASSUME Inv, Grows, NEW saved \in BOOLEAN, Persist(saved)
    PROVE  Inv'
<1>1. /\ turn # NoTurn /\ turn.agent \in Agents /\ turn' = NoTurn /\ UNCHANGED <<pulse, todo, processed>>
      /\ stored' = IF saved THEN [stored EXCEPT ![turn.agent] = turn.cursor] ELSE stored
      /\ lapsed' = IF saved THEN lapsed ELSE lapsed \cup {turn.agent}
  BY DEF Persist, Inv, Acting
<1>2. /\ log \in Seq(Event) /\ Len(log) \in Nat /\ Len(log') \in Nat /\ Len(log) <= Len(log')
      /\ stored \in [Agents -> 0 .. Len(log)] /\ turn.cursor \in 0 .. Len(log)
      /\ seen \in 0 .. Len(log) /\ processed \in [Agents -> SUBSET Positions]
      /\ Positions \subseteq Positions'
  BY DEF Inv, TypeOK, Turn, Grows, Positions
<1>3. stored' \in [Agents -> 0 .. Len(log')]
  BY <1>1, <1>2
<1>4. TypeOK'
  BY <1>1, <1>2, <1>3 DEF Inv, TypeOK, Grows, pulse, Turn, NoTurn
<1>5. \A a \in Agents \ lapsed' : a \notin lapsed /\ Cursor(a)' = Cursor(a)
  BY <1>1, <1>2, Bounds DEF Cursor, NoTurn
<1>6. Forward' /\ NothingSkipped'
  BY <1>1, <1>5, CursorsStay
<1>7. Acting' /\ RoomsKept' /\ Addressed' /\ Timely'
  BY <1>1, RoomsStay, TimelyStays DEF Inv, Acting
<1> QED
  BY <1>4, <1>6, <1>7 DEF Inv

\* A step outside of turns, which may read or grow the log.
LEMMA QuietInv ==
    ASSUME Inv, Grows, UNCHANGED <<turn, stored, processed, lapsed>>, todo' \subseteq Agents,
           \/ UNCHANGED pulse
           \/ UNCHANGED <<log, member>> /\ seen' = Len(log) /\ known' = member
    PROVE  Inv'
<1>1. /\ log \in Seq(Event) /\ Len(log) \in Nat /\ Len(log') \in Nat /\ Len(log) <= Len(log')
      /\ stored \in [Agents -> 0 .. Len(log)] /\ turn \in Turn /\ turn.cursor \in 0 .. Len(log)
      /\ processed \in [Agents -> SUBSET Positions] /\ Positions \subseteq Positions'
  BY DEF Inv, TypeOK, Turn, Grows, Positions
<1>2. seen' \in 0 .. Len(log') /\ known' \in [Rooms -> SUBSET Agents]
  BY <1>1 DEF Inv, TypeOK, pulse
<1>3. TypeOK'
  BY <1>1, <1>2 DEF Inv, TypeOK, Grows
<1>4. Forward' /\ NothingSkipped'
  BY CursorsStay DEF Cursor
<1>5. Acting' /\ RoomsKept' /\ Addressed' /\ Timely'
  BY RoomsStay, TimelyStays DEF Inv, Acting
<1> QED
  BY <1>3, <1>4, <1>5 DEF Inv

LEMMA NextInv == Inv /\ [Next]_vars => Inv'
<1> SUFFICES ASSUME Inv, [Next]_vars PROVE Inv'
  OBVIOUS
<1>1. Grows
  BY NextGrows DEF Inv
<1>2. CASE BeginPulse
  BY <1>1, <1>2, QuietInv DEF BeginPulse, events
<1>3. ASSUME NEW a \in Agents, NEW loaded \in BOOLEAN, BeginTurn(a, loaded) PROVE Inv'
  <2>1. /\ turn' \in Turn /\ turn'.cursor <= Len(log) /\ turn'.agent = a
        /\ processed' \in [Agents -> SUBSET Positions]
        /\ Forward' /\ NothingSkipped'
    BY <1>1, <1>3, TurnInv
  <2>2. /\ UNCHANGED <<log, counter, clock, member, seen, known, stored>>
        /\ todo' \subseteq Agents /\ lapsed' \subseteq Agents
    BY <1>3 DEF BeginTurn, events, pulse, Inv, TypeOK
  <2>3. TypeOK'
    BY <2>1, <2>2 DEF Inv, TypeOK, Positions
  <2>4. Acting' /\ RoomsKept' /\ Addressed' /\ Timely'
    BY <1>1, <2>1, <2>2, RoomsStay, TimelyStays DEF Inv, Acting, pulse
  <2> QED
    BY <2>1, <2>3, <2>4 DEF Inv
<1>4. CASE EndTurn
  <2>1. PICK saved \in BOOLEAN : Persist(saved)
    BY <1>4 DEF EndTurn, Silent, Speak, Invite, Resolve
  <2> QED
    BY <1>1, <2>1, PersistInv
<1>5. CASE Record
  BY <1>1, <1>5, QuietInv DEF Record, Inv, TypeOK
<1>6. CASE Lifecycle
  BY <1>1, <1>6, QuietInv DEF Lifecycle, Inv, TypeOK
<1>7. ASSUME NEW a, NEW r, Announce(a, r) PROVE Inv'
  BY <1>1, <1>7, QuietInv DEF Announce, Inv, TypeOK
<1>8. CASE Tick
  BY <1>1, <1>8, QuietInv DEF Tick, Inv, TypeOK
<1>9. CASE UNCHANGED vars
  BY <1>1, <1>9, QuietInv DEF vars, pulse, Inv, TypeOK
<1> QED
  BY <1>2, <1>3, <1>4, <1>5, <1>6, <1>7, <1>8, <1>9 DEF Next

-------------------------------------------------------------------------------
\* The inductive invariant, with the types of all variables.
THEOREM InvCorrect == Spec => []Inv
<1>1. Init => Inv
  BY InitInv
<1>2. Inv /\ [Next]_vars => Inv'
  BY NextInv
<1> QED
  BY <1>1, <1>2, PTL DEF Spec

THEOREM TypeCorrect == Spec => []TypeOK
<1>1. Inv => TypeOK
  BY DEF Inv
<1> QED
  BY <1>1, InvCorrect, PTL

\* getNewEventsSince() gives no agent an event twice, in whatever order a
\* millisecond's events are read back, unless its state failed to be read or
\* written.
THEOREM ProcessedOnceCorrect == Spec => ProcessedOnce
<1>1. Inv /\ [Next]_vars =>
        [turn' # turn /\ turn' # NoTurn =>
            \/ turn'.agent \in lapsed'
            \/ NewSince(stored[turn'.agent], Visible(turn'.agent)) \cap processed[turn'.agent] = {}]_vars
  <2> SUFFICES ASSUME Inv, Next, turn' # turn, turn' # NoTurn, turn'.agent \notin lapsed'
               PROVE  NewSince(stored[turn'.agent], Visible(turn'.agent))
                          \cap processed[turn'.agent] = {}
    OBVIOUS
  <2>1. PICK a \in Agents, loaded \in BOOLEAN : BeginTurn(a, loaded)
    BY DEF Next, EndTurn, Silent, Speak, Invite, Resolve, Persist, BeginPulse, Record, Lifecycle,
           Announce, Tick
  <2>2. turn = NoTurn /\ turn'.agent = a /\ a \notin lapsed
    BY <2>1 DEF BeginTurn
  <2>3. /\ stored[a] = 0 => processed[a] = {}
        /\ \A e \in processed[a] : ~Before(stored[a], e)
    BY <2>1, <2>2, Bounds DEF Inv, Forward, Cursor, NoTurn
  <2> QED
    BY <2>2, <2>3 DEF NewSince
<1> QED
  BY <1>1, InvCorrect, PTL DEF Spec, ProcessedOnce

\* While no counter gains a digit within a millisecond, a cursor passes over
\* nothing that its agent was to see.
THEOREM NothingSkippedCorrect == Spec => []NothingSkipped
<1>1. Inv => NothingSkipped
  BY DEF Inv
<1> QED
  BY <1>1, InvCorrect, PTL
===============================================================================

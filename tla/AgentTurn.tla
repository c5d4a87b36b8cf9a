------------------------------- MODULE AgentTurn -------------------------------
(***************************************************************************)
(* What the turns of a pulse do to channels, memberships, rate limits and  *)
(* the log: pulse-scheduler.ts executePulse() and appendAndProject(),      *)
(* intent-resolver.ts, rate-limit-gate.ts, channel-registry.ts and         *)
(* projections/delivery-projection.ts, with the engine's                   *)
(* computeAvailableActions() and the checks of intent-parser.ts.           *)
(*                                                                         *)
(* A turn begins (the rate status is read), waits for the model, and ends  *)
(* with at most one act.  Channels and memberships are those the pulse     *)
(* read when it began.  An intent that the parser refuses, or that is      *)
(* denied as too long, ends as a no_op, which changes nothing here;        *)
(* replies are messages.  Delays and fallbacks other than no_op are left   *)
(* out: composeIntentPacket() makes none.  A simulation begins with one    *)
(* public channel; agents may make channels of any type.                   *)
(***************************************************************************)
EXTENDS Naturals, FiniteSets

CONSTANTS
    Agents,
    NoAgent,       \* nobody's turn
    MaxPulses,     \* bound: pulses
    MaxChannels,   \* bound: channels ever registered besides that one
    MaxMessages,   \* settings.maxMessagesPerMinutePerAgent
    MaxPrivate     \* settings.maxPrivateChannelsPerAgent

ASSUME TurnAssumption ==
    /\ NoAgent \notin Agents
    /\ {MaxPulses, MaxChannels, MaxMessages, MaxPrivate} \subseteq Nat

Public == 0                            \* defaultPublicChannelId
Channels == 0..MaxChannels             \* the others in the order they are registered
NoChannel == MaxChannels + 1           \* an intent without channelTarget

Types == {"public", "private", "other"}   \* other: spectator and operator channels

ActTypes == {"send_message", "react", "typing_start", "leave_channel", "invite_agent", "create_channel"}

\* `people` are the personTargets; `named` those the committed event names:
\* the first of them for an invitation, invitedAgentIds for a new channel
\* when the model gives them, which need not be the same.  `make` is the
\* channelType of a new channel, private where the model says nothing.
Intents == [type : ActTypes, channel : Channels \cup {NoChannel},
            people : SUBSET Agents, named : SUBSET Agents, make : Types]

VARIABLES
    members,    \* the registry: who belongs to each channel
    created,    \* channels agents have registered so far
    creator,    \* of each
    made,       \* the type of each
    charge,     \* messagesThisMinute, per agent
    anchor,     \* currentChannelIdByAgent, the default when it has no entry
    seen,       \* memberships as the pulse read them when it began
    known,      \* the channels it read: 0..known
    pulses,     \* pulses begun
    todo,       \* agents whose turn is still to come in this pulse
    turn,       \* the agent whose model call is under way, or NoAgent
    limited,    \* the rate status read when that turn began
    said,       \* messages and reactions in the log
    spoken      \* messages each agent has in the log since its window began

vars == <<members, created, creator, made, charge, anchor, seen, known, pulses, todo,
          turn, limited, said, spoken>>

Utterance == [channel : Channels, private : BOOLEAN, delivered : BOOLEAN, old : BOOLEAN]

TypeOK ==
    /\ members \in [Channels -> SUBSET Agents]
    /\ created \in Channels
    /\ creator \in [1..MaxChannels -> Agents \cup {NoAgent}]
    /\ made \in [1..MaxChannels -> Types]
    /\ charge \in [Agents -> Nat]
    /\ anchor \in [Agents -> Channels]
    /\ seen \in [Channels -> SUBSET Agents]
    /\ known \in 0..created
    /\ pulses \in 0..MaxPulses
    /\ todo \subseteq Agents
    /\ turn \in Agents \cup {NoAgent}
    /\ limited \in BOOLEAN
    /\ said \subseteq Utterance
    /\ spoken \in [Agents -> Nat]

Init ==
    /\ members = [c \in Channels |-> IF c = Public THEN Agents ELSE {}]
    /\ created = 0
    /\ creator = [c \in 1..MaxChannels |-> NoAgent]
    /\ made = [c \in 1..MaxChannels |-> "private"]
    /\ charge = [a \in Agents |-> 0]
    /\ anchor = [a \in Agents |-> Public]
    /\ seen = members
    /\ known = 0
    /\ pulses = 0
    /\ todo = {}
    /\ turn = NoAgent
    /\ limited = FALSE
    /\ said = {}
    /\ spoken = [a \in Agents |-> 0]

-------------------------------------------------------------------------------
\* computeAvailableActions(), from what the pulse read.
Rooms(a) == {c \in 0..known : a \in seen[c]}
Reachable(a) == UNION {seen[c] : c \in Rooms(a)} \ {a}

TypeOf(c) == IF c = Public THEN "public" ELSE made[c]
Open(a) == {c \in Rooms(a) : TypeOf(c) = "public"}

\* privateChannelsCreated: one for every channel an agent has registered.
PrivateCreated(a) == Cardinality({c \in 1..MaxChannels : creator[c] = a})

Targets(a, type) ==
    CASE type = "create_channel" -> {}
      [] type = "invite_agent" -> {c \in Rooms(a) : TypeOf(c) = "private"}
      [] type = "leave_channel" -> IF Cardinality(Open(a)) = 1 THEN Rooms(a) \ Open(a) ELSE Rooms(a)
      [] OTHER -> Rooms(a)

Blocked(a, type) ==
    \/ limited
    \/ type = "send_message" /\ Rooms(a) = {}
    \/ type = "invite_agent" /\ Targets(a, type) = {}
    \/ type = "create_channel" /\ PrivateCreated(a) >= MaxPrivate

\* The check of the parser, which the resolver repeats: an empty list of
\* targets does not constrain the intent.
Permitted(a, i) ==
    /\ ~Blocked(a, i.type)
    /\ i.channel = NoChannel \/ Targets(a, i.type) = {} \/ i.channel \in Targets(a, i.type)
    /\ Reachable(a) # {} => i.people \subseteq Reachable(a)

\* resolveInternal(): whoever names a channel must belong to it.
IsMember(a, i) ==
    i.channel # NoChannel /\ i.type # "create_channel" => a \in members[i.channel]

\* RateLimitGate.allowAction().
Allowed(a, i) == i.type = "send_message" => charge[a] < MaxMessages

Where(a, i) == IF i.channel = NoChannel THEN anchor[a] ELSE i.channel

-------------------------------------------------------------------------------
\* executePulse() reads channels and memberships once.
BeginPulse ==
    /\ turn = NoAgent /\ todo = {}
    /\ pulses < MaxPulses
    /\ pulses' = pulses + 1
    /\ seen' = members
    /\ known' = created
    /\ todo' = Agents
    /\ UNCHANGED <<members, created, creator, made, charge, anchor, turn, limited, said, spoken>>

\* A turn reads the rate status and asks the model.
BeginTurn(a) ==
    /\ turn = NoAgent /\ a \in todo
    /\ turn' = a
    /\ limited' = (charge[a] >= MaxMessages)
    /\ UNCHANGED <<members, created, creator, made, charge, anchor, seen, known, pulses, todo,
                   said, spoken>>

\* A minute after its window began an agent's count starts afresh.
WindowPasses(a) ==
    /\ charge[a] > 0
    /\ charge' = [charge EXCEPT ![a] = 0]
    /\ spoken' = [spoken EXCEPT ![a] = 0]
    /\ UNCHANGED <<members, created, creator, made, anchor, seen, known, pulses, todo, turn,
                   limited, said>>

EndTurn ==
    /\ turn' = NoAgent
    /\ todo' = todo \ {turn}
    /\ UNCHANGED <<seen, known, pulses, limited>>

\* No model call, a model that fails, a no_op, or an act that was refused.
NoAct ==
    /\ turn # NoAgent
    /\ EndTurn
    /\ UNCHANGED <<members, created, creator, made, charge, anchor, said, spoken>>

\* Fault: the charge of a message is forgotten.
ChargeNothing(a, i) == UNCHANGED charge

\* RateLimitGate.recordAction(), before the append.
Charge(a, i) ==
    charge' = IF i.type = "send_message" THEN [charge EXCEPT ![a] = @ + 1] ELSE charge

\* The registry's part of an act, also before the append: a new channel with
\* everybody the intent lists anywhere, or the members an invitation adds to
\* the channel it names.
Register(a, i) ==
    CASE i.type = "create_channel" ->
            /\ created < MaxChannels
            /\ created' = created + 1
            /\ creator' = [creator EXCEPT ![created + 1] = a]
            /\ made' = [made EXCEPT ![created + 1] = i.make]
            /\ members' = [members EXCEPT ![created + 1] = {a} \cup i.people \cup i.named]
      [] i.type = "invite_agent" /\ i.channel # NoChannel ->
            /\ members' = [members EXCEPT ![i.channel] = @ \cup i.people]
            /\ UNCHANGED <<created, creator, made>>
      [] OTHER -> UNCHANGED <<members, created, creator, made>>

\* Fault: the events of a new channel keep the id minted before it was
\* registered.
EventChannelMinted(a, i) ==
    IF i.type = "create_channel" /\ created + 2 \in Channels THEN created + 2 ELSE Where(a, i)

\* The channel of the committed event: a new one has its registered id.
EventChannel(a, i) ==
    IF i.type = "create_channel" THEN created + 1 ELSE Where(a, i)

\* An agent that leaves where it last was goes on in the default channel.
AfterLeaving == Public

\* Fault: an utterance is marked by the channel its author was last in.
MarkedPrivateByAnchor(a, c) == anchor[a] \in 1..known /\ made[anchor[a]] = "private"

\* channelVisibility(): looked up among the channels the pulse read.
MarkedPrivate(a, c) == c \in 1..known /\ made[c] = "private"

\* DeliveryProjection: shown if somebody the pulse saw in the channel sees it.
Delivered(c) == seen[c] # {}

Append(a, i) ==
    LET c == EventChannel(a, i)
    IN  /\ anchor' = [b \in Agents |->
             IF i.type = "leave_channel"
             THEN IF b = a /\ anchor[a] = c THEN AfterLeaving ELSE anchor[b]
             ELSE IF b = a \/ (i.type \in {"create_channel", "invite_agent"} /\ b \in i.named)
             THEN c
             ELSE anchor[b]]
        /\ said' = IF i.type \in {"send_message", "react"}
                   THEN said \cup {[channel |-> c, private |-> MarkedPrivate(a, c),
                                    delivered |-> Delivered(c), old |-> c <= known]}
                   ELSE said
        /\ spoken' = IF i.type = "send_message" THEN [spoken EXCEPT ![a] = @ + 1] ELSE spoken

\* An act that passes every check: registered and charged, then appended and
\* projected.  The append may fail, which takes nothing back.
Act(i, appended) ==
    /\ turn # NoAgent
    /\ Permitted(turn, i) /\ IsMember(turn, i) /\ Allowed(turn, i)
    /\ Register(turn, i)
    /\ Charge(turn, i)
    /\ IF appended THEN Append(turn, i) ELSE UNCHANGED <<anchor, said, spoken>>
    /\ EndTurn

\* The registry fails while it adds members one by one: the intent is
\* rejected, without events or charge, but a new channel and the members
\* added so far stay.
RegistryFails(i, added) ==
    /\ turn # NoAgent
    /\ Permitted(turn, i) /\ IsMember(turn, i)
    /\ \/ /\ i.type = "create_channel"
          /\ added \subseteq {turn} \cup i.people \cup i.named
          /\ created < MaxChannels
          /\ created' = created + 1
          /\ made' = [made EXCEPT ![created + 1] = i.make]
          /\ members' = [members EXCEPT ![created + 1] = added]
       \/ /\ i.type = "invite_agent" /\ i.channel # NoChannel
          /\ added \subseteq i.people
          /\ members' = [members EXCEPT ![i.channel] = @ \cup added]
          /\ UNCHANGED <<created, made>>
    /\ EndTurn
    /\ UNCHANGED <<creator, charge, anchor, said, spoken>>

\* An intent as the model can word it: only an invitation and a new channel
\* name people, and an invitation's event names the first of its people, if any.
WellFormed(i) ==
    /\ i.type = "invite_agent" =>
          /\ i.named \subseteq i.people
          /\ Cardinality(i.named) = IF i.people = {} THEN 0 ELSE 1
    /\ i.type \notin {"invite_agent", "create_channel"} => i.people = {} /\ i.named = {}
    /\ i.type = "create_channel" => i.channel = NoChannel
    /\ i.type # "create_channel" => i.make = "private"

Wordable == {i \in Intents : WellFormed(i)}

Next ==
    \/ BeginPulse
    \/ NoAct
    \/ \E a \in Agents : BeginTurn(a) \/ WindowPasses(a)
    \/ \E i \in Wordable :
          \/ \E appended \in BOOLEAN : Act(i, appended)
          \/ \E added \in SUBSET Agents : RegistryFails(i, added)

Spec == Init /\ [][Next]_vars

-------------------------------------------------------------------------------
\* The gate holds although the status a turn is offered actions by is read
\* before the model answers, and appends fail: within a window no agent has
\* more messages in the log than the limit, nor is the creator of more
\* channels than its limit (one whose registration failed half-way apart).
LimitsKept ==
    \A a \in Agents : spoken[a] <= MaxMessages /\ PrivateCreated(a) <= MaxPrivate

\* An agent that names no channel speaks in one that is registered, whatever
\* was created, invited to, left or lost in a failed append before.
AnchorsRegistered == \A a \in Agents : anchor[a] <= created

\* What is said in a channel that existed when the pulse began is marked as
\* its type demands and reaches the gateway, whoever joined or left since.
OldRoomsReached ==
    \A u \in said : u.old => u.private = (TypeOf(u.channel) = "private") /\ u.delivered

\* intent-resolver.ts: channelVisibility "marks an event's visibility as
\* private-channel (members-only)", in every private channel.
PrivateIsMarked == \A u \in said : TypeOf(u.channel) = "private" => u.private
===============================================================================

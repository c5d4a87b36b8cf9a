---------------------------- MODULE AgentTurnProofs ----------------------------
(***************************************************************************)
(* The safety properties of agents' turns for every number of agents,      *)
(* channels, pulses and every limit.                                       *)
(*                                                                         *)
(* The gate's counter bounds the log because every message is charged      *)
(* before it is appended.  Anchors need a longer argument: they point at   *)
(* channels with members, only registered channels have members, and a     *)
(* channel the pulse knows has members now only if it had some when the    *)
(* pulse began, because whoever invites must have been in it then.         *)
(***************************************************************************)
EXTENDS AgentTurn, FiniteSetTheorems, TLAPS

\* RateLimitGate counts what the log shows, and never beyond its limit.
Charged == \A a \in Agents : spoken[a] <= charge[a] /\ charge[a] <= MaxMessages

\* No agent is the creator of more channels than it may create.
Creators == \A a \in Agents : PrivateCreated(a) <= MaxPrivate

\* Where agents are there are members, and so a registered channel.
Inhabited ==
    /\ Agents \subseteq members[Public]
    /\ \A c \in Channels : members[c] # {} => c <= created
    /\ \A c \in Channels : c <= known /\ members[c] # {} => seen[c] # {}
    /\ \A a \in Agents : members[anchor[a]] # {}

\* What is said is said in a registered channel, whose type does not change.
SaidSomewhere == \A u \in said : u.channel <= created

Inv == TypeOK /\ Charged /\ Creators /\ Inhabited /\ SaidSomewhere /\ OldRoomsReached

-------------------------------------------------------------------------------
LEMMA Bounds == MaxPulses \in Nat /\ MaxChannels \in Nat /\ MaxMessages \in Nat /\ MaxPrivate \in Nat
BY TurnAssumption

\* A set with an element more has at most one element more.
LEMMA AtMostOneMore ==
    ASSUME NEW S, IsFiniteSet(S), NEW x
    PROVE  /\ IsFiniteSet(S \cup {x})
           /\ Cardinality(S \cup {x}) <= Cardinality(S) + 1
<1>1. Cardinality(S) \in Nat
  BY FS_CardinalityType
<1>2. /\ IsFiniteSet(S \cup {x})
      /\ Cardinality(S \cup {x}) = IF x \in S THEN Cardinality(S) ELSE Cardinality(S) + 1
  BY FS_AddElement
<1> QED
  BY <1>1, <1>2

\* Only one more channel counts for an agent that creates one.
LEMMA CreatedOneMore ==
    ASSUME NEW f \in [1..MaxChannels -> Agents \cup {NoAgent}], NEW n \in 1..MaxChannels,
           NEW a \in Agents, NEW b \in Agents,
           Cardinality({c \in 1..MaxChannels : f[c] = b}) \in Nat
    PROVE  LET g == [f EXCEPT ![n] = a]
           IN  Cardinality({c \in 1..MaxChannels : g[c] = b}) <=
                   Cardinality({c \in 1..MaxChannels : f[c] = b}) + (IF a = b THEN 1 ELSE 0)
<1> DEFINE g == [f EXCEPT ![n] = a]
           F == {c \in 1..MaxChannels : f[c] = b}
           G == {c \in 1..MaxChannels : g[c] = b}
<1>1. IsFiniteSet(F)
  <2>1. IsFiniteSet(1..MaxChannels)
    BY Bounds, FS_Interval
  <2> QED
    BY <2>1, FS_Subset
<1>2. CASE a = b
  <2>1. G \subseteq F \cup {n}
    OBVIOUS
  <2>2. IsFiniteSet(F \cup {n}) /\ Cardinality(F \cup {n}) <= Cardinality(F) + 1
    <3> HIDE DEF F
    <3> QED
      BY <1>1, AtMostOneMore
  <2>3. Cardinality(G) <= Cardinality(F \cup {n})
    BY <2>1, <2>2, FS_Subset
  <2>4. Cardinality(G) \in Nat /\ Cardinality(F \cup {n}) \in Nat
    BY <2>1, <2>2, FS_Subset, FS_CardinalityType
  <2> QED
    BY <1>2, <2>2, <2>3, <2>4
<1>3. CASE a # b
  <2>1. G \subseteq F
    BY <1>3
  <2>2. Cardinality(G) <= Cardinality(F) /\ Cardinality(G) \in Nat
    BY <1>1, <2>1, FS_Subset, FS_CardinalityType
  <2> QED
    BY <1>3, <2>2
<1> QED
  BY <1>2, <1>3

\* PrivateCreated() counts a finite set.
LEMMA CountType ==
    ASSUME NEW f, NEW a
    PROVE  Cardinality({c \in 1..MaxChannels : f[c] = a}) \in Nat
<1>1. IsFiniteSet(1..MaxChannels)
  BY Bounds, FS_Interval
<1>2. IsFiniteSet({c \in 1..MaxChannels : f[c] = a})
  BY <1>1, FS_Subset
<1> QED
  BY <1>2, FS_CardinalityType

-------------------------------------------------------------------------------
LEMMA InitInv == Init => Inv
<1> SUFFICES ASSUME Init PROVE Inv
  OBVIOUS
<1>1. TypeOK
  <2>1. Public \in Channels
    BY Bounds DEF Channels, Public
  <2>2. pulses \in 0..MaxPulses /\ known \in 0..created
    BY Bounds DEF Init
  <2>3. limited \in BOOLEAN /\ turn \in Agents \cup {NoAgent} /\ todo \subseteq Agents
        /\ said \subseteq Utterance
    BY DEF Init
  <2>4. members \in [Channels -> SUBSET Agents] /\ seen \in [Channels -> SUBSET Agents]
    BY DEF Init
  <2>5. /\ creator \in [1..MaxChannels -> Agents \cup {NoAgent}]
        /\ charge \in [Agents -> Nat] /\ spoken \in [Agents -> Nat]
        /\ anchor \in [Agents -> Channels] /\ created \in Channels
        /\ made \in [1..MaxChannels -> Types]
    BY <2>1 DEF Init, Public, Types
  <2> QED
    BY <2>2, <2>3, <2>4, <2>5 DEF TypeOK
<1>2. Charged
  BY Bounds DEF Init, Charged
<1>3. Creators
  <2> SUFFICES ASSUME NEW a \in Agents PROVE PrivateCreated(a) <= MaxPrivate
    BY DEF Creators
  <2>1. {c \in 1..MaxChannels : creator[c] = a} = {}
    BY TurnAssumption DEF Init
  <2> QED
    BY <2>1, FS_EmptySet, Bounds DEF PrivateCreated
<1>4. Inhabited
  BY Bounds DEF Init, Inhabited, Channels, Public
<1>5. SaidSomewhere /\ OldRoomsReached
  BY DEF Init, SaidSomewhere, OldRoomsReached
<1> QED
  BY <1>1, <1>2, <1>3, <1>4, <1>5 DEF Inv

-------------------------------------------------------------------------------
\* The channel an intent ends in has members when the turn of its author ends:
\* it is the one it names, its author's anchor, or new.
LEMMA NamedChannel ==
    ASSUME Inv, NEW a \in Agents, NEW i \in Intents, WellFormed(i), i.type # "create_channel",
           Permitted(a, i), IsMember(a, i)
    PROVE  /\ Where(a, i) \in Channels
           /\ members[Where(a, i)] # {}
           /\ Where(a, i) <= created
<1>1. TypeOK /\ Inhabited
  BY DEF Inv
<1>2. CASE i.channel = NoChannel
  BY <1>1, <1>2 DEF TypeOK, Inhabited, Where
<1>3. CASE i.channel # NoChannel
  <2>1. i.channel \in Channels /\ a \in members[i.channel]
    BY <1>3 DEF Intents, IsMember
  <2> QED
    BY <1>1, <1>3, <2>1 DEF Inhabited, Where
<1> QED
  BY <1>2, <1>3

\* Whoever invites into a channel was in it when the pulse began.
LEMMA InviterWasThere ==
    ASSUME Inv, NEW a \in Agents, NEW i \in Intents, i.type = "invite_agent",
           i.channel # NoChannel, Permitted(a, i)
    PROVE  i.channel \in Channels /\ a \in seen[i.channel]
<1>1. Targets(a, i.type) \subseteq Rooms(a)
  BY DEF Targets
<1>2. Targets(a, i.type) # {}
  BY DEF Permitted, Blocked
<1> QED
  BY <1>1, <1>2 DEF Permitted, Intents, Rooms

\* What an act or a half-way registration makes of the registry.
LEMMA RegistryGrows ==
    ASSUME Inv, NEW a \in Agents, NEW i \in Intents, WellFormed(i),
           Permitted(a, i), IsMember(a, i), NEW added \in SUBSET Agents,
           \/ /\ i.type = "create_channel"
              /\ created < MaxChannels
              /\ created' = created + 1
              /\ members' = [members EXCEPT ![created + 1] = added]
           \/ /\ i.type = "invite_agent" /\ i.channel # NoChannel
              /\ members' = [members EXCEPT ![i.channel] = @ \cup added]
              /\ created' = created
           \/ members' = members /\ created' = created,
           seen' = seen, known' = known
    PROVE  /\ members' \in [Channels -> SUBSET Agents] /\ created' \in Channels
           /\ known' \in 0..created' /\ created <= created'
           /\ Agents \subseteq members'[Public]
           /\ \A c \in Channels : members'[c] # {} => c <= created'
           /\ \A c \in Channels : c <= known' /\ members'[c] # {} => seen'[c] # {}
           /\ \A c \in Channels : c <= created => members[c] \subseteq members'[c]
<1>1. TypeOK /\ Inhabited
  BY DEF Inv
<1>2. CASE /\ i.type = "create_channel" /\ created < MaxChannels /\ created' = created + 1
           /\ members' = [members EXCEPT ![created + 1] = added]
  <2>1. created \in 0..MaxChannels /\ created + 1 \in Channels /\ known \in 0..created
    BY <1>1, <1>2, Bounds DEF TypeOK, Channels
  <2>2. members' \in [Channels -> SUBSET Agents] /\ created' \in Channels
    BY <1>1, <1>2, <2>1 DEF TypeOK
  <2>3. \A c \in Channels : c # created + 1 => members'[c] = members[c]
    BY <1>1, <1>2, <2>1 DEF TypeOK
  <2>4. \A c \in Channels : members'[c] # {} => c <= created'
    <3> SUFFICES ASSUME NEW c \in Channels, members'[c] # {} PROVE c <= created'
      OBVIOUS
    <3> QED
      BY <1>1, <1>2, <2>1, <2>3 DEF Inhabited, Channels
  <2>5. \A c \in Channels : c <= known' /\ members'[c] # {} => seen'[c] # {}
    <3> SUFFICES ASSUME NEW c \in Channels, c <= known, members'[c] # {} PROVE seen[c] # {}
      OBVIOUS
    <3>1. c # created + 1
      BY <2>1 DEF Channels
    <3> QED
      BY <1>1, <2>3, <3>1 DEF Inhabited
  <2>6. \A c \in Channels : c <= created => members[c] \subseteq members'[c]
    <3> SUFFICES ASSUME NEW c \in Channels, c <= created PROVE members[c] \subseteq members'[c]
      OBVIOUS
    <3>1. c # created + 1
      BY <2>1 DEF Channels
    <3> QED
      BY <2>3, <3>1
  <2>7. Public \in Channels /\ Public # created + 1
    BY <2>1, Bounds DEF Channels, Public
  <2>8. Agents \subseteq members'[Public]
    BY <1>1, <2>3, <2>7 DEF Inhabited
  <2>9. known' \in 0..created' /\ created <= created'
    BY <1>2, <2>1
  <2> QED
    BY <2>2, <2>4, <2>5, <2>6, <2>8, <2>9
<1>3. CASE /\ i.type = "invite_agent" /\ i.channel # NoChannel
           /\ members' = [members EXCEPT ![i.channel] = @ \cup added]
           /\ created' = created
  <2>1. i.channel \in Channels /\ a \in seen[i.channel] /\ a \in members[i.channel]
    BY <1>3, InviterWasThere DEF IsMember
  <2>2. \A c \in Channels : members'[c] # {} => members[c] # {}
    BY <1>1, <1>3, <2>1 DEF TypeOK
  <2>3. \A c \in Channels : members[c] \subseteq members'[c]
    BY <1>1, <1>3, <2>1 DEF TypeOK
  <2>4. members' \in [Channels -> SUBSET Agents]
    BY <1>1, <1>3, <2>1 DEF TypeOK
  <2> QED
    <3>1. Public \in Channels /\ known' \in 0..created' /\ created <= created' /\ created' \in Channels
      BY <1>1, <1>3, Bounds DEF TypeOK, Channels, Public
    <3>2. Agents \subseteq members'[Public]
      BY <1>1, <2>3, <3>1 DEF Inhabited
    <3>3. \A c \in Channels : members'[c] # {} => c <= created'
      BY <1>1, <1>3, <2>2 DEF Inhabited
    <3>4. \A c \in Channels : c <= known' /\ members'[c] # {} => seen'[c] # {}
      BY <1>1, <2>2 DEF Inhabited
    <3> QED
      BY <2>3, <2>4, <3>1, <3>2, <3>3, <3>4
<1>4. CASE members' = members /\ created' = created
  <2>1. known' \in 0..created' /\ created <= created' /\ created' \in Channels
    BY <1>1, <1>4 DEF TypeOK, Channels
  <2>2. members' \in [Channels -> SUBSET Agents]
    BY <1>1, <1>4 DEF TypeOK
  <2> QED
    BY <1>1, <1>4, <2>1, <2>2 DEF Inhabited
<1> QED
  BY <1>2, <1>3, <1>4

-------------------------------------------------------------------------------
\* An act, up to its append: registered and charged.
LEMMA ActInv ==
    ASSUME Inv, NEW i \in Intents, WellFormed(i), NEW appended \in BOOLEAN, Act(i, appended)
    PROVE  Inv'
<1> DEFINE a == turn
           c == EventChannel(a, i)
<1>1. TypeOK /\ Charged /\ Creators /\ Inhabited /\ OldRoomsReached
  BY DEF Inv
<1>2. a \in Agents /\ Permitted(a, i) /\ IsMember(a, i) /\ Allowed(a, i)
  BY <1>1 DEF Act, TypeOK
<1>3. seen' = seen /\ known' = known /\ pulses' = pulses /\ limited' = limited
      /\ turn' = NoAgent /\ todo' = todo \ {a}
  BY DEF Act, EndTurn
<1>4. Register(a, i) /\ Charge(a, i)
  BY DEF Act
<1>5. PICK added \in SUBSET Agents :
           \/ /\ i.type = "create_channel"
              /\ created < MaxChannels
              /\ created' = created + 1
              /\ creator' = [creator EXCEPT ![created + 1] = a]
              /\ members' = [members EXCEPT ![created + 1] = added]
              /\ a \in added
           \/ /\ i.type = "invite_agent" /\ i.channel # NoChannel
              /\ members' = [members EXCEPT ![i.channel] = @ \cup added]
              /\ created' = created /\ creator' = creator
           \/ /\ i.type # "create_channel"
              /\ members' = members /\ created' = created /\ creator' = creator
  <2>1. i.people \subseteq Agents /\ i.named \subseteq Agents
    BY DEF Intents
  <2>2. CASE i.type = "create_channel"
    <3>1. {a} \cup i.people \cup i.named \in SUBSET Agents
      BY <1>2, <2>1
    <3> QED
      BY <1>4, <2>2, <3>1 DEF Register
  <2>3. CASE i.type = "invite_agent" /\ i.channel # NoChannel
    BY <1>4, <2>1, <2>3 DEF Register
  <2>4. CASE i.type # "create_channel" /\ ~(i.type = "invite_agent" /\ i.channel # NoChannel)
    BY <1>4, <2>4 DEF Register
  <2> QED
    BY <2>2, <2>3, <2>4
<1>6. /\ members' \in [Channels -> SUBSET Agents] /\ created' \in Channels
      /\ known' \in 0..created' /\ created <= created'
      /\ Agents \subseteq members'[Public]
      /\ \A d \in Channels : members'[d] # {} => d <= created'
      /\ \A d \in Channels : d <= known' /\ members'[d] # {} => seen'[d] # {}
      /\ \A d \in Channels : d <= created => members[d] \subseteq members'[d]
  BY <1>2, <1>3, <1>5, RegistryGrows
<1>7. /\ c \in Channels /\ members'[c] # {}
      /\ c <= known => seen[c] # {}
  <2>1. CASE i.type = "create_channel"
    <3>1. c = created + 1 /\ created < MaxChannels /\ c = created'
      BY <1>5, <2>1 DEF EventChannel
    <3>2. a \in members'[c]
      BY <1>1, <1>5, <2>1, <3>1, Bounds DEF TypeOK, Channels
    <3>3. ~(c <= known)
      BY <1>1, <3>1 DEF TypeOK, Channels
    <3> QED
      BY <1>6, <3>1, <3>2, <3>3
  <2>2. CASE i.type # "create_channel"
    <3>1. c \in Channels /\ members[c] # {} /\ c <= created
      BY <1>2, <2>2, NamedChannel DEF EventChannel
    <3> QED
      BY <1>1, <1>6, <3>1 DEF Inhabited
  <2> QED
    BY <2>1, <2>2
<1> HIDE DEF c
<1>8. anchor' \in [Agents -> Channels] /\ \A b \in Agents : members'[anchor'[b]] # {}
  <2>1. \A b \in Agents : anchor[b] \in Channels /\ members[anchor[b]] # {} /\ anchor[b] <= created
    BY <1>1 DEF TypeOK, Inhabited
  <2>2. \A b \in Agents : members'[anchor[b]] # {}
    BY <1>6, <2>1
  <2>3. AfterLeaving \in Channels /\ (Agents # {} => members'[AfterLeaving] # {})
    BY <1>6, Bounds DEF AfterLeaving, Public, Channels
  <2>4. CASE ~appended
    BY <2>1, <2>2, <2>4, <1>1 DEF Act, TypeOK
  <2>5. CASE appended
    <3>1. Append(a, i)
      BY <2>5 DEF Act
    <3>2. anchor' = [b \in Agents |->
             IF i.type = "leave_channel"
             THEN IF b = a /\ anchor[a] = c THEN AfterLeaving ELSE anchor[b]
             ELSE IF b = a \/ (i.type \in {"create_channel", "invite_agent"} /\ b \in i.named)
             THEN c
             ELSE anchor[b]]
      BY <3>1 DEF Append, c
    <3>3. \A b \in Agents : anchor'[b] \in {c, AfterLeaving, anchor[b]}
      <4> SUFFICES ASSUME NEW b \in Agents PROVE anchor'[b] \in {c, AfterLeaving, anchor[b]}
        OBVIOUS
      <4>1. CASE i.type = "leave_channel"
        BY <3>2, <4>1
      <4>2. CASE i.type # "leave_channel"
        BY <3>2, <4>2
      <4> QED
        BY <4>1, <4>2
    <3>4. \A b \in Agents : anchor'[b] \in Channels /\ members'[anchor'[b]] # {}
      BY <1>7, <2>1, <2>2, <2>3, <3>3
    <3>5. anchor' = [b \in Agents |-> anchor'[b]]
      BY <3>2
    <3> QED
      BY <3>4, <3>5
  <2> QED
    BY <2>4, <2>5
<1>9. /\ charge' \in [Agents -> Nat] /\ spoken' \in [Agents -> Nat]
      /\ Charged'
  <2>1. CASE i.type = "send_message"
    <3>1. charge[a] < MaxMessages /\ charge' = [charge EXCEPT ![a] = @ + 1]
      BY <1>2, <1>4, <2>1 DEF Allowed, Charge
    <3>2. spoken' = [spoken EXCEPT ![a] = @ + 1] \/ spoken' = spoken
      BY <2>1 DEF Act, Append
    <3>3. \A b \in Agents : /\ charge[b] \in Nat /\ spoken[b] \in Nat
                             /\ spoken[b] <= charge[b] /\ charge[b] <= MaxMessages
      BY <1>1 DEF TypeOK, Charged
    <3>4. charge' \in [Agents -> Nat] /\ spoken' \in [Agents -> Nat]
      BY <1>1, <1>2, <3>1, <3>2 DEF TypeOK
    <3>5. \A b \in Agents : IF b = a THEN charge'[b] = charge[b] + 1 ELSE charge'[b] = charge[b]
      BY <1>1, <1>2, <3>1 DEF TypeOK
    <3>6. \A b \in Agents : spoken'[b] = spoken[b] \/ (b = a /\ spoken'[b] = spoken[b] + 1)
      BY <1>1, <1>2, <3>2 DEF TypeOK
    <3>7. ASSUME NEW b \in Agents PROVE spoken'[b] <= charge'[b] /\ charge'[b] <= MaxMessages
      BY <1>2, <3>1, <3>3, <3>5, <3>6, Bounds
    <3> QED
      BY <3>4, <3>7 DEF Charged
  <2>2. CASE i.type # "send_message"
    <3>1. charge' = charge /\ spoken' = spoken
      BY <1>4, <2>2 DEF Charge, Act, Append
    <3> QED
      BY <1>1, <3>1 DEF TypeOK, Charged
  <2> QED
    BY <2>1, <2>2
<1>10. creator' \in [1..MaxChannels -> Agents \cup {NoAgent}] /\ Creators'
  <2>1. CASE i.type = "create_channel"
    <3>1. created + 1 \in 1..MaxChannels /\ creator' = [creator EXCEPT ![created + 1] = a]
      BY <1>1, <1>5, <2>1, Bounds DEF TypeOK, Channels
    <3>2. PrivateCreated(a) < MaxPrivate
      <4>1. PrivateCreated(a) \in Nat
        BY CountType DEF PrivateCreated
      <4>2. ~(PrivateCreated(a) >= MaxPrivate)
        BY <1>2, <2>1 DEF Permitted, Blocked
      <4> QED
        BY <4>1, <4>2, Bounds
    <3>3. creator' \in [1..MaxChannels -> Agents \cup {NoAgent}]
      BY <1>1, <1>2, <3>1 DEF TypeOK
    <3>4. ASSUME NEW b \in Agents PROVE PrivateCreated(b)' <= MaxPrivate
      <4>1. PrivateCreated(b) \in Nat /\ PrivateCreated(b) <= MaxPrivate
        BY <1>1, CountType DEF Creators, PrivateCreated
      <4>2. PrivateCreated(b)' \in Nat
        BY CountType DEF PrivateCreated
      <4>3. PrivateCreated(b)' <= PrivateCreated(b) + (IF a = b THEN 1 ELSE 0)
        <5>1. /\ creator \in [1..MaxChannels -> Agents \cup {NoAgent}]
              /\ Cardinality({d \in 1..MaxChannels : creator[d] = b}) \in Nat
          BY <1>1, CountType DEF TypeOK
        <5>2. Cardinality({d \in 1..MaxChannels : [creator EXCEPT ![created + 1] = a][d] = b})
                <= Cardinality({d \in 1..MaxChannels : creator[d] = b}) + (IF a = b THEN 1 ELSE 0)
          BY <1>2, <3>1, <5>1, CreatedOneMore
        <5> QED
          BY <3>1, <5>2 DEF PrivateCreated
      <4> QED
        BY <3>2, <4>1, <4>2, <4>3, Bounds
    <3> QED
      BY <3>3, <3>4 DEF Creators
  <2>2. CASE i.type # "create_channel"
    BY <1>1, <1>5, <2>2 DEF TypeOK, Creators, PrivateCreated
  <2> QED
    BY <2>1, <2>2
<1>11. /\ made' \in [1..MaxChannels -> Types]
       /\ \A d \in 1..created : made'[d] = made[d]
  <2>1. CASE i.type = "create_channel"
    <3>1. created + 1 \in 1..MaxChannels /\ created \in Nat
      BY <1>1, <1>5, <2>1, Bounds DEF TypeOK, Channels
    <3>2. made' = [made EXCEPT ![created + 1] = i.make] /\ i.make \in Types
      BY <1>4, <2>1 DEF Register, Intents
    <3> QED
      BY <1>1, <3>1, <3>2 DEF TypeOK
  <2>2. CASE i.type # "create_channel"
    BY <1>1, <1>4, <2>2 DEF TypeOK, Register
  <2> QED
    BY <2>1, <2>2
<1>12. \A d \in Channels : d <= created => TypeOf(d)' = TypeOf(d)
  BY <1>11 DEF TypeOf, Channels, Public
<1>13. \A u \in said : u.channel \in Channels /\ u.channel <= created /\ u.channel <= created'
  BY <1>1, <1>6, Bounds DEF Inv, TypeOK, Utterance, SaidSomewhere, Channels
<1>14. \A u \in said : u.old => u.private = (TypeOf(u.channel)' = "private") /\ u.delivered
  BY <1>1, <1>12, <1>13 DEF OldRoomsReached
<1>15. said' \subseteq Utterance /\ SaidSomewhere' /\ OldRoomsReached'
  <2>1. CASE said' = said
    BY <1>1, <1>13, <1>14, <2>1 DEF TypeOK, SaidSomewhere, OldRoomsReached
  <2>2. CASE said' # said
    <3> DEFINE u == [channel |-> c, private |-> MarkedPrivate(a, c),
                     delivered |-> Delivered(c), old |-> c <= known]
    <3>1. said' = said \cup {u}
      BY <2>2 DEF Act, Append, c
    <3>2. MarkedPrivate(a, c) \in BOOLEAN /\ Delivered(c) \in BOOLEAN /\ (c <= known) \in BOOLEAN
      BY DEF MarkedPrivate, Delivered
    <3>3. u \in Utterance
      BY <1>7, <3>2 DEF Utterance
    <3>4. c <= known => MarkedPrivate(a, c) = (TypeOf(c) = "private") /\ Delivered(c)
      BY <1>1, <1>7 DEF TypeOK, MarkedPrivate, Delivered, Channels, Public, TypeOf
    <3>5. c <= created
      <4>1. i.type \in {"send_message", "react"}
        BY <2>2 DEF Act, Append
      <4>2. c = Where(a, i)
        BY <4>1 DEF EventChannel, c
      <4> QED
        BY <1>1, <1>2, <1>6, <1>7, <4>1, <4>2, NamedChannel, Bounds DEF TypeOK, Channels
    <3>6. PICK v \in Utterance :
            /\ said' = said \cup {v} /\ v.channel \in Channels /\ v.channel <= created
            /\ v.old => v.private = (TypeOf(v.channel) = "private") /\ v.delivered
      BY <1>7, <3>1, <3>3, <3>4, <3>5
    <3>7. v.channel <= created' /\ TypeOf(v.channel)' = TypeOf(v.channel)
      BY <1>1, <1>6, <1>12, <3>6, Bounds DEF TypeOK, Channels
    <3>8. said' \subseteq Utterance /\ SaidSomewhere'
      BY <1>1, <1>13, <3>6, <3>7 DEF TypeOK, SaidSomewhere
    <3>9. OldRoomsReached'
      BY <1>14, <3>6, <3>7 DEF OldRoomsReached
    <3> QED
      BY <3>8, <3>9
  <2> QED
    BY <2>1, <2>2
<1>16. TypeOK'
  BY <1>1, <1>3, <1>6, <1>8, <1>9, <1>10, <1>15, <1>11 DEF TypeOK
<1>17. Inhabited'
  BY <1>6, <1>8 DEF Inhabited
<1> QED
  BY <1>9, <1>10, <1>15, <1>16, <1>17 DEF Inv

\* A registration that fails half-way.
LEMMA RegistryFailsInv ==
    ASSUME Inv, NEW i \in Intents, WellFormed(i), NEW added \in SUBSET Agents,
           RegistryFails(i, added)
    PROVE  Inv'
<1>1. TypeOK /\ Charged /\ Creators /\ Inhabited /\ OldRoomsReached
  BY DEF Inv
<1>2. turn \in Agents /\ Permitted(turn, i) /\ IsMember(turn, i)
  BY <1>1 DEF RegistryFails, TypeOK
<1>3. /\ seen' = seen /\ known' = known /\ pulses' = pulses /\ limited' = limited
      /\ turn' = NoAgent /\ todo' = todo \ {turn} /\ creator' = creator
      /\ charge' = charge /\ anchor' = anchor /\ said' = said /\ spoken' = spoken
  BY DEF RegistryFails, EndTurn
<1>4. \/ /\ i.type = "create_channel"
         /\ created < MaxChannels
         /\ created' = created + 1
         /\ members' = [members EXCEPT ![created + 1] = added]
      \/ /\ i.type = "invite_agent" /\ i.channel # NoChannel
         /\ members' = [members EXCEPT ![i.channel] = @ \cup added]
         /\ created' = created
  BY DEF RegistryFails
<1>5. /\ members' \in [Channels -> SUBSET Agents] /\ created' \in Channels
      /\ known' \in 0..created' /\ created <= created'
      /\ Agents \subseteq members'[Public]
      /\ \A d \in Channels : members'[d] # {} => d <= created'
      /\ \A d \in Channels : d <= known' /\ members'[d] # {} => seen'[d] # {}
      /\ \A d \in Channels : d <= created => members[d] \subseteq members'[d]
  BY <1>2, <1>3, <1>4, RegistryGrows
<1>6. /\ made' \in [1..MaxChannels -> Types]
      /\ \A d \in 1..created : made'[d] = made[d]
  <2>1. CASE i.type = "create_channel"
    <3>1. created + 1 \in 1..MaxChannels /\ created \in Nat
      BY <1>1, <1>4, <2>1, Bounds DEF TypeOK, Channels
    <3>2. made' = [made EXCEPT ![created + 1] = i.make] /\ i.make \in Types
      BY <2>1 DEF RegistryFails, Intents
    <3> QED
      BY <1>1, <3>1, <3>2 DEF TypeOK
  <2>2. CASE i.type # "create_channel"
    BY <1>1, <2>2 DEF TypeOK, RegistryFails
  <2> QED
    BY <2>1, <2>2
<1>7. TypeOK'
  BY <1>1, <1>3, <1>5, <1>6 DEF TypeOK
<1>8. Inhabited'
  <2>1. \A b \in Agents : anchor[b] \in Channels /\ members[anchor[b]] # {} /\ anchor[b] <= created
    BY <1>1 DEF TypeOK, Inhabited
  <2> QED
    BY <1>3, <1>5, <2>1 DEF Inhabited
<1>9. \A u \in said : u.channel \in Channels /\ u.channel <= created /\ u.channel <= created'
  BY <1>1, <1>5, Bounds DEF Inv, TypeOK, Utterance, SaidSomewhere, Channels
<1>10. \A d \in Channels : d <= created => TypeOf(d)' = TypeOf(d)
  BY <1>6 DEF TypeOf, Channels, Public
<1>11. Charged' /\ Creators' /\ SaidSomewhere' /\ OldRoomsReached'
  <2>1. Charged' /\ Creators' /\ SaidSomewhere'
    BY <1>1, <1>3, <1>9 DEF Charged, Creators, PrivateCreated, SaidSomewhere
  <2>2. OldRoomsReached'
    BY <1>1, <1>3, <1>9, <1>10 DEF OldRoomsReached
  <2> QED
    BY <2>1, <2>2
<1> QED
  BY <1>7, <1>8, <1>11 DEF Inv

\* The steps of the pulse, which leave the registry and the log alone.
LEMMA PulseInv ==
    ASSUME Inv, BeginPulse \/ NoAct \/ \E a \in Agents : BeginTurn(a) \/ WindowPasses(a)
    PROVE  Inv'
<1>1. TypeOK /\ Charged /\ Creators /\ Inhabited /\ OldRoomsReached
  BY DEF Inv
<1>2. /\ members' = members /\ created' = created /\ creator' = creator
      /\ anchor' = anchor /\ said' = said /\ made' = made
  BY DEF BeginPulse, NoAct, BeginTurn, WindowPasses
<1>3. /\ charge' \in [Agents -> Nat] /\ spoken' \in [Agents -> Nat]
      /\ Charged'
  <2>1. CASE charge' = charge /\ spoken' = spoken
    BY <1>1, <2>1 DEF TypeOK, Charged
  <2>2. CASE \E a \in Agents : WindowPasses(a)
    BY <1>1, <2>2, Bounds DEF TypeOK, Charged, WindowPasses
  <2> QED
    BY <2>1, <2>2 DEF BeginPulse, NoAct, BeginTurn
<1>4. /\ seen' \in [Channels -> SUBSET Agents] /\ known' \in 0..created
      /\ \A c \in Channels : c <= known' /\ members[c] # {} => seen'[c] # {}
  <2>1. CASE BeginPulse
    BY <1>1, <2>1 DEF TypeOK, BeginPulse, Channels
  <2>2. CASE seen' = seen /\ known' = known
    BY <1>1, <2>2 DEF TypeOK, Inhabited
  <2> QED
    BY <2>1, <2>2 DEF NoAct, EndTurn, BeginTurn, WindowPasses
<1>5. todo' \subseteq Agents /\ turn' \in Agents \cup {NoAgent} /\ pulses' \in 0..MaxPulses
  BY <1>1, Bounds DEF TypeOK, BeginPulse, NoAct, EndTurn, BeginTurn, WindowPasses
<1>6. limited' \in BOOLEAN
  <2>1. CASE limited' = limited
    BY <1>1, <2>1 DEF TypeOK
  <2>2. CASE \E a \in Agents : BeginTurn(a)
    <3>1. PICK a \in Agents : limited' = (charge[a] >= MaxMessages)
      BY <2>2 DEF BeginTurn
    <3> QED
      BY <3>1
  <2> QED
    BY <2>1, <2>2 DEF BeginPulse, NoAct, EndTurn, WindowPasses
<1>7. TypeOK'
  BY <1>1, <1>2, <1>3, <1>4, <1>5, <1>6 DEF TypeOK
<1>8. Inhabited' /\ Creators' /\ SaidSomewhere' /\ OldRoomsReached'
  BY <1>1, <1>2, <1>4
  DEF Inv, Inhabited, Creators, PrivateCreated, SaidSomewhere, OldRoomsReached, TypeOf
<1> QED
  BY <1>3, <1>7, <1>8 DEF Inv

LEMMA StepInv == Inv /\ [Next]_vars => Inv'
<1> SUFFICES ASSUME Inv, [Next]_vars PROVE Inv'
  OBVIOUS
<1>1. CASE BeginPulse \/ NoAct \/ \E a \in Agents : BeginTurn(a) \/ WindowPasses(a)
  BY <1>1, PulseInv
<1>2. ASSUME NEW i \in Intents, WellFormed(i), NEW appended \in BOOLEAN, Act(i, appended)
      PROVE  Inv'
  BY <1>2, ActInv
<1>3. ASSUME NEW i \in Intents, WellFormed(i), NEW added \in SUBSET Agents,
             RegistryFails(i, added)
      PROVE  Inv'
  BY <1>3, RegistryFailsInv
<1>4. CASE UNCHANGED vars
  BY <1>4 DEF vars, Inv, TypeOK, Charged, Creators, PrivateCreated, Inhabited, SaidSomewhere,
              OldRoomsReached, TypeOf
<1> QED
  BY <1>1, <1>2, <1>3, <1>4 DEF Next, Wordable

-------------------------------------------------------------------------------
LEMMA Invariant == Spec => []Inv
BY InitInv, StepInv, PTL DEF Spec

\* Every variable keeps its type over any sequence of turns.
THEOREM TypeCorrect == Spec => []TypeOK
<1>1. Inv => TypeOK
  BY DEF Inv
<1> QED
  BY Invariant, <1>1, PTL

\* rate-limit-gate.ts and the resolver: no interleaving of turns, windows and
\* failed appends gets more messages or channels past the limits.
THEOREM GateHolds == Spec => []LimitsKept
<1>1. Inv => LimitsKept
  <2> SUFFICES ASSUME Inv, NEW a \in Agents
               PROVE  spoken[a] <= MaxMessages /\ PrivateCreated(a) <= MaxPrivate
    BY DEF LimitsKept
  <2> QED
    BY Bounds DEF Inv, TypeOK, Charged, Creators
<1> QED
  BY Invariant, <1>1, PTL

\* pulse-scheduler.ts currentChannelIdByAgent: an anchor is a registered channel.
THEOREM AnchorsAreChannels == Spec => []AnchorsRegistered
<1>1. Inv => AnchorsRegistered
  BY DEF Inv, TypeOK, Inhabited, AnchorsRegistered
<1> QED
  BY Invariant, <1>1, PTL

\* channelVisibility() and the delivery projection over channels that existed
\* when the pulse began: marked by their type, and delivered.
THEOREM KnownRoomsAreReached == Spec => []OldRoomsReached
<1>1. Inv => OldRoomsReached
  BY DEF Inv
<1> QED
  BY Invariant, <1>1, PTL
===============================================================================

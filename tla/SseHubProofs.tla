----------------------------- MODULE SseHubProofs -----------------------------
(***************************************************************************)
(* What is true of the hub for any number of connections, any queue and    *)
(* backlog limits and however sockets answer: no browser misses what is    *)
(* retained, what it reads is in order and begins with hello, and a stream *)
(* the hub ends itself ends with `stopped`.                                *)
(*                                                                         *)
(* A client is looked at through its stream, what it was sent followed by  *)
(* what is queued for it.  Flushing does not change the stream; publishing *)
(* appends to it and may take one older, replaceable message out of it.    *)
(***************************************************************************)
EXTENDS SseHub, FiniteSetTheorems, WellFoundedInduction, TLAPS

\* Numbered by publication: everything but hello, channels and the notice of
\* lost history.
Numbered(m) == m.key \notin Bootstraps \cup {"truncated"}

Upto(s, n) == \A i \in DOMAIN s : s[i].n <= n

Ordered(s) ==
    \A i, j \in DOMAIN s : i < j /\ Numbered(s[i]) /\ Numbered(s[j]) => s[i].n < s[j].n

\* hello precedes the pulse frames and comes no later than newer channels.
Introduced(s) ==
    \A i \in DOMAIN s :
        /\ s[i].key \in Pulses => \E j \in 1..(i - 1) : IsHello(s[j])
        /\ \A j \in 1..(i - 1) : IsHello(s[i]) /\ s[j].key = "channel" => s[j].n < s[i].n

Closed(s) == s # <<>> /\ Last(s).key = "stopped"

\* What is retained: in the order of publication, one revision of each key.
Backlogged(s, n) ==
    /\ \A i \in DOMAIN s : s[i].key \in Replayed \cup {"notice", "stopped"}
    /\ \A i, j \in DOMAIN s : i < j => s[i].n < s[j].n
    /\ \A i, j \in DOMAIN s : i < j /\ s[i].key = s[j].key => s[i].key \notin Replayed
    /\ Upto(s, n)

BacklogInv ==
    /\ Backlogged(backlog, published)
    /\ \A i \in DOMAIN backlog : backlog[i].key \in Pulses => SaidHello
    /\ ended => Closed(backlog)

OneOfEach(b) ==
    /\ \A i \in DOMAIN b : b[i].key \in Bootstraps
    /\ \A i, j \in DOMAIN b : b[i].key = b[j].key => i = j

BootstrapInv == OneOfEach(bootstrap) /\ Upto(bootstrap, published)

Retained == {m \in Range(bootstrap) \cup Range(backlog) : m.key \notin Coalesced}

\* What each client is owed.
StreamOf(c) == c.written \o c.queue

Owed(c, n, retained) ==
    /\ Upto(StreamOf(c), n)
    /\ Ordered(StreamOf(c))
    /\ Introduced(StreamOf(c))
    /\ c.state = "open" => retained \subseteq Range(StreamOf(c))
    /\ c.state \in {"closing", "ended"} => Closed(StreamOf(c))
    /\ c.state = "ended" => c.queue = <<>>

ClientInv(c) == Owed(c, published, Retained) /\ (c.state = "open" => ~ended)

HubInv ==
    /\ TypeOK
    /\ BacklogInv
    /\ BootstrapInv
    /\ \A c \in Clients : ClientInv(clients[c])

-------------------------------------------------------------------------------
\* Sequences of messages.
LEMMA Concat ==
  ASSUME NEW w \in Seq(Message), NEW q \in Seq(Message)
  PROVE  /\ w \o q \in Seq(Message)
         /\ Len(w) \in Nat /\ Len(q) \in Nat
         /\ Len(w \o q) = Len(w) + Len(q)
         /\ DOMAIN w = 1 .. Len(w) /\ DOMAIN q = 1 .. Len(q)
         /\ DOMAIN (w \o q) = 1 .. Len(w) + Len(q)
         /\ \A i \in 1 .. Len(w) : (w \o q)[i] = w[i]
         /\ \A i \in 1 .. Len(q) : (w \o q)[Len(w) + i] = q[i]
         /\ \A i \in 1 .. Len(w) + Len(q) : i > Len(w) =>
              i - Len(w) \in 1 .. Len(q) /\ (w \o q)[i] = q[i - Len(w)]
  BY SMT

LEMMA Appended ==
  ASSUME NEW q \in Seq(Message), NEW m \in Message
  PROVE  /\ Append(q, m) \in Seq(Message)
         /\ Len(q) \in Nat
         /\ Len(Append(q, m)) = Len(q) + 1
         /\ DOMAIN q = 1 .. Len(q)
         /\ DOMAIN Append(q, m) = 1 .. Len(q) + 1
         /\ \A i \in 1 .. Len(q) : Append(q, m)[i] = q[i]
         /\ Append(q, m)[Len(q) + 1] = m
  BY SMT

LEMMA Elements ==
  ASSUME NEW q \in Seq(Message)
  PROVE  \A i \in DOMAIN q : q[i] \in Message /\ q[i].n \in Nat
<1>1. \A i \in DOMAIN q : q[i] \in Message
  BY SMT
<1> QED
  BY <1>1 DEF Message

LEMMA Part ==
  ASSUME NEW q \in Seq(Message), NEW a \in 1 .. Len(q) + 1, NEW b \in 0 .. Len(q)
  PROVE  /\ SubSeq(q, a, b) \in Seq(Message)
         /\ Len(q) \in Nat
         /\ Len(SubSeq(q, a, b)) = IF a <= b THEN b - a + 1 ELSE 0
         /\ \A i \in 1 .. b - a + 1 : SubSeq(q, a, b)[i] = q[a + i - 1]
  BY SMT

LEMMA SameSeq ==
  ASSUME NEW q \in Seq(Message), NEW r \in Seq(Message), Len(q) = Len(r),
         \A i \in 1 .. Len(q) : q[i] = r[i]
  PROVE  q = r
  BY SMT

\* Taking one element out moves the later ones up.
LEMMA Removed ==
  ASSUME NEW q \in Seq(Message), NEW k \in 1 .. Len(q)
  PROVE  /\ RemoveAt(q, k) \in Seq(Message)
         /\ Len(q) \in Nat
         /\ Len(RemoveAt(q, k)) = Len(q) - 1
         /\ DOMAIN RemoveAt(q, k) = 1 .. Len(q) - 1
         /\ \A i \in 1 .. Len(q) - 1 : RemoveAt(q, k)[i] = q[IF i < k THEN i ELSE i + 1]
<1> DEFINE a == SubSeq(q, 1, k - 1)
           b == SubSeq(q, k + 1, Len(q))
<1>1. Len(q) \in Nat
  OBVIOUS
<1>2. 1 \in 1 .. Len(q) + 1 /\ k - 1 \in 0 .. Len(q) /\ k + 1 \in 1 .. Len(q) + 1 /\ Len(q) \in 0 .. Len(q)
  BY <1>1
<1>3. /\ a \in Seq(Message) /\ Len(a) = k - 1
      /\ \A i \in 1 .. k - 1 : a[i] = q[i]
  <2>1. Len(a) = IF 1 <= k - 1 THEN (k - 1) - 1 + 1 ELSE 0
    BY <1>2, Part
  <2>2. \A i \in 1 .. (k - 1) - 1 + 1 : a[i] = q[1 + i - 1]
    BY <1>2, Part
  <2>3. \A i \in 1 .. k - 1 : i \in 1 .. (k - 1) - 1 + 1 /\ 1 + i - 1 = i
    BY SMT
  <2>4. a \in Seq(Message)
    BY <1>2, Part
  <2>5. Len(a) = k - 1
    BY <2>1, <1>1, SMT
  <2>6. \A i \in 1 .. k - 1 : a[i] = q[i]
    BY <2>2, <2>3
  <2> QED
    BY <2>4, <2>5, <2>6
<1>4. /\ b \in Seq(Message) /\ Len(b) = Len(q) - k
      /\ \A i \in 1 .. Len(q) - k : b[i] = q[k + i]
  <2>1. Len(b) = IF k + 1 <= Len(q) THEN Len(q) - (k + 1) + 1 ELSE 0
    BY <1>2, Part
  <2>2. \A i \in 1 .. Len(q) - (k + 1) + 1 : b[i] = q[k + 1 + i - 1]
    BY <1>2, Part
  <2>3. \A i \in 1 .. Len(q) - k : i \in 1 .. Len(q) - (k + 1) + 1 /\ k + 1 + i - 1 = k + i
    BY <1>1, SMT
  <2>4. b \in Seq(Message)
    BY <1>2, Part
  <2>5. Len(b) = Len(q) - k
    BY <2>1, <1>1, SMT
  <2>6. \A i \in 1 .. Len(q) - k : b[i] = q[k + i]
    BY <2>2, <2>3
  <2> QED
    BY <2>4, <2>5, <2>6
<1>5. RemoveAt(q, k) = a \o b
  BY DEF RemoveAt
<1> HIDE DEF a, b
<1>6. /\ a \o b \in Seq(Message) /\ Len(a \o b) = Len(q) - 1 /\ DOMAIN (a \o b) = 1 .. Len(q) - 1
  <2>1. /\ a \o b \in Seq(Message) /\ Len(a \o b) = Len(a) + Len(b)
        /\ DOMAIN (a \o b) = 1 .. Len(a) + Len(b)
    BY <1>3, <1>4, Concat
  <2>2. Len(a) + Len(b) = Len(q) - 1
    BY <1>1, <1>3, <1>4, SMT
  <2> QED
    BY <2>1, <2>2, Zenon
<1>7. ASSUME NEW i \in 1 .. Len(q) - 1
      PROVE  (a \o b)[i] = q[IF i < k THEN i ELSE i + 1]
  <2>1. CASE i < k
    <3>1. i \in 1 .. Len(a) /\ i \in 1 .. k - 1
      BY <1>1, <1>3, <1>7, <2>1, SMT
    <3>2. (a \o b)[i] = a[i]
      BY <3>1, <1>3, <1>4, Concat
    <3> QED
      BY <2>1, <3>1, <3>2, <1>3
  <2>2. CASE ~(i < k)
    <3>1. i \in 1 .. Len(a) + Len(b) /\ i > Len(a) /\ i - Len(a) = i - k + 1 /\ i - k + 1 \in 1 .. Len(q) - k
      BY <1>1, <1>3, <1>4, <1>7, <2>2, SMT
    <3>2. (a \o b)[i] = b[i - k + 1]
      BY <3>1, <1>3, <1>4, Concat
    <3>3. b[i - k + 1] = q[k + (i - k + 1)]
      BY <3>1, <1>4
    <3>4. k + (i - k + 1) = i + 1
      BY <1>7, SMT
    <3> QED
      BY <2>2, <3>2, <3>3, <3>4
  <2> QED
    BY <2>1, <2>2
<1> QED
  BY <1>1, <1>5, <1>6, <1>7

\* The least index of those at which a test holds.
LEMMA LeastIndex ==
  ASSUME NEW n \in Nat, NEW I \in SUBSET (1 .. n), I # {}
  PROVE  Min(I) \in I /\ \A i \in I : Min(I) <= i
<1>1. I \subseteq Nat
  BY SMT
<1>2. PICK k \in I : \A i \in I : <<i, k>> \notin OpToRel(<, Nat)
  BY <1>1, WFMin, NatLessThanWellFounded, Zenon
<1>3. \A i \in I : ~(i < k)
  BY <1>1, <1>2 DEF OpToRel
<1>4. \A i \in I : k <= i
  BY <1>1, <1>3, SMT
<1> QED
  BY <1>4 DEF Min

\* The queue, or the backlog, without its first message of a key.
Without(q, key) == RemoveFirstMatch(q, LAMBDA x : x.key = key)

\* Removing the first match removes one of the matches.
LEMMA FirstOfKeyRemoved ==
  ASSUME NEW q \in Seq(Message), NEW key, \E i \in 1 .. Len(q) : q[i].key = key
  PROVE  \E k \in 1 .. Len(q) :
           /\ q[k].key = key
           /\ Without(q, key) = RemoveAt(q, k)
<1> DEFINE I == {i \in 1 .. Len(q) : q[i].key = key}
<1>1. Min(I) \in I
  <2>1. Len(q) \in Nat /\ I \in SUBSET (1 .. Len(q)) /\ I # {}
    OBVIOUS
  <2> QED
    BY <2>1, LeastIndex
<1>2. SelectInSeq(q, LAMBDA x : x.key = key) = Min(I)
  BY <1>1 DEF SelectInSeq
<1>3. Without(q, key) = RemoveAt(q, Min(I))
  BY <1>2 DEF RemoveFirstMatch, Without
<1> QED
  BY <1>1, <1>3

LEMMA NoneOfKeyRemoved ==
  ASSUME NEW q, NEW key, ~ \E i \in 1 .. Len(q) : q[i].key = key
  PROVE  Without(q, key) = q
  BY DEF RemoveFirstMatch, Without

LEMMA FirstCoalescableRemoved ==
  ASSUME NEW q \in Seq(Message), \E i \in 1 .. Len(q) : q[i].key \in Coalesced
  PROVE  \E k \in 1 .. Len(q) :
           /\ q[k].key \in Coalesced
           /\ RemoveFirstMatch(q, Coalescable) = RemoveAt(q, k)
<1> DEFINE I == {i \in 1 .. Len(q) : Coalescable(q[i])}
<1>1. Min(I) \in I
  <2>1. Len(q) \in Nat /\ I \in SUBSET (1 .. Len(q)) /\ I # {}
    BY DEF Coalescable
  <2> QED
    BY <2>1, LeastIndex
<1>2. SelectInSeq(q, Coalescable) = Min(I)
  BY <1>1 DEF SelectInSeq
<1>3. RemoveFirstMatch(q, Coalescable) = RemoveAt(q, Min(I))
  BY <1>1, <1>2 DEF RemoveFirstMatch
<1> QED
  BY <1>1, <1>3 DEF Coalescable

-------------------------------------------------------------------------------
\* What publishing m does to a stream: m is appended and then at most one
\* message taken out: an older revision of m, or a status.
Took(s, m, t) ==
    \/ t = Append(s, m)
    \/ \E k \in 1 .. Len(s) + 1 :
         /\ t = RemoveAt(Append(s, m), k)
         /\ IF k = Len(s) + 1 THEN m.key \in Coalesced
            ELSE s[k].key \in Replayed /\ (s[k].key = m.key \/ s[k].key \in Coalesced)

\* Taking out and appending commute, ...
LEMMA RemovedThenAppended ==
  ASSUME NEW q \in Seq(Message), NEW m \in Message, NEW k \in 1 .. Len(q)
  PROVE  Append(RemoveAt(q, k), m) = RemoveAt(Append(q, m), k)
<1> DEFINE r == RemoveAt(q, k)
           a == Append(q, m)
           x == Append(r, m)
           y == RemoveAt(a, k)
<1>1. /\ r \in Seq(Message) /\ Len(q) \in Nat /\ Len(r) = Len(q) - 1
      /\ \A i \in 1 .. Len(q) - 1 : r[i] = q[IF i < k THEN i ELSE i + 1]
  BY Removed
<1>2. /\ a \in Seq(Message) /\ Len(a) = Len(q) + 1
      /\ \A i \in 1 .. Len(q) : a[i] = q[i]
      /\ a[Len(q) + 1] = m
  BY Appended
<1> HIDE DEF r, a
<1>3. /\ x \in Seq(Message) /\ Len(x) = Len(r) + 1
      /\ \A i \in 1 .. Len(r) : x[i] = r[i]
      /\ x[Len(r) + 1] = m
  BY <1>1, Appended
<1>4. k \in 1 .. Len(a)
  BY <1>1, <1>2, SMT
<1>5. /\ y \in Seq(Message) /\ Len(y) = Len(a) - 1
      /\ \A i \in 1 .. Len(a) - 1 : y[i] = a[IF i < k THEN i ELSE i + 1]
  BY <1>2, <1>4, Removed
<1> HIDE DEF x, y
<1>6. Len(x) = Len(q) /\ Len(y) = Len(q) /\ Len(q) \in Nat
  BY <1>1, <1>2, <1>3, <1>5, SMT
<1>7. ASSUME NEW i \in 1 .. Len(q) PROVE x[i] = y[i]
  <2>1. y[i] = a[IF i < k THEN i ELSE i + 1]
    <3>1. i \in 1 .. Len(a) - 1
      BY <1>1, <1>2, SMT
    <3> QED
      BY <3>1, <1>5
  <2>2. CASE i = Len(q)
    <3>1. x[i] = m
      BY <2>2, <1>1, <1>3, SMT
    <3>2. ~(i < k) /\ i + 1 = Len(q) + 1
      BY <2>2, <1>1, SMT
    <3> QED
      BY <2>1, <3>1, <3>2, <1>2
  <2>3. CASE i # Len(q)
    <3>1. i \in 1 .. Len(r) /\ i \in 1 .. Len(q) - 1
      BY <2>3, <1>1, SMT
    <3>2. x[i] = q[IF i < k THEN i ELSE i + 1]
      BY <3>1, <1>1, <1>3
    <3>3. (IF i < k THEN i ELSE i + 1) \in 1 .. Len(q)
      BY <3>1, <1>1, SMT
    <3> QED
      BY <2>1, <3>2, <3>3, <1>2
  <2> QED
    BY <2>2, <2>3
<1>8. x = y
  BY <1>3, <1>5, <1>6, <1>7, SameSeq
<1> QED
  BY <1>8 DEF x, y, r, a

\* ... and both commute with what was written before.
LEMMA WrittenThenAppended ==
  ASSUME NEW w \in Seq(Message), NEW q \in Seq(Message), NEW m \in Message
  PROVE  w \o Append(q, m) = Append(w \o q, m)
  BY SMT

LEMMA WrittenThenRemoved ==
  ASSUME NEW w \in Seq(Message), NEW q \in Seq(Message), NEW k \in 1 .. Len(q)
  PROVE  w \o RemoveAt(q, k) = RemoveAt(w \o q, Len(w) + k)
<1> DEFINE r == RemoveAt(q, k)
           s == w \o q
           x == w \o r
           y == RemoveAt(s, Len(w) + k)
<1>1. /\ r \in Seq(Message) /\ Len(q) \in Nat /\ Len(r) = Len(q) - 1
      /\ \A i \in 1 .. Len(q) - 1 : r[i] = q[IF i < k THEN i ELSE i + 1]
  BY Removed
<1>2. /\ s \in Seq(Message) /\ Len(s) = Len(w) + Len(q) /\ Len(w) \in Nat
      /\ \A i \in 1 .. Len(w) : s[i] = w[i]
      /\ \A i \in 1 .. Len(q) : s[Len(w) + i] = q[i]
  BY Concat
<1> HIDE DEF r, s
<1>3. /\ x \in Seq(Message) /\ Len(x) = Len(w) + Len(r)
      /\ \A i \in 1 .. Len(w) : x[i] = w[i]
      /\ \A i \in 1 .. Len(w) + Len(r) : i > Len(w) =>
           i - Len(w) \in 1 .. Len(r) /\ x[i] = r[i - Len(w)]
  BY <1>1, Concat
<1>4. Len(w) + k \in 1 .. Len(s)
  BY <1>1, <1>2, SMT
<1>5. /\ y \in Seq(Message) /\ Len(y) = Len(s) - 1
      /\ \A i \in 1 .. Len(s) - 1 : y[i] = s[IF i < Len(w) + k THEN i ELSE i + 1]
  BY <1>2, <1>4, Removed
<1> HIDE DEF x, y
<1>6. Len(x) = Len(y) /\ Len(x) = Len(w) + Len(q) - 1
  BY <1>1, <1>2, <1>3, <1>5, SMT
<1>7. ASSUME NEW i \in 1 .. Len(x) PROVE x[i] = y[i]
  <2>1. y[i] = s[IF i < Len(w) + k THEN i ELSE i + 1]
    <3>1. i \in 1 .. Len(s) - 1
      BY <1>6, <1>2, SMT
    <3> QED
      BY <3>1, <1>5
  <2>2. CASE i <= Len(w)
    <3>1. i \in 1 .. Len(w) /\ i < Len(w) + k
      BY <2>2, <1>2, <1>1, SMT
    <3> QED
      BY <2>1, <3>1, <1>2, <1>3
  <2>3. CASE ~(i <= Len(w))
    <3>1. i \in 1 .. Len(w) + Len(r) /\ i > Len(w) /\ i - Len(w) \in 1 .. Len(q) - 1
      BY <2>3, <1>1, <1>2, <1>3, <1>6, SMT
    <3>2. x[i] = q[IF i - Len(w) < k THEN i - Len(w) ELSE i - Len(w) + 1]
      BY <3>1, <1>1, <1>3
    <3>3. CASE i - Len(w) < k
      <4>1. i < Len(w) + k /\ i - Len(w) \in 1 .. Len(q) /\ Len(w) + (i - Len(w)) = i
        BY <3>1, <3>3, <1>1, <1>2, SMT
      <4> QED
        BY <2>1, <3>2, <3>3, <4>1, <1>2
    <3>4. CASE ~(i - Len(w) < k)
      <4>1. /\ ~(i < Len(w) + k) /\ i - Len(w) + 1 \in 1 .. Len(q)
            /\ Len(w) + (i - Len(w) + 1) = i + 1
        BY <3>1, <3>4, <1>1, <1>2, SMT
      <4> QED
        BY <2>1, <3>2, <3>4, <4>1, <1>2
    <3> QED
      BY <3>3, <3>4
  <2> QED
    BY <2>2, <2>3
<1>8. x = y
  BY <1>3, <1>5, <1>6, <1>7, SameSeq
<1> QED
  BY <1>8 DEF x, y, r, s

-------------------------------------------------------------------------------
\* What appending the newest message keeps.
LEMMA AppendKeeps ==
  ASSUME NEW s \in Seq(Message), NEW m \in Message, NEW n \in Nat, m.n = n + 1, Upto(s, n)
  PROVE  /\ Upto(Append(s, m), n + 1)
         /\ Ordered(s) => Ordered(Append(s, m))
         /\ Introduced(s) /\ (m.key \in Pulses => \E x \in Range(s) : IsHello(x))
              => Introduced(Append(s, m))
         /\ Range(s) \subseteq Range(Append(s, m)) /\ m \in Range(Append(s, m))
<1> DEFINE a == Append(s, m)
<1>1. /\ a \in Seq(Message) /\ Len(s) \in Nat /\ Len(a) = Len(s) + 1
      /\ DOMAIN s = 1 .. Len(s) /\ DOMAIN a = 1 .. Len(s) + 1
      /\ \A i \in 1 .. Len(s) : a[i] = s[i]
      /\ a[Len(s) + 1] = m
  BY Appended
<1>2. \A i \in 1 .. Len(s) + 1 : i \in 1 .. Len(s) \/ i = Len(s) + 1
  BY <1>1, SMT
<1>3. \A i \in 1 .. Len(s) : s[i].n \in Nat /\ s[i].n <= n
  BY <1>1, Elements DEF Upto
<1>4. \A i, j \in 1 .. Len(s) + 1 : i < j => i \in 1 .. Len(s)
  BY <1>1, SMT
<1>5. \A i \in 1 .. Len(s) + 1 : 1 .. (i - 1) \subseteq 1 .. Len(s)
  BY <1>1, SMT
<1>6. \A i \in 1 .. Len(s) : i \in 1 .. Len(s) + 1
  BY <1>1, SMT
<1> HIDE DEF a
<1>7. Upto(a, n + 1)
  BY <1>1, <1>2, <1>3 DEF Upto
<1>8. ASSUME Ordered(s) PROVE Ordered(a)
  <2> SUFFICES ASSUME NEW i \in 1 .. Len(s) + 1, NEW j \in 1 .. Len(s) + 1, i < j,
                      Numbered(a[i]), Numbered(a[j])
               PROVE  a[i].n < a[j].n
    BY <1>1 DEF Ordered
  <2>1. i \in 1 .. Len(s)
    BY <1>4
  <2>2. CASE j = Len(s) + 1
    <3>1. a[j].n = n + 1 /\ a[i].n \in Nat /\ a[i].n <= n
      BY <2>1, <2>2, <1>1, <1>3
    <3> QED
      BY <3>1
  <2>3. CASE j \in 1 .. Len(s)
    BY <2>1, <2>3, <1>1, <1>8 DEF Ordered
  <2> QED
    BY <2>2, <2>3, <1>2
<1>9. ASSUME Introduced(s), m.key \in Pulses => \E x \in Range(s) : IsHello(x)
      PROVE  Introduced(a)
  <2> SUFFICES ASSUME NEW i \in 1 .. Len(s) + 1
               PROVE  /\ a[i].key \in Pulses => \E j \in 1..(i - 1) : IsHello(a[j])
                      /\ \A j \in 1..(i - 1) :
                           IsHello(a[i]) /\ a[j].key = "channel" => a[j].n < a[i].n
    BY <1>1 DEF Introduced
  <2>1. CASE i \in 1 .. Len(s)
    BY <2>1, <1>1, <1>5, <1>9 DEF Introduced
  <2>2. CASE i = Len(s) + 1
    <3>1. a[i] = m /\ 1..(i - 1) = 1 .. Len(s)
      BY <2>2, <1>1, SMT
    <3>2. m.key \in Pulses => \E j \in 1 .. Len(s) : IsHello(s[j])
      BY <1>9, <1>1 DEF Range
    <3>3. m.key \in Pulses => \E j \in 1..(i - 1) : IsHello(a[j])
      BY <3>1, <3>2, <1>1
    <3>4. ASSUME NEW j \in 1 .. Len(s) PROVE a[j].n < a[i].n
      <4>1. a[j].n \in Nat /\ a[j].n <= n /\ a[i].n = n + 1
        BY <3>1, <1>1, <1>3
      <4> QED
        BY <4>1
    <3> QED
      BY <3>1, <3>3, <3>4
  <2> QED
    BY <2>1, <2>2, <1>2
<1>10. Range(s) \subseteq Range(a) /\ m \in Range(a)
  BY <1>1, <1>6 DEF Range
<1> QED
  BY <1>7, <1>8, <1>9, <1>10 DEF a

\* What taking one message out keeps.
LEMMA RemovalKeeps ==
  ASSUME NEW a \in Seq(Message), NEW k \in 1 .. Len(a)
  PROVE  /\ \A n \in Nat : Upto(a, n) => Upto(RemoveAt(a, k), n)
         /\ Ordered(a) => Ordered(RemoveAt(a, k))
         /\ Introduced(a) /\ ~IsHello(a[k]) => Introduced(RemoveAt(a, k))
         /\ Range(RemoveAt(a, k)) \subseteq Range(a)
         /\ \A x \in Range(a) : x = a[k] \/ x \in Range(RemoveAt(a, k))
         /\ Closed(a) /\ k # Len(a) => Closed(RemoveAt(a, k))
<1> DEFINE t == RemoveAt(a, k)
           f(i) == IF i < k THEN i ELSE i + 1
<1>1. /\ t \in Seq(Message) /\ Len(a) \in Nat /\ Len(t) = Len(a) - 1
      /\ DOMAIN t = 1 .. Len(a) - 1
      /\ \A i \in 1 .. Len(a) - 1 : t[i] = a[f(i)]
  BY Removed
<1>2. DOMAIN a = 1 .. Len(a)
  OBVIOUS
<1>3. \A i \in 1 .. Len(a) - 1 : f(i) \in 1 .. Len(a)
  BY <1>1, SMT
<1>4. \A i, j \in 1 .. Len(a) - 1 : i < j => f(i) < f(j)
  BY <1>1, SMT
<1>5. ASSUME NEW i \in 1 .. Len(a), i # k
      PROVE  \E j \in 1 .. Len(a) - 1 : f(j) = i
  <2>1. CASE i < k
    <3>1. i \in 1 .. Len(a) - 1
      BY <2>1, <1>1, SMT
    <3> QED
      BY <2>1, <3>1
  <2>2. CASE ~(i < k)
    <3>1. i - 1 \in 1 .. Len(a) - 1 /\ ~(i - 1 < k) /\ i - 1 + 1 = i
      BY <2>2, <1>5, <1>1, SMT
    <3> QED
      BY <3>1
  <2> QED
    BY <2>1, <2>2
<1> HIDE DEF t, f
<1>6. \A n \in Nat : Upto(a, n) => Upto(t, n)
  BY <1>1, <1>2, <1>3 DEF Upto
<1>7. Ordered(a) => Ordered(t)
  BY <1>1, <1>2, <1>3, <1>4, Zenon DEF Ordered
<1>8. ASSUME Introduced(a), ~IsHello(a[k]) PROVE Introduced(t)
  <2>1. ASSUME NEW i \in 1 .. Len(a) - 1, t[i].key \in Pulses
        PROVE  \E j \in 1..(i - 1) : IsHello(t[j])
    <3>1. PICK h \in 1..(f(i) - 1) : IsHello(a[h])
      BY <2>1, <1>1, <1>2, <1>3, <1>8 DEF Introduced
    <3>2. f(i) \in 1 .. Len(a)
      BY <1>3
    <3>3. h \in 1 .. Len(a) /\ h # k /\ h < f(i)
      BY <1>1, <1>8, <3>1, <3>2
    <3>4. PICK j \in 1 .. Len(a) - 1 : f(j) = h
      BY <3>3, <1>5
    <3>5. j < i
      <4>1. ASSUME ~(j < i) PROVE FALSE
        <5>1. i < j \/ i = j
          BY <4>1, <1>1, SMT
        <5>2. f(i) < h \/ f(i) = h
          BY <5>1, <3>4, <1>4
        <5> QED
          BY <5>2, <3>2, <3>3, <1>1, SMT
      <4> QED
        BY <4>1
    <3>6. j \in 1..(i - 1) /\ t[j] = a[h]
      BY <3>4, <3>5, <1>1, SMT
    <3> QED
      BY <3>1, <3>6
  <2>2. ASSUME NEW i \in 1 .. Len(a) - 1, NEW j \in 1..(i - 1), IsHello(t[i]), t[j].key = "channel"
        PROVE  t[j].n < t[i].n
    <3>1. j \in 1 .. Len(a) - 1 /\ j < i
      BY <1>1, SMT
    <3>2. f(j) \in 1 .. Len(a) /\ f(i) \in 1 .. Len(a) /\ f(j) < f(i)
      BY <3>1, <1>3, <1>4
    <3>3. f(j) \in 1..(f(i) - 1)
      BY <3>2, <1>1, SMT
    <3> QED
      BY <3>1, <3>2, <3>3, <2>2, <1>1, <1>2, <1>8 DEF Introduced
  <2> QED
    BY <2>1, <2>2, <1>1 DEF Introduced
<1>9. Range(t) \subseteq Range(a)
  BY <1>1, <1>2, <1>3 DEF Range
<1>10. \A x \in Range(a) : x = a[k] \/ x \in Range(t)
  <2> SUFFICES ASSUME NEW i \in 1 .. Len(a), i # k PROVE a[i] \in Range(t)
    BY <1>2 DEF Range
  <2>1. PICK j \in 1 .. Len(a) - 1 : f(j) = i
    BY <1>5
  <2>2. t[j] = a[i] /\ j \in DOMAIN t
    BY <2>1, <1>1
  <2> QED
    BY <2>2, Zenon DEF Range
<1>11. ASSUME Closed(a), k # Len(a) PROVE Closed(t)
  <2>1. Len(a) - 1 \in 1 .. Len(a) - 1 /\ f(Len(a) - 1) = Len(a)
    BY <1>1, <1>11, SMT DEF f
  <2>2. t[Len(t)] = a[Len(a)] /\ t # <<>>
    BY <2>1, <1>1
  <2> QED
    BY <2>2, <1>11 DEF Closed, Last
<1> QED
  BY <1>6, <1>7, <1>8, <1>9, <1>10, <1>11 DEF t

\* Hence publishing to a stream keeps what a browser relies on: its order, hello
\* before pulse frames, and all it was owed but for what m itself supersedes.
LEMMA TookKeeps ==
  ASSUME NEW s \in Seq(Message), NEW m \in Message, NEW t, Took(s, m, t),
         NEW n \in Nat, m.n = n + 1, Upto(s, n), Ordered(s), Introduced(s),
         m.key \in Pulses => \E x \in Range(s) : IsHello(x)
  PROVE  /\ t \in Seq(Message)
         /\ Upto(t, n + 1) /\ Ordered(t) /\ Introduced(t)
         /\ \A x \in Range(s) : \/ x \in Range(t)
                                \/ x.key \in Coalesced
                                \/ x.key = m.key /\ m.key \in Replayed
         /\ m.key \notin Coalesced => m \in Range(t)
         /\ m.key = "stopped" => Closed(t)
<1> DEFINE a == Append(s, m)
<1>1. /\ a \in Seq(Message) /\ Len(s) \in Nat /\ Len(a) = Len(s) + 1
      /\ \A i \in 1 .. Len(s) : a[i] = s[i]
      /\ a[Len(s) + 1] = m
  BY Appended
<1>2. Upto(a, n + 1) /\ Ordered(a) /\ Introduced(a) /\ Range(s) \subseteq Range(a) /\ m \in Range(a)
  BY AppendKeeps
<1>3. m.key = "stopped" => Closed(a)
  BY <1>1 DEF Closed, Last
<1>4. n + 1 \in Nat
  OBVIOUS
<1> HIDE DEF a
<1>5. CASE t = a
  BY <1>5, <1>1, <1>2, <1>3
<1>6. ASSUME NEW k \in 1 .. Len(s) + 1, t = RemoveAt(a, k),
             IF k = Len(s) + 1 THEN m.key \in Coalesced
             ELSE s[k].key \in Replayed /\ (s[k].key = m.key \/ s[k].key \in Coalesced)
      PROVE  /\ t \in Seq(Message)
             /\ Upto(t, n + 1) /\ Ordered(t) /\ Introduced(t)
             /\ \A x \in Range(s) : \/ x \in Range(t)
                                    \/ x.key \in Coalesced
                                    \/ x.key = m.key /\ m.key \in Replayed
             /\ m.key \notin Coalesced => m \in Range(t)
             /\ m.key = "stopped" => Closed(t)
  <2>1. k \in 1 .. Len(a)
    BY <1>1
  <2>2. /\ a[k].key \in Replayed
        /\ a[k].key \in Coalesced \/ (a[k].key = m.key /\ m.key \in Replayed)
        /\ m.key \notin Coalesced => k # Len(a)
    <3>1. CASE k = Len(s) + 1
      BY <3>1, <1>1, <1>6 DEF Replayed, Coalesced
    <3>2. CASE k # Len(s) + 1
      <4>1. k \in 1 .. Len(s)
        BY <3>2, <1>1, SMT
      <4> QED
        BY <4>1, <3>2, <1>1, <1>6 DEF Replayed, Coalesced
    <3> QED
      BY <3>1, <3>2
  <2>3. ~IsHello(a[k])
    BY <2>2, HubAssumption DEF IsHello, Replayed
  <2>4. t \in Seq(Message)
    BY <1>6, <1>1, <2>1, Removed
  <2>5. Upto(t, n + 1) /\ Ordered(t) /\ Introduced(t)
    BY <1>6, <1>1, <1>2, <1>4, <2>1, <2>3, RemovalKeeps
  <2>6. \A x \in Range(a) : x = a[k] \/ x \in Range(t)
    BY <1>6, <1>1, <2>1, RemovalKeeps
  <2>7. \A x \in Range(s) : \/ x \in Range(t)
                            \/ x.key \in Coalesced
                            \/ x.key = m.key /\ m.key \in Replayed
    BY <2>2, <2>6, <1>2
  <2>8. ASSUME m.key \notin Coalesced PROVE m \in Range(t)
    <3>1. Len(a) # k /\ Len(a) \in 1 .. Len(a) /\ Len(a) - 1 \in 1 .. Len(a) - 1 /\ k < Len(a)
      BY <1>1, <2>1, <2>2, <2>8, SMT
    <3>a. ~(Len(a) - 1 < k) /\ Len(a) - 1 + 1 = Len(a)
      BY <1>1, <2>1, <3>1, SMT
    <3>b. /\ DOMAIN t = 1 .. Len(a) - 1
          /\ \A i \in 1 .. Len(a) - 1 : t[i] = a[IF i < k THEN i ELSE i + 1]
      BY <1>6, <1>1, <2>1, Removed
    <3>2. t[Len(a) - 1] = a[Len(a)] /\ Len(a) - 1 \in DOMAIN t
      BY <3>1, <3>a, <3>b
    <3> QED
      BY <3>2, <1>1 DEF Range
  <2>9. m.key = "stopped" => Closed(t)
    BY <1>6, <1>1, <1>3, <2>1, <2>2, RemovalKeeps DEF Coalesced
  <2> QED
    BY <2>4, <2>5, <2>7, <2>8, <2>9
<1> QED
  BY <1>5, <1>6 DEF Took, a

-------------------------------------------------------------------------------
\* Writing the first n of a queue moves them to what was written.
LEMMA WrittenAndLeft ==
  ASSUME NEW w \in Seq(Message), NEW q \in Seq(Message), NEW n \in 0 .. Len(q)
  PROVE  /\ SubSeq(q, n + 1, Len(q)) \in Seq(Message)
         /\ w \o SubSeq(q, 1, n) \in Seq(Message)
         /\ (w \o SubSeq(q, 1, n)) \o SubSeq(q, n + 1, Len(q)) = w \o q
<1> DEFINE a == SubSeq(q, 1, n)
           b == SubSeq(q, n + 1, Len(q))
<1>1. /\ a \in Seq(Message) /\ Len(a) = n /\ Len(q) \in Nat
      /\ \A i \in 1 .. n : a[i] = q[i]
  <2>1. 1 \in 1 .. Len(q) + 1 /\ Len(q) \in Nat
    OBVIOUS
  <2>2. /\ a \in Seq(Message) /\ Len(a) = IF 1 <= n THEN n - 1 + 1 ELSE 0
        /\ \A i \in 1 .. n - 1 + 1 : a[i] = q[1 + i - 1]
    BY <2>1, Part
  <2>3. \A i \in 1 .. n : i \in 1 .. n - 1 + 1 /\ 1 + i - 1 = i
    BY SMT
  <2>4. Len(a) = n
    BY <2>2, SMT
  <2>5. \A i \in 1 .. n : a[i] = q[i]
    BY <2>2, <2>3
  <2> QED
    BY <2>1, <2>2, <2>4, <2>5
<1>2. /\ b \in Seq(Message) /\ Len(b) = Len(q) - n
      /\ \A i \in 1 .. Len(q) - n : b[i] = q[n + i]
  <2>1. n + 1 \in 1 .. Len(q) + 1 /\ Len(q) \in 0 .. Len(q)
    BY <1>1, SMT
  <2>2. /\ b \in Seq(Message) /\ Len(b) = IF n + 1 <= Len(q) THEN Len(q) - (n + 1) + 1 ELSE 0
        /\ \A i \in 1 .. Len(q) - (n + 1) + 1 : b[i] = q[n + 1 + i - 1]
    BY <2>1, Part
  <2>3. \A i \in 1 .. Len(q) - n : i \in 1 .. Len(q) - (n + 1) + 1 /\ n + 1 + i - 1 = n + i
    BY <1>1, SMT
  <2>4. Len(b) = Len(q) - n
    BY <1>1, <2>2, SMT
  <2>5. \A i \in 1 .. Len(q) - n : b[i] = q[n + i]
    BY <2>2, <2>3
  <2> QED
    BY <2>2, <2>4, <2>5
<1> HIDE DEF a, b
<1>3. /\ w \o a \in Seq(Message) /\ Len(w \o a) = Len(w) + n /\ Len(w) \in Nat
      /\ \A i \in 1 .. Len(w) : (w \o a)[i] = w[i]
      /\ \A i \in 1 .. n : (w \o a)[Len(w) + i] = a[i]
  BY <1>1, Concat
<1> DEFINE v == w \o a
<1> HIDE DEF v
<1>4. v \in Seq(Message) /\ Len(v) = Len(w) + n
  BY <1>3 DEF v
<1>5. /\ v \o b \in Seq(Message) /\ Len(v \o b) = Len(v) + Len(b)
      /\ \A i \in 1 .. Len(v) : (v \o b)[i] = v[i]
      /\ \A i \in 1 .. Len(v) + Len(b) : i > Len(v) =>
           i - Len(v) \in 1 .. Len(b) /\ (v \o b)[i] = b[i - Len(v)]
  BY <1>2, <1>4, Concat
<1>6. /\ w \o q \in Seq(Message) /\ Len(w \o q) = Len(w) + Len(q)
      /\ \A i \in 1 .. Len(w) : (w \o q)[i] = w[i]
      /\ \A i \in 1 .. Len(q) : (w \o q)[Len(w) + i] = q[i]
  BY Concat
<1>7. Len(v \o b) = Len(w \o q)
  BY <1>1, <1>2, <1>3, <1>4, <1>5, <1>6, SMT
<1>8. ASSUME NEW i \in 1 .. Len(w \o q) PROVE (v \o b)[i] = (w \o q)[i]
  <2>a. i \in 1 .. Len(w) + Len(q) /\ Len(v) + Len(b) = Len(w) + Len(q)
    BY <1>1, <1>2, <1>4, <1>6, SMT
  <2>1. CASE i <= Len(w)
    <3>1. i \in 1 .. Len(w) /\ i \in 1 .. Len(v)
      BY <2>1, <1>1, <1>3, <1>4, SMT
    <3> QED
      BY <3>1, <1>3, <1>5, <1>6 DEF v
  <2>2. CASE i > Len(w) /\ i <= Len(v)
    <3>1. PICK j \in 1 .. n : i = Len(w) + j
      <4>1. i - Len(w) \in 1 .. n /\ i = Len(w) + (i - Len(w))
        BY <2>2, <1>1, <1>3, <1>4, SMT
      <4> QED
        BY <4>1
    <3>2. i \in 1 .. Len(v) /\ j \in 1 .. Len(q)
      BY <2>2, <3>1, <1>1, <1>4, SMT
    <3>3. (v \o b)[i] = a[j] /\ (w \o q)[i] = q[j]
      BY <3>1, <3>2, <1>3, <1>5, <1>6 DEF v
    <3> QED
      BY <3>3, <1>1
  <2>3. CASE i > Len(v)
    <3>1. PICK j \in 1 .. Len(q) - n : i = Len(v) + j
      <4>1. i - Len(v) \in 1 .. Len(q) - n /\ i = Len(v) + (i - Len(v))
        BY <2>3, <2>a, <1>1, <1>2, <1>3, <1>4, SMT
      <4> QED
        BY <4>1
    <3>2. i - Len(v) = j /\ n + j \in 1 .. Len(q) /\ i = Len(w) + (n + j)
      BY <3>1, <1>1, <1>3, <1>4, SMT
    <3>3. (v \o b)[i] = b[j] /\ (w \o q)[i] = q[n + j]
      BY <2>3, <2>a, <3>2, <1>5, <1>6
    <3> QED
      BY <3>3, <1>2
  <2>4. i <= Len(w) \/ (i > Len(w) /\ i <= Len(v)) \/ i > Len(v)
    BY <2>a, <1>1, <1>3, <1>4, SMT
  <2> QED
    BY <2>1, <2>2, <2>3, <2>4
<1>9. v \o b = w \o q
  BY <1>5, <1>6, <1>7, <1>8, SameSeq
<1> QED
  BY <1>2, <1>3, <1>9 DEF v, a, b

LEMMA GoneClient == Gone \in Client /\ StreamOf(Gone) = <<>> /\ Gone.state = "gone"
<1>1. <<>> \in Seq(Message) /\ <<>> \o <<>> = <<>>
  OBVIOUS
<1>2. NewClient \in Client /\ NewClient.queue = <<>> /\ NewClient.written = <<>>
  BY <1>1 DEF NewClient, Client
<1>3. Gone \in Client /\ Gone.state = "gone" /\ Gone.queue = <<>> /\ Gone.written = <<>>
  BY <1>2 DEF Gone, Client
<1> QED
  BY <1>1, <1>3 DEF StreamOf

\* flush() leaves the stream as it is, or the client is removed.  A client it
\* ends was closing and has nothing queued.
LEMMA FlushKeepsStream ==
  ASSUME NEW c \in Client, NEW x \in Flush(c)
  PROVE  /\ x \in Client
         /\ \/ x = Gone
            \/ /\ StreamOf(x) = StreamOf(c)
               /\ \/ x.state = c.state /\ (c.queue = <<>> => x.queue = <<>>)
                  \/ c.state = "closing" /\ x.state = "ended" /\ x.queue = <<>>
<1>1. c.queue \in Seq(Message) /\ c.written \in Seq(Message) /\ Len(c.queue) \in Nat
  BY DEF Client
<1>2. ASSUME NEW n \in 0 .. Len(c.queue), NEW full \in BOOLEAN, x = Wrote(c, n, full)
      PROVE  /\ x \in Client
             /\ StreamOf(x) = StreamOf(c)
             /\ \/ x.state = c.state /\ (c.queue = <<>> => x.queue = <<>>)
                \/ c.state = "closing" /\ x.state = "ended" /\ x.queue = <<>>
  <2> DEFINE rest == SubSeq(c.queue, n + 1, Len(c.queue))
             sent == c.written \o SubSeq(c.queue, 1, n)
  <2>1. rest \in Seq(Message) /\ sent \in Seq(Message) /\ sent \o rest = c.written \o c.queue
    BY <1>1, WrittenAndLeft
  <2>2. c.queue = <<>> => rest = <<>>
    BY <1>1
  <2> HIDE DEF rest, sent
  <2>3. PICK s \in {"new", "open", "closing", "ended", "gone"}, p \in BOOLEAN :
          /\ x = [c EXCEPT !.queue = rest, !.written = sent, !.state = s, !.paused = p]
          /\ s = c.state \/ (c.state = "closing" /\ s = "ended" /\ rest = <<>>)
    <3>1. CASE c.state = "closing" /\ rest = <<>>
      <4>1. x = [c EXCEPT !.queue = rest, !.written = sent, !.state = "ended", !.paused = FALSE]
        BY <1>2, <3>1 DEF Wrote, rest, sent
      <4> QED
        BY <3>1, <4>1
    <3>2. CASE ~(c.state = "closing" /\ rest = <<>>)
      <4>1. x = [c EXCEPT !.queue = rest, !.written = sent, !.state = c.state,
                          !.paused = full \/ c.paused]
        BY <1>2, <3>2 DEF Wrote, rest, sent
      <4>2. (full \/ c.paused) \in BOOLEAN /\ c.state \in {"new", "open", "closing", "ended", "gone"}
        BY DEF Client
      <4> QED
        BY <4>1, <4>2
    <3> QED
      BY <3>1, <3>2
  <2>4. x \in Client
    BY <2>1, <2>3 DEF Client
  <2>5. x.queue = rest /\ x.written = sent /\ x.state = s
    BY <2>3 DEF Client
  <2> QED
    BY <2>1, <2>2, <2>3, <2>4, <2>5 DEF StreamOf
<1>3. CASE x = c
  BY <1>3
<1>4. CASE x = Gone
  BY <1>4, GoneClient
<1>5. \/ x = c \/ x = Gone
      \/ \E n \in 0 .. Len(c.queue), full \in BOOLEAN : x = Wrote(c, n, full)
  <2>1. Len(c.queue) \in 0 .. Len(c.queue) /\ \A n \in 1 .. Len(c.queue) : n \in 0 .. Len(c.queue)
    BY <1>1
  <2> QED
    BY <2>1 DEF Flush
<1> QED
  BY <1>2, <1>3, <1>4, <1>5

\* enqueue() on an open client publishes to its stream, or the client is removed.
LEMMA EnqueueTakes ==
  ASSUME NEW c \in Client, c.state = "open", NEW m \in Message
  PROVE  LET x == Enqueue(c, m)
         IN  \/ x = Gone
             \/ x \in Client /\ x.state = "open" /\ Took(StreamOf(c), m, StreamOf(x))
<1> DEFINE q == c.queue
           w == c.written
           s == StreamOf(c)
           a == Append(q, m)
           x == Enqueue(c, m)
<1>1. /\ q \in Seq(Message) /\ w \in Seq(Message) /\ s \in Seq(Message)
      /\ Len(q) \in Nat /\ Len(w) \in Nat /\ Len(s) = Len(w) + Len(q)
      /\ \A i \in 1 .. Len(q) : s[Len(w) + i] = q[i]
  <2>1. q \in Seq(Message) /\ w \in Seq(Message) /\ s = w \o q
    BY DEF Client, StreamOf
  <2> HIDE DEF q, w, s
  <2> QED
    BY <2>1, Concat
<1>2. /\ a \in Seq(Message) /\ Len(a) = Len(q) + 1
      /\ \A i \in 1 .. Len(q) : a[i] = q[i]
      /\ a[Len(q) + 1] = m
  BY <1>1, Appended
<1>3. w \o a = Append(s, m)
  BY <1>1, WrittenThenAppended DEF StreamOf
<1>0. Took(s, m, w \o a) /\ c \in Client
  BY <1>3 DEF Took
<1> HIDE DEF q, w, s, a
<1>4. ASSUME NEW r \in Seq(Message), x = Enqueued(c, r), Took(s, m, w \o r)
      PROVE  x \in Client /\ x.state = "open" /\ Took(s, m, StreamOf(x))
  <2>1. x \in Client /\ x.state = "open" /\ x.queue = r /\ x.written = w
    BY <1>4 DEF Enqueued, Client, w
  <2> QED
    BY <2>1, <1>4 DEF StreamOf
<1>5. CASE m.key \in Replayed /\ \E y \in Range(q) : y.key = m.key
  <2>1. x = Enqueued(c, Append(Without(q, m.key), m))
    BY <1>5 DEF Enqueue, q, Without
  <2>2. \E i \in 1 .. Len(q) : q[i].key = m.key
    BY <1>5, <1>1 DEF Range
  <2>3. PICK k \in 1 .. Len(q) :
          /\ q[k].key = m.key
          /\ Without(q, m.key) = RemoveAt(q, k)
    BY <1>1, <2>2, FirstOfKeyRemoved
  <2>4. x = Enqueued(c, RemoveAt(a, k))
    BY <1>1, <2>1, <2>3, RemovedThenAppended DEF a
  <2>5. k \in 1 .. Len(a)
    BY <1>1, <1>2
  <2>6. w \o RemoveAt(a, k) = RemoveAt(Append(s, m), Len(w) + k)
    BY <1>1, <1>2, <1>3, <2>5, WrittenThenRemoved
  <2>7. /\ Len(w) + k \in 1 .. Len(s) + 1 /\ Len(w) + k # Len(s) + 1
        /\ s[Len(w) + k].key = m.key
    BY <1>1, <2>3
  <2>8. Took(s, m, w \o RemoveAt(a, k))
    BY <2>6, <2>7, <1>5 DEF Took
  <2>9. RemoveAt(a, k) \in Seq(Message)
    BY <1>2, <2>5, Removed
  <2> QED
    BY <1>4, <2>4, <2>8, <2>9 DEF s
<1>6. CASE /\ ~(m.key \in Replayed /\ \E y \in Range(q) : y.key = m.key)
           /\ Len(a) <= MaxQueue
  <2>1. x = Enqueued(c, a)
    BY <1>6 DEF Enqueue, q, a
  <2> QED
    BY <1>0, <1>2, <1>4, <2>1 DEF s
<1>7. CASE /\ ~(m.key \in Replayed /\ \E y \in Range(q) : y.key = m.key)
           /\ ~(Len(a) <= MaxQueue)
           /\ \E y \in Range(a) : Coalescable(y)
  <2>1. x = Enqueued(c, RemoveFirstMatch(a, Coalescable))
    BY <1>7 DEF Enqueue, q, a
  <2>2. \E i \in 1 .. Len(a) : a[i].key \in Coalesced
    BY <1>7, <1>2 DEF Range, Coalescable
  <2>3. PICK k \in 1 .. Len(a) :
          a[k].key \in Coalesced /\ RemoveFirstMatch(a, Coalescable) = RemoveAt(a, k)
    BY <1>2, <2>2, FirstCoalescableRemoved
  <2>4. w \o RemoveAt(a, k) = RemoveAt(Append(s, m), Len(w) + k)
    BY <1>1, <1>2, <1>3, WrittenThenRemoved
  <2>5. Len(w) + k \in 1 .. Len(s) + 1
    BY <1>1, <1>2
  <2>6. IF Len(w) + k = Len(s) + 1 THEN m.key \in Coalesced
        ELSE s[Len(w) + k].key \in Replayed
             /\ (s[Len(w) + k].key = m.key \/ s[Len(w) + k].key \in Coalesced)
    <3>1. CASE k = Len(q) + 1
      <4>1. Len(w) + k = Len(s) + 1
        BY <3>1, <1>1
      <4> QED
        BY <3>1, <4>1, <1>2, <2>3
    <3>2. CASE k # Len(q) + 1
      <4>1. k \in 1 .. Len(q) /\ Len(w) + k # Len(s) + 1
        BY <3>2, <1>1, <1>2, SMT
      <4>2. s[Len(w) + k] = a[k]
        BY <4>1, <1>1, <1>2
      <4> QED
        BY <4>1, <4>2, <2>3 DEF Coalesced, Replayed
    <3> QED
      BY <3>1, <3>2
  <2>7. Took(s, m, w \o RemoveAt(a, k))
    BY <2>4, <2>5, <2>6, Zenon DEF Took
  <2>8. RemoveAt(a, k) \in Seq(Message)
    BY <1>2, Removed
  <2> QED
    BY <1>4, <2>1, <2>3, <2>7, <2>8 DEF s
<1>8. CASE /\ ~(m.key \in Replayed /\ \E y \in Range(q) : y.key = m.key)
           /\ ~(Len(a) <= MaxQueue)
           /\ ~ \E y \in Range(a) : Coalescable(y)
  BY <1>8 DEF Enqueue, q, a
<1> QED
  BY <1>5, <1>6, <1>7, <1>8 DEF s

LEMMA EnqueueElse ==
  ASSUME NEW c, c.state # "open", NEW m
  PROVE  Enqueue(c, m) = c
  BY DEF Enqueue

-------------------------------------------------------------------------------
\* The backlog: dropping one message, the oldest or the one superseded, ...
LEMMA RemovalBacklogged ==
  ASSUME NEW s \in Seq(Message), NEW k \in 1 .. Len(s), NEW n \in Nat, Backlogged(s, n)
  PROVE  /\ Backlogged(RemoveAt(s, k), n)
         /\ s[k].key \in Replayed =>
              \A i \in DOMAIN RemoveAt(s, k) : RemoveAt(s, k)[i].key # s[k].key
<1> DEFINE t == RemoveAt(s, k)
           f(i) == IF i < k THEN i ELSE i + 1
<1>1. /\ t \in Seq(Message) /\ Len(s) \in Nat
      /\ DOMAIN t = 1 .. Len(s) - 1 /\ DOMAIN s = 1 .. Len(s)
      /\ \A i \in 1 .. Len(s) - 1 : t[i] = s[f(i)]
  <2>1. DOMAIN s = 1 .. Len(s)
    OBVIOUS
  <2> QED
    BY <2>1, Removed
<1>2. \A i \in 1 .. Len(s) - 1 : f(i) \in 1 .. Len(s) /\ (f(i) < k \/ k < f(i))
  BY <1>1, SMT
<1>3. \A i, j \in 1 .. Len(s) - 1 : i < j => f(i) < f(j)
  BY <1>1, SMT
<1> HIDE DEF t, f
<1>4. Upto(t, n)
  BY <1>1, <1>2 DEF Backlogged, Upto
<1>5. \A i \in DOMAIN t : t[i].key \in Replayed \cup {"notice", "stopped"}
  BY <1>1, <1>2 DEF Backlogged
<1>6. \A i, j \in DOMAIN t : i < j => t[i].n < t[j].n
  BY <1>1, <1>2, <1>3, Zenon DEF Backlogged
<1>7. \A i, j \in DOMAIN t : i < j /\ t[i].key = t[j].key => t[i].key \notin Replayed
  BY <1>1, <1>2, <1>3, Zenon DEF Backlogged
<1>8. ASSUME s[k].key \in Replayed, NEW i \in DOMAIN t PROVE t[i].key # s[k].key
  <2>1. f(i) \in 1 .. Len(s) /\ (f(i) < k \/ k < f(i)) /\ t[i] = s[f(i)]
    BY <1>1, <1>2
  <2> QED
    BY <2>1, <1>1, <1>8, Zenon DEF Backlogged
<1> QED
  BY <1>4, <1>5, <1>6, <1>7, <1>8 DEF t, Backlogged

\* ... and adding the newest.
LEMMA AppendBacklogged ==
  ASSUME NEW s \in Seq(Message), NEW m \in Message, NEW n \in Nat, Backlogged(s, n),
         m.n = n + 1, m.key \in Replayed \cup {"notice", "stopped"},
         m.key \in Replayed => \A i \in DOMAIN s : s[i].key # m.key
  PROVE  Backlogged(Append(s, m), n + 1)
<1> DEFINE a == Append(s, m)
<1>1. /\ a \in Seq(Message) /\ Len(s) \in Nat
      /\ DOMAIN s = 1 .. Len(s) /\ DOMAIN a = 1 .. Len(s) + 1
      /\ \A i \in 1 .. Len(s) : a[i] = s[i]
      /\ a[Len(s) + 1] = m
  BY Appended
<1>2. \A i \in 1 .. Len(s) + 1 : i \in 1 .. Len(s) \/ i = Len(s) + 1
  BY <1>1, SMT
<1>3. \A i \in 1 .. Len(s) : s[i].n \in Nat /\ s[i].n <= n
  BY <1>1, Elements DEF Upto, Backlogged
<1>4. \A i, j \in 1 .. Len(s) + 1 : i < j => i \in 1 .. Len(s)
  BY <1>1, SMT
<1> HIDE DEF a
<1>5. Upto(a, n + 1)
  BY <1>1, <1>2, <1>3 DEF Upto
<1>6. \A i \in DOMAIN a : a[i].key \in Replayed \cup {"notice", "stopped"}
  BY <1>1, <1>2 DEF Backlogged
<1>7. ASSUME NEW i \in 1 .. Len(s) + 1, NEW j \in 1 .. Len(s) + 1, i < j
      PROVE  a[i].n < a[j].n /\ (a[i].key = a[j].key => a[i].key \notin Replayed)
  <2>1. i \in 1 .. Len(s) /\ a[i] = s[i]
    BY <1>1, <1>4, <1>7
  <2>2. CASE j = Len(s) + 1
    <3>1. a[i].n \in Nat /\ a[i].n <= n /\ a[j] = m
      BY <2>1, <2>2, <1>1, <1>3
    <3>2. a[i].n < a[j].n
      BY <3>1
    <3> QED
      BY <2>1, <3>1, <3>2, <1>1
  <2>3. CASE j \in 1 .. Len(s)
    BY <2>1, <2>3, <1>1, <1>7 DEF Backlogged
  <2> QED
    BY <2>2, <2>3, <1>2
<1> QED
  BY <1>1, <1>5, <1>6, <1>7 DEF a, Backlogged

LEMMA TailIsRemoval ==
  ASSUME NEW q \in Seq(Message), Len(q) > 0
  PROVE  Tail(q) = RemoveAt(q, 1)
<1>1. /\ Tail(q) \in Seq(Message) /\ Len(q) \in Nat /\ Len(Tail(q)) = Len(q) - 1
      /\ \A i \in 1 .. Len(q) - 1 : Tail(q)[i] = q[i + 1]
  BY SMT
<1>2. 1 \in 1 .. Len(q)
  BY <1>1
<1>3. /\ RemoveAt(q, 1) \in Seq(Message) /\ Len(RemoveAt(q, 1)) = Len(q) - 1
      /\ \A i \in 1 .. Len(q) - 1 : RemoveAt(q, 1)[i] = q[IF i < 1 THEN i ELSE i + 1]
  BY <1>2, Removed
<1>4. \A i \in 1 .. Len(q) - 1 : Tail(q)[i] = RemoveAt(q, 1)[i]
  BY <1>1, <1>3
<1> QED
  BY <1>1, <1>3, <1>4, SameSeq

\* What publish() leaves in the backlog.
LEMMA BacklogKept ==
  ASSUME BacklogInv, backlog \in Seq(Message), Len(backlog) <= BacklogLimit, published \in Nat,
         NEW m \in Message, m.n = published + 1,
         m.key \in Replayed \cup {"notice", "stopped"}, Retain(m)
  PROVE  /\ backlog' \in Seq(Message) /\ Len(backlog') <= BacklogLimit
         /\ Backlogged(backlog', published + 1)
         /\ \A x \in Range(backlog') :
              x = m \/ (x \in Range(backlog) /\ ~(x.key = m.key /\ m.key \in Replayed))
         /\ backlog' # <<>> /\ Last(backlog') = m
         /\ bootstrap' = bootstrap
         /\ truncated \in BOOLEAN => truncated' \in BOOLEAN
<1> DEFINE kept == IF m.key \in Replayed
                   THEN Without(backlog, m.key) ELSE backlog
           q == Append(kept, m)
<1>0. m.key \notin Bootstraps /\ BacklogLimit \in Nat \ {0}
  BY HubAssumption DEF Bootstraps, Replayed
<1>1. /\ backlog' = IF Len(q) > BacklogLimit THEN Tail(q) ELSE q
      /\ truncated' = (truncated \/ (Len(q) > BacklogLimit /\ Head(q).key \in Pulses))
      /\ bootstrap' = bootstrap
  BY <1>0 DEF Retain, Without
<1>2. /\ kept \in Seq(Message) /\ Len(kept) <= Len(backlog)
      /\ Backlogged(kept, published)
      /\ m.key \in Replayed => \A i \in DOMAIN kept : kept[i].key # m.key
      /\ Range(kept) \subseteq Range(backlog)
  <2>0. DOMAIN backlog = 1 .. Len(backlog) /\ Len(backlog) \in Nat
    OBVIOUS
  <2>1. CASE m.key \in Replayed /\ \E i \in 1 .. Len(backlog) : backlog[i].key = m.key
    <3>1. PICK k \in 1 .. Len(backlog) :
            /\ backlog[k].key = m.key
            /\ Without(backlog, m.key) = RemoveAt(backlog, k)
      BY <2>1, FirstOfKeyRemoved
    <3>2. kept = RemoveAt(backlog, k)
      BY <2>1, <3>1
    <3>3. /\ RemoveAt(backlog, k) \in Seq(Message) /\ Len(RemoveAt(backlog, k)) = Len(backlog) - 1
      BY Removed
    <3>4. Range(RemoveAt(backlog, k)) \subseteq Range(backlog)
      BY RemovalKeeps
    <3>5. /\ Backlogged(RemoveAt(backlog, k), published)
          /\ \A i \in DOMAIN RemoveAt(backlog, k) : RemoveAt(backlog, k)[i].key # m.key
      BY <2>1, <3>1, RemovalBacklogged DEF BacklogInv
    <3> QED
      BY <2>0, <3>2, <3>3, <3>4, <3>5
  <2>2. CASE ~(m.key \in Replayed /\ \E i \in 1 .. Len(backlog) : backlog[i].key = m.key)
    <3>1. kept = backlog
      BY <2>2, NoneOfKeyRemoved
    <3> QED
      BY <2>0, <2>2, <3>1 DEF BacklogInv
  <2> QED
    BY <2>1, <2>2
<1> HIDE DEF kept
<1>3. /\ q \in Seq(Message) /\ Len(q) = Len(kept) + 1 /\ Len(kept) \in Nat
      /\ q[Len(kept) + 1] = m
      /\ DOMAIN q = 1 .. Len(kept) + 1
      /\ \A i \in 1 .. Len(kept) : q[i] = kept[i]
  BY <1>2, Appended
<1>4. Backlogged(q, published + 1)
  BY <1>2, AppendBacklogged
<1>5. \A x \in Range(q) :
        x = m \/ (x \in Range(backlog) /\ ~(x.key = m.key /\ m.key \in Replayed))
  <2>1. \A i \in 1 .. Len(kept) + 1 : i \in 1 .. Len(kept) \/ i = Len(kept) + 1
    BY <1>3
  <2>2. DOMAIN kept = 1 .. Len(kept)
    BY <1>2
  <2>3. \A i \in 1 .. Len(kept) : kept[i] \in Range(backlog)
    BY <1>2, <2>2 DEF Range
  <2> QED
    BY <1>2, <1>3, <2>1, <2>2, <2>3 DEF Range
<1> HIDE DEF q
<1>6. q # <<>> /\ Last(q) = m
  BY <1>3 DEF Last
<1>7. CASE ~(Len(q) > BacklogLimit)
  <2>1. backlog' = q
    BY <1>1, <1>7
  <2> QED
    BY <2>1, <1>0, <1>1, <1>3, <1>4, <1>5, <1>6, <1>7
<1>8. CASE Len(q) > BacklogLimit
  <2>1. 1 \in 1 .. Len(q) /\ Len(q) >= 2 /\ Len(q) \in Nat
    BY <1>0, <1>3, <1>8
  <2>2. backlog' = RemoveAt(q, 1)
    BY <1>1, <1>3, <1>8, <2>1, TailIsRemoval
  <2>3. /\ RemoveAt(q, 1) \in Seq(Message) /\ Len(RemoveAt(q, 1)) = Len(q) - 1
        /\ \A i \in 1 .. Len(q) - 1 : RemoveAt(q, 1)[i] = q[IF i < 1 THEN i ELSE i + 1]
    BY <1>3, <2>1, Removed
  <2>4. Backlogged(RemoveAt(q, 1), published + 1)
    BY <1>3, <1>4, <2>1, RemovalBacklogged
  <2>5. Range(RemoveAt(q, 1)) \subseteq Range(q)
    BY <1>3, <2>1, RemovalKeeps
  <2>6. Last(RemoveAt(q, 1)) = m /\ RemoveAt(q, 1) # <<>>
    <3>1. Len(q) - 1 \in 1 .. Len(q) - 1 /\ ~(Len(q) - 1 < 1) /\ Len(q) - 1 + 1 = Len(kept) + 1
      BY <1>3, <2>1
    <3>2. RemoveAt(q, 1)[Len(q) - 1] = m
      BY <3>1, <2>3, <1>3
    <3> QED
      BY <3>2, <2>1, <2>3 DEF Last
  <2>7. Len(RemoveAt(q, 1)) <= BacklogLimit
    BY <1>0, <1>2, <1>3, <2>1, <2>3
  <2> QED
    BY <1>1, <1>5, <2>2, <2>3, <2>4, <2>5, <2>6, <2>7
<1> QED
  BY <1>7, <1>8

-------------------------------------------------------------------------------
\* The bootstrap state: one current message of each key.
LEMMA TwoBootstraps == Cardinality(Bootstraps) = 2
<1>1. Cardinality({}) = 0 /\ IsFiniteSet({})
  BY FS_EmptySet
<1>2. Cardinality({} \cup {"hello"}) = 1 /\ IsFiniteSet({} \cup {"hello"})
  BY <1>1, FS_AddElement
<1>3. {} \cup {"hello"} = {"hello"} /\ "channel" \notin {"hello"}
  OBVIOUS
<1>4. Cardinality({"hello"} \cup {"channel"}) = 1 + 1
  BY <1>2, <1>3, FS_AddElement
<1>5. {"hello"} \cup {"channel"} = Bootstraps
  BY DEF Bootstraps
<1> QED
  BY <1>4, <1>5

LEMMA OneOfEachKey ==
  ASSUME NEW b \in Seq(Message), OneOfEach(b)
  PROVE  Len(b) <= Cardinality(Bootstraps)
<1>1. DOMAIN b = 1 .. Len(b) /\ Len(b) \in Nat
  OBVIOUS
<1>2. ASSUME Len(b) > 2 PROVE FALSE
  <2>1. 1 \in DOMAIN b /\ 2 \in DOMAIN b /\ 3 \in DOMAIN b
    BY <1>1, <1>2, SMT
  <2>2. b[1].key \in {"hello", "channel"} /\ b[2].key \in {"hello", "channel"} /\ b[3].key \in {"hello", "channel"}
    BY <2>1 DEF OneOfEach, Bootstraps
  <2>3. b[1].key # b[2].key /\ b[1].key # b[3].key /\ b[2].key # b[3].key
    BY <2>1 DEF OneOfEach
  <2> QED
    BY <2>2, <2>3
<1> QED
  BY <1>1, <1>2, TwoBootstraps

\* What publish() leaves in it.
LEMMA BootstrapKept ==
  ASSUME BootstrapInv, bootstrap \in Seq(Message), published \in Nat,
         NEW m \in Message, m.n = published + 1, m.key \in Bootstraps, Retain(m)
  PROVE  /\ bootstrap' \in Seq(Message) /\ Len(bootstrap') <= Cardinality(Bootstraps)
         /\ OneOfEach(bootstrap') /\ Upto(bootstrap', published + 1)
         /\ \A x \in Range(bootstrap') : x = m \/ x \in Range(bootstrap)
         /\ SaidHello => SaidHello'
         /\ backlog' = backlog /\ truncated' = truncated
<1>1. DOMAIN bootstrap = 1 .. Len(bootstrap) /\ Len(bootstrap) \in Nat
  OBVIOUS
<1>2. \A i \in DOMAIN bootstrap : bootstrap[i] \in Message /\ bootstrap[i].n \in Nat
  BY Elements
<1>3. backlog' = backlog /\ truncated' = truncated
  BY DEF Retain
<1>4. CASE \E x \in Range(bootstrap) : x.key = m.key
  <2>1. bootstrap' = [i \in DOMAIN bootstrap |->
                        IF bootstrap[i].key = m.key THEN m ELSE bootstrap[i]]
    BY <1>4 DEF Retain
  <2>2. /\ bootstrap' \in Seq(Message)
        /\ DOMAIN bootstrap' = DOMAIN bootstrap
    BY <1>1, <1>2, <2>1
  <2>3. \A i \in DOMAIN bootstrap :
          /\ bootstrap'[i].key = bootstrap[i].key
          /\ bootstrap'[i] = m \/ bootstrap'[i] = bootstrap[i]
    BY <2>1
  <2>4. OneOfEach(bootstrap')
    BY <2>2, <2>3 DEF BootstrapInv, OneOfEach
  <2>5. Upto(bootstrap', published + 1)
    <3>1. ASSUME NEW i \in DOMAIN bootstrap PROVE bootstrap'[i].n <= published + 1
      <4>1. bootstrap[i].n \in Nat /\ bootstrap[i].n <= published
        BY <1>2 DEF BootstrapInv, Upto
      <4> QED
        BY <4>1, <2>3
    <3> QED
      BY <2>2, <3>1 DEF Upto
  <2>6. \A x \in Range(bootstrap') : x = m \/ x \in Range(bootstrap)
    BY <2>2, <2>3 DEF Range
  <2>7. SaidHello => SaidHello'
    BY <2>2, <2>3 DEF SaidHello, IsHello, Range
  <2> QED
    BY <1>3, <2>2, <2>4, <2>5, <2>6, <2>7, OneOfEachKey
<1>5. CASE ~ \E x \in Range(bootstrap) : x.key = m.key
  <2> DEFINE a == Append(bootstrap, m)
  <2>1. bootstrap' = a
    BY <1>5 DEF Retain
  <2>2. /\ a \in Seq(Message) /\ Len(a) = Len(bootstrap) + 1
        /\ DOMAIN a = 1 .. Len(bootstrap) + 1
        /\ \A i \in 1 .. Len(bootstrap) : a[i] = bootstrap[i]
        /\ a[Len(bootstrap) + 1] = m
    BY Appended
  <2>3. \A i \in 1 .. Len(bootstrap) + 1 : i \in 1 .. Len(bootstrap) \/ i = Len(bootstrap) + 1
    BY <1>1, SMT
  <2>4. \A i \in 1 .. Len(bootstrap) : bootstrap[i].key # m.key /\ i \in 1 .. Len(bootstrap) + 1
    BY <1>1, <1>5 DEF Range
  <2> HIDE DEF a
  <2>5. \A i \in DOMAIN a : a[i].key \in Bootstraps
    BY <1>1, <2>2, <2>3 DEF BootstrapInv, OneOfEach
  <2>6. \A i, j \in DOMAIN a : a[i].key = a[j].key => i = j
    BY <1>1, <2>2, <2>3, <2>4 DEF BootstrapInv, OneOfEach
  <2>7. Upto(a, published + 1)
    <3>1. ASSUME NEW i \in 1 .. Len(bootstrap) PROVE a[i].n <= published + 1
      <4>1. bootstrap[i].n \in Nat /\ bootstrap[i].n <= published
        BY <1>1, <1>2 DEF BootstrapInv, Upto
      <4> QED
        BY <4>1, <2>2
    <3>2. a[Len(bootstrap) + 1].n <= published + 1
      BY <2>2
    <3> QED
      BY <2>2, <2>3, <3>1, <3>2 DEF Upto
  <2>8. \A x \in Range(a) : x = m \/ x \in Range(bootstrap)
    BY <1>1, <2>2, <2>3 DEF Range
  <2>9. SaidHello => \E x \in Range(a) : IsHello(x)
    BY <1>1, <2>2, <2>4 DEF SaidHello, Range
  <2> QED
    BY <1>3, <2>1, <2>2, <2>5, <2>6, <2>7, <2>8, <2>9, OneOfEachKey DEF OneOfEach, SaidHello
<1> QED
  BY <1>4, <1>5

\* What is retained after publish(): m, unless the backlog has lost it to its
\* limit, and what was before, without an older revision of m.
LEMMA RetainedKept ==
  ASSUME TypeOK, BacklogInv, BootstrapInv, NEW m \in Message, m.key \in Keys,
         m.n = published + 1, m.key \in Pulses => SaidHello,
         Retain(m), published' = published + 1
  PROVE  /\ backlog' \in Seq(Message) /\ Len(backlog') <= BacklogLimit
         /\ bootstrap' \in Seq(Message) /\ Len(bootstrap') <= Cardinality(Bootstraps)
         /\ truncated' \in BOOLEAN
         /\ BootstrapInv' /\ Backlogged(backlog', published')
         /\ \A i \in DOMAIN backlog' : backlog'[i].key \in Pulses => SaidHello'
         /\ m.key \notin Bootstraps => backlog' # <<>> /\ Last(backlog') = m
         /\ \A x \in Retained' :
              /\ x.key \notin Coalesced
              /\ x = m \/ (x \in Retained /\ ~(x.key = m.key /\ m.key \in Replayed))
<1>1. /\ backlog \in Seq(Message) /\ Len(backlog) <= BacklogLimit
      /\ bootstrap \in Seq(Message) /\ Len(bootstrap) <= Cardinality(Bootstraps)
      /\ truncated \in BOOLEAN
      /\ published \in Nat /\ published + 1 \in Nat
  BY HubAssumption DEF TypeOK
<1>2. Bootstraps \cap (Replayed \cup {"notice", "stopped"}) = {}
  BY HubAssumption DEF Bootstraps, Replayed
<1>3. ASSUME NEW b \in Seq(Message), NEW n \in Nat, Upto(b, n) PROVE Upto(b, n + 1)
  BY <1>3, Elements DEF Upto
<1>4. \A x \in Range(bootstrap) : x.key \in Bootstraps
  BY DEF BootstrapInv, OneOfEach, Range
<1>5. CASE m.key \in Bootstraps
  <2>1. /\ bootstrap' \in Seq(Message) /\ Len(bootstrap') <= Cardinality(Bootstraps)
        /\ OneOfEach(bootstrap') /\ Upto(bootstrap', published + 1)
        /\ \A x \in Range(bootstrap') : x = m \/ x \in Range(bootstrap)
        /\ SaidHello => SaidHello'
        /\ backlog' = backlog /\ truncated' = truncated
    BY <1>1, <1>5, BootstrapKept
  <2>2. Backlogged(backlog, published + 1)
    BY <1>1, <1>3 DEF BacklogInv, Backlogged
  <2>3. \A i \in DOMAIN backlog : backlog[i].key \in Pulses => SaidHello'
    BY <2>1 DEF BacklogInv
  <2>4. BootstrapInv'
    BY <2>1 DEF BootstrapInv
  <2>5. m.key \notin Replayed
    BY <1>2, <1>5
  <2>6. \A x \in Retained' : x.key \notin Coalesced /\ (x = m \/ x \in Retained)
    BY <2>1 DEF Retained
  <2> QED
    BY <1>1, <1>5, <2>1, <2>2, <2>3, <2>4, <2>5, <2>6
<1>6. CASE m.key \notin Bootstraps
  <2>1. m.key \in Replayed \cup {"notice", "stopped"}
    BY <1>6 DEF Keys
  <2>2. /\ backlog' \in Seq(Message) /\ Len(backlog') <= BacklogLimit
        /\ Backlogged(backlog', published + 1)
        /\ \A x \in Range(backlog') :
             x = m \/ (x \in Range(backlog) /\ ~(x.key = m.key /\ m.key \in Replayed))
        /\ backlog' # <<>> /\ Last(backlog') = m
        /\ bootstrap' = bootstrap
        /\ truncated' \in BOOLEAN
    BY <1>1, <2>1, BacklogKept
  <2>3. SaidHello' <=> SaidHello
    BY <2>2 DEF SaidHello
  <2>4. BootstrapInv'
    BY <1>1, <1>3, <2>2 DEF BootstrapInv
  <2>5. ASSUME NEW i \in DOMAIN backlog', backlog'[i].key \in Pulses PROVE SaidHello
    <3>1. backlog'[i] = m \/ backlog'[i] \in Range(backlog)
      BY <2>2 DEF Range
    <3> QED
      BY <2>5, <3>1 DEF BacklogInv, Range
  <2>6. \A x \in Retained' :
          /\ x.key \notin Coalesced
          /\ x = m \/ (x \in Retained /\ ~(x.key = m.key /\ m.key \in Replayed))
    <3>1. ASSUME NEW x \in Range(bootstrap) PROVE x.key # m.key
      BY <1>4, <1>6
    <3> QED
      BY <2>2, <3>1 DEF Retained
  <2> QED
    BY <1>1, <1>6, <2>2, <2>3, <2>4, <2>5, <2>6
<1> QED
  BY <1>5, <1>6

-------------------------------------------------------------------------------
\* Clients: a removed one is owed nothing, ...
LEMMA GoneOwed ==
  ASSUME NEW n \in Nat, NEW retained
  PROVE  Gone \in Client /\ Owed(Gone, n, retained) /\ Gone.state = "gone"
<1>1. DOMAIN <<>> = {}
  OBVIOUS
<1> QED
  BY <1>1, GoneClient DEF Owed, Upto, Ordered, Introduced

\* ... flushing changes nothing, ...
LEMMA FlushOwed ==
  ASSUME NEW c \in Client, NEW n \in Nat, NEW retained, Owed(c, n, retained), NEW x \in Flush(c)
  PROVE  x \in Client /\ Owed(x, n, retained) /\ (x.state = "open" => c.state = "open")
<1>1. CASE x = Gone
  BY <1>1, GoneOwed
<1>2. CASE x # Gone
  <2>1. /\ x \in Client
        /\ StreamOf(x) = StreamOf(c)
        /\ \/ x.state = c.state /\ (c.queue = <<>> => x.queue = <<>>)
           \/ c.state = "closing" /\ x.state = "ended" /\ x.queue = <<>>
    BY <1>2, FlushKeepsStream
  <2> QED
    BY <2>1 DEF Owed
<1> QED
  BY <1>1, <1>2

\* ... finishing needs `stopped` in the stream, ...
LEMMA FinishOwed ==
  ASSUME NEW c \in Client, NEW n \in Nat, NEW retained, Owed(c, n, retained),
         c.state = "open" => Closed(StreamOf(c)), NEW x \in Finish(c)
  PROVE  x \in Client /\ Owed(x, n, retained) /\ x.state # "open"
<1>1. CASE c.state # "open"
  BY <1>1 DEF Finish
<1>2. CASE c.state = "open"
  <2> DEFINE d == [c EXCEPT !.state = "closing"]
  <2>1. /\ d \in Client /\ d.state = "closing"
        /\ d.queue = c.queue /\ d.written = c.written
    BY DEF Client
  <2>2. x \in Flush(d)
    BY <1>2 DEF Finish
  <2> HIDE DEF d
  <2>3. StreamOf(d) = StreamOf(c)
    BY <2>1 DEF StreamOf
  <2>4. Owed(d, n, retained)
    BY <1>2, <2>1, <2>3 DEF Owed
  <2> QED
    BY <2>1, <2>2, <2>4, FlushOwed
<1> QED
  BY <1>1, <1>2

\* ... and publishing to an open one leaves it owed nothing of what is retained.
LEMMA PublishOwed ==
  ASSUME NEW c \in Client, NEW m \in Message, NEW n \in Nat, m.n = n + 1,
         NEW retained, NEW retained1, Owed(c, n, retained),
         \A x \in retained1 :
            /\ x.key \notin Coalesced
            /\ x = m \/ (x \in retained /\ ~(x.key = m.key /\ m.key \in Replayed)),
         m.key \in Pulses => \E h \in retained : IsHello(h),
         NEW y \in Flush(Enqueue(c, m))
  PROVE  /\ y \in Client /\ Owed(y, n + 1, retained1)
         /\ y.state = "open" => c.state = "open"
         /\ y.state = "open" /\ m.key = "stopped" => Closed(StreamOf(y))
<1> DEFINE e == Enqueue(c, m)
<1>0. n + 1 \in Nat
  OBVIOUS
<1>1. CASE c.state # "open"
  <2>1. e = c
    BY <1>1, EnqueueElse
  <2>2. c.written \in Seq(Message) /\ c.queue \in Seq(Message)
    BY DEF Client
  <2>3. StreamOf(c) \in Seq(Message)
    BY <2>2, Concat DEF StreamOf
  <2>4. Upto(StreamOf(c), n + 1)
    BY <2>3, Elements DEF Owed, Upto
  <2>5. Owed(c, n + 1, retained1)
    BY <1>1, <2>4 DEF Owed
  <2> QED
    BY <1>0, <1>1, <2>1, <2>5, FlushOwed
<1>2. CASE c.state = "open" /\ e = Gone
  <2>1. y \in Client /\ Owed(y, n + 1, retained1) /\ (y.state = "open" => Gone.state = "open")
    BY <1>0, <1>2, GoneOwed, FlushOwed
  <2> QED
    BY <2>1, <1>2, GoneOwed
<1>3. CASE c.state = "open" /\ e # Gone
  <2>1. e \in Client /\ e.state = "open" /\ Took(StreamOf(c), m, StreamOf(e))
    BY <1>3, EnqueueTakes
  <2>2. c.written \in Seq(Message) /\ c.queue \in Seq(Message)
    BY DEF Client
  <2>3. StreamOf(c) \in Seq(Message)
    BY <2>2, Concat DEF StreamOf
  <2>4. m.key \in Pulses => \E x \in Range(StreamOf(c)) : IsHello(x)
    BY <1>3 DEF Owed
  <2> HIDE DEF e
  <2>5. /\ Upto(StreamOf(e), n + 1) /\ Ordered(StreamOf(e)) /\ Introduced(StreamOf(e))
        /\ \A x \in Range(StreamOf(c)) : \/ x \in Range(StreamOf(e))
                                         \/ x.key \in Coalesced
                                         \/ x.key = m.key /\ m.key \in Replayed
        /\ m.key \notin Coalesced => m \in Range(StreamOf(e))
        /\ m.key = "stopped" => Closed(StreamOf(e))
    BY <2>1, <2>3, <2>4, TookKeeps DEF Owed
  <2>6. retained1 \subseteq Range(StreamOf(e))
    BY <1>3, <2>5 DEF Owed
  <2>7. Owed(e, n + 1, retained1)
    BY <2>1, <2>5, <2>6 DEF Owed
  <2>8. y \in Flush(e)
    BY DEF e
  <2>9. y \in Client /\ Owed(y, n + 1, retained1)
    BY <1>0, <2>1, <2>7, <2>8, FlushOwed
  <2>10. y.state = "open" /\ m.key = "stopped" => Closed(StreamOf(y))
    BY <2>1, <2>5, <2>8, FlushKeepsStream, GoneClient
  <2> QED
    BY <1>3, <2>9, <2>10
<1> QED
  BY <1>1, <1>2, <1>3

-------------------------------------------------------------------------------
\* What a late joiner is replayed.  The hello, of which there is one, comes first.
LEMMA HelloFirst ==
  ASSUME NEW b \in Seq(Message), OneOfEach(b)
  PROVE  LET h == HelloToFront(b)
         IN  /\ h \in Seq(Message)
             /\ Range(h) = Range(b)
             /\ \A i \in DOMAIN h : IsHello(h[i]) => i = 1
             /\ (\E x \in Range(b) : IsHello(x)) => h # <<>> /\ IsHello(h[1])
<1> DEFINE h == HelloToFront(b)
<1>1. DOMAIN b = 1 .. Len(b) /\ Len(b) \in Nat
  OBVIOUS
<1>2. CASE ~ \E x \in Range(b) : IsHello(x)
  BY <1>2 DEF HelloToFront, Range
<1>3. CASE \E x \in Range(b) : IsHello(x)
  <2> DEFINE I == {i \in 1 .. Len(b) : IsHello(b[i])}
             k == SelectInSeq(b, IsHello)
             r == RemoveAt(b, k)
             a == <<b[k]>>
  <2>1. Min(I) \in I
    <3>1. I \in SUBSET (1 .. Len(b)) /\ I # {}
      BY <1>1, <1>3 DEF Range
    <3> QED
      BY <1>1, <3>1, LeastIndex
  <2>2. k = Min(I)
    BY <2>1 DEF SelectInSeq
  <2>3. k \in 1 .. Len(b) /\ IsHello(b[k])
    BY <2>1, <2>2
  <2>4. h = a \o r
    BY <2>3, <1>3 DEF HelloToFront, RemoveFirstMatch
  <2>5. /\ a \in Seq(Message) /\ Len(a) = 1 /\ a[1] = b[k]
    BY <2>3, <1>1, Elements
  <2> HIDE DEF k
  <2>6. /\ r \in Seq(Message) /\ Len(r) = Len(b) - 1 /\ DOMAIN r = 1 .. Len(b) - 1
        /\ \A i \in 1 .. Len(b) - 1 : r[i] = b[IF i < k THEN i ELSE i + 1]
    BY <2>3, Removed
  <2>7. Range(r) \subseteq Range(b) /\ \A x \in Range(b) : x = b[k] \/ x \in Range(r)
    BY <2>3, RemovalKeeps
  <2> HIDE DEF a, r
  <2>8. /\ a \o r \in Seq(Message)
        /\ DOMAIN (a \o r) = 1 .. Len(b)
        /\ (a \o r)[1] = b[k]
        /\ \A i \in 1 .. Len(b) - 1 : (a \o r)[i + 1] = r[i]
        /\ \A i \in 1 .. Len(b) : i = 1 \/ (i - 1 \in 1 .. Len(b) - 1 /\ (a \o r)[i] = r[i - 1])
    <3>1. /\ a \o r \in Seq(Message)
          /\ DOMAIN (a \o r) = 1 .. Len(a) + Len(r)
          /\ \A i \in 1 .. Len(a) : (a \o r)[i] = a[i]
          /\ \A i \in 1 .. Len(r) : (a \o r)[Len(a) + i] = r[i]
          /\ \A i \in 1 .. Len(a) + Len(r) : i > Len(a) =>
               i - Len(a) \in 1 .. Len(r) /\ (a \o r)[i] = r[i - Len(a)]
      BY <2>5, <2>6, Concat
    <3>2. Len(a) + Len(r) = Len(b) /\ 1 \in 1 .. Len(a)
      BY <1>1, <2>5, <2>6
    <3>3. \A i \in 1 .. Len(b) : i = 1 \/ i > 1
      BY <1>1
    <3>4. \A i \in 1 .. Len(b) - 1 : 1 + i = i + 1
      BY <1>1
    <3> QED
      BY <2>5, <2>6, <3>1, <3>2, <3>3, <3>4
  <2>0. 1 \in 1 .. Len(b)
    BY <1>1, <2>3
  <2>a. DOMAIN (a \o r) = 1 .. Len(b)
    BY <2>8
  <2>9. Range(a \o r) = Range(b)
    <3>1. Range(a \o r) \subseteq Range(b)
      <4>1. b[k] \in Range(b)
        BY <1>1, <2>3 DEF Range
      <4>2. \A i \in 1 .. Len(b) - 1 : r[i] \in Range(b)
        BY <2>6, <2>7 DEF Range
      <4>3. \A i \in 1 .. Len(b) : (a \o r)[i] \in Range(b)
        BY <2>8, <4>1, <4>2
      <4> QED
        BY <2>a, <4>3 DEF Range
    <3>2. b[k] \in Range(a \o r)
      <4>1. (a \o r)[1] = b[k]
        BY <2>8
      <4> QED
        BY <4>1, <2>0, <2>a DEF Range
    <3>3. Range(r) \subseteq Range(a \o r)
      <4>1. \A i \in 1 .. Len(b) - 1 : i + 1 \in 1 .. Len(b)
        BY <1>1
      <4>2. \A i \in 1 .. Len(b) - 1 : (a \o r)[i + 1] \in Range(a \o r)
        BY <4>1, <2>a DEF Range
      <4>3. \A i \in 1 .. Len(b) - 1 : r[i] \in Range(a \o r)
        BY <4>2, <2>8
      <4> QED
        BY <4>3, <2>6 DEF Range
    <3> QED
      BY <2>7, <3>1, <3>2, <3>3
  <2>10. ASSUME NEW i \in 1 .. Len(b), i # 1 PROVE ~IsHello((a \o r)[i])
    <3>1. i - 1 \in 1 .. Len(b) - 1 /\ (a \o r)[i] = r[i - 1]
      BY <2>8, <2>10
    <3>2. PICK j \in 1 .. Len(b) : j # k /\ r[i - 1] = b[j]
      <4>1. CASE i - 1 < k
        <5>1. i - 1 \in 1 .. Len(b) /\ i - 1 # k
          BY <3>1, <4>1, <1>1, <2>3
        <5> QED
          BY <5>1, <3>1, <4>1, <2>6
      <4>2. CASE ~(i - 1 < k)
        <5>1. (i - 1) + 1 \in 1 .. Len(b) /\ (i - 1) + 1 # k
          BY <3>1, <4>2, <1>1, <2>3, SMT
        <5> QED
          BY <5>1, <3>1, <4>2, <2>6
      <4> QED
        BY <4>1, <4>2
    <3> QED
      BY <3>1, <3>2, <2>3, <1>1 DEF OneOfEach, IsHello
  <2>11. a \o r # <<>>
    <3>1. 1 \in DOMAIN (a \o r)
      BY <2>0, <2>a
    <3> QED
      BY <3>1
  <2> QED
    BY <2>3, <2>4, <2>8, <2>9, <2>10, <2>11
<1> QED
  BY <1>2, <1>3

LEMMA HistoryOwed ==
  ASSUME TypeOK, BacklogInv, BootstrapInv
  PROVE  /\ History \in Seq(Message)
         /\ Upto(History, published) /\ Ordered(History) /\ Introduced(History)
         /\ Retained \subseteq Range(History)
         /\ ended => Closed(History)
<1> DEFINE h == HelloToFront(bootstrap)
           p == h \o Notice
<1>1. /\ bootstrap \in Seq(Message) /\ backlog \in Seq(Message) /\ published \in Nat
      /\ DOMAIN backlog = 1 .. Len(backlog) /\ Len(backlog) \in Nat
  BY HubAssumption DEF TypeOK
<1>2. /\ h \in Seq(Message)
      /\ Range(h) = Range(bootstrap)
      /\ \A i \in DOMAIN h : IsHello(h[i]) => i = 1
      /\ SaidHello => h # <<>> /\ IsHello(h[1])
  BY <1>1, HelloFirst DEF BootstrapInv, SaidHello
<1> HIDE DEF h
<1>3. \A i \in DOMAIN h : h[i].key \in Bootstraps /\ h[i].n <= published
  <2>1. \A x \in Range(bootstrap) : x.key \in Bootstraps /\ x.n <= published
    BY DEF BootstrapInv, OneOfEach, Upto, Range
  <2> QED
    BY <1>2, <2>1 DEF Range
<1>4. /\ Notice \in Seq(Message)
      /\ \A i \in 1 .. Len(Notice) : Notice[i].key = "truncated" /\ Notice[i].n = 0
  <2>1. CASE truncated
    <3> DEFINE x == [key |-> "truncated", n |-> 0]
    <3>1. x \in Message /\ x.key = "truncated" /\ x.n = 0
      BY DEF Message
    <3>2. Notice = <<x>>
      BY <2>1 DEF Notice
    <3> HIDE DEF x
    <3>3. <<x>> \in Seq(Message) /\ Len(<<x>>) = 1 /\ <<x>>[1] = x
      BY <3>1
    <3> QED
      BY <3>1, <3>2, <3>3
  <2>2. CASE ~truncated
    <3>1. Notice = <<>> /\ <<>> \in Seq(Message) /\ Len(<<>>) = 0
      BY <2>2 DEF Notice
    <3> QED
      BY <3>1
  <2> QED
    BY <2>1, <2>2
<1>5. /\ p \in Seq(Message) /\ Len(p) \in Nat /\ DOMAIN p = 1 .. Len(p)
      /\ \A i \in 1 .. Len(p) :
           /\ p[i].key \in Bootstraps \cup {"truncated"}
           /\ p[i].n <= published
           /\ IsHello(p[i]) => i = 1
      /\ Range(bootstrap) \subseteq Range(p)
      /\ SaidHello => 1 \in 1 .. Len(p) /\ IsHello(p[1])
  <2>1. /\ p \in Seq(Message) /\ Len(p) \in Nat
        /\ Len(h) \in Nat /\ Len(Notice) \in Nat
        /\ Len(p) = Len(h) + Len(Notice)
        /\ DOMAIN h = 1 .. Len(h)
        /\ DOMAIN p = 1 .. Len(h) + Len(Notice)
        /\ \A i \in 1 .. Len(h) : p[i] = h[i]
        /\ \A i \in 1 .. Len(h) + Len(Notice) : i > Len(h) =>
             i - Len(h) \in 1 .. Len(Notice) /\ p[i] = Notice[i - Len(h)]
    <3>1. p \in Seq(Message)
      BY <1>2, <1>4, Concat
    <3>2. Len(p) \in Nat
      BY <3>1
    <3> QED
      BY <1>2, <1>4, <3>1, <3>2, Concat
  <2> HIDE DEF p
  <2>2. \A i \in 1 .. Len(p) : i \in 1 .. Len(h) \/ i > Len(h)
    BY <2>1
  <2>3. \A i \in 1 .. Len(h) : i \in 1 .. Len(p)
    BY <2>1
  <2>4. ASSUME NEW i \in 1 .. Len(p)
        PROVE  /\ p[i].key \in Bootstraps \cup {"truncated"}
               /\ p[i].n <= published
               /\ IsHello(p[i]) => i = 1
    <3>1. CASE i \in 1 .. Len(h)
      BY <3>1, <2>1, <1>2, <1>3
    <3>2. CASE i > Len(h)
      <4>1. p[i].key = "truncated" /\ p[i].n = 0
        BY <3>2, <2>1, <1>4
      <4> QED
        BY <4>1, <1>1 DEF IsHello
    <3> QED
      BY <3>1, <3>2, <2>2
  <2>5. Range(h) \subseteq Range(p)
    BY <2>1, <2>3 DEF Range
  <2>6. ASSUME SaidHello PROVE 1 \in 1 .. Len(p) /\ IsHello(p[1])
    <3>1. 1 \in 1 .. Len(h)
      BY <2>1, <2>6, <1>2
    <3> QED
      BY <3>1, <2>1, <2>3, <2>6, <1>2
  <2> QED
    BY <1>2, <2>1, <2>4, <2>5, <2>6
<1>6. History = p \o backlog
  BY DEF History, p, h
<1> HIDE DEF p
<1> DEFINE s == p \o backlog
<1>7. /\ s \in Seq(Message) /\ Len(s) = Len(p) + Len(backlog)
      /\ DOMAIN s = 1 .. Len(p) + Len(backlog)
      /\ \A i \in 1 .. Len(p) : s[i] = p[i]
      /\ \A i \in 1 .. Len(backlog) : s[Len(p) + i] = backlog[i]
      /\ \A i \in 1 .. Len(p) + Len(backlog) : i > Len(p) =>
           i - Len(p) \in 1 .. Len(backlog) /\ s[i] = backlog[i - Len(p)]
  BY <1>1, <1>5, Concat
<1> HIDE DEF s
<1>8. \A i \in 1 .. Len(p) + Len(backlog) : i \in 1 .. Len(p) \/ i > Len(p)
  BY <1>1, <1>5
<1>9. /\ \A i \in 1 .. Len(p) : i \in 1 .. Len(p) + Len(backlog)
      /\ \A i \in 1 .. Len(backlog) : Len(p) + i \in 1 .. Len(p) + Len(backlog)
  BY <1>1, <1>5
<1>10. Upto(s, published)
  <2>1. ASSUME NEW i \in 1 .. Len(p) + Len(backlog) PROVE s[i].n <= published
    <3>1. CASE i \in 1 .. Len(p)
      BY <3>1, <1>5, <1>7
    <3>2. CASE i > Len(p)
      <4>1. i - Len(p) \in DOMAIN backlog /\ s[i] = backlog[i - Len(p)]
        BY <3>2, <1>1, <1>7
      <4> QED
        BY <4>1 DEF BacklogInv, Backlogged, Upto
    <3> QED
      BY <3>1, <3>2, <1>8
  <2> QED
    BY <1>7, <2>1 DEF Upto
<1>11. Ordered(s)
  <2> SUFFICES ASSUME NEW i \in 1 .. Len(p) + Len(backlog), NEW j \in 1 .. Len(p) + Len(backlog),
                      i < j, Numbered(s[i]), Numbered(s[j])
               PROVE  s[i].n < s[j].n
    BY <1>7 DEF Ordered
  <2>1. i > Len(p) /\ j > Len(p)
    BY <1>5, <1>7, <1>8 DEF Numbered
  <2>2. /\ i - Len(p) \in DOMAIN backlog /\ s[i] = backlog[i - Len(p)]
        /\ j - Len(p) \in DOMAIN backlog /\ s[j] = backlog[j - Len(p)]
    BY <2>1, <1>1, <1>7
  <2>3. i - Len(p) < j - Len(p)
    BY <1>5
  <2> QED
    BY <2>2, <2>3 DEF BacklogInv, Backlogged
<1>12. Introduced(s)
  <2>1. ASSUME NEW i \in 1 .. Len(p) + Len(backlog), s[i].key \in Pulses
        PROVE  \E j \in 1..(i - 1) : IsHello(s[j])
    <3>1. i > Len(p)
      BY <2>1, <1>5, <1>7, <1>8, HubAssumption DEF Bootstraps
    <3>2. i - Len(p) \in DOMAIN backlog /\ s[i] = backlog[i - Len(p)]
      BY <3>1, <1>1, <1>7
    <3>3. SaidHello
      BY <2>1, <3>2 DEF BacklogInv
    <3>4. 1 \in 1..(i - 1)
      BY <3>1, <3>3, <1>5
    <3> QED
      BY <3>3, <3>4, <1>5, <1>7
  <2>2. ASSUME NEW i \in 1 .. Len(p) + Len(backlog), IsHello(s[i])
        PROVE  1..(i - 1) = {}
    <3>1. ASSUME i > Len(p) PROVE FALSE
      <4>1. i - Len(p) \in DOMAIN backlog /\ s[i] = backlog[i - Len(p)]
        BY <3>1, <1>1, <1>7
      <4> QED
        BY <2>2, <4>1, HubAssumption DEF BacklogInv, Backlogged, IsHello, Replayed
    <3>2. i = 1
      BY <2>2, <3>1, <1>5, <1>7, <1>8
    <3> QED
      BY <3>2
  <2> QED
    BY <1>7, <2>1, <2>2 DEF Introduced
<1>13. Retained \subseteq Range(s)
  <2>1. Range(p) \subseteq Range(s)
    BY <1>5, <1>7, <1>9 DEF Range
  <2>2. Range(backlog) \subseteq Range(s)
    BY <1>1, <1>7, <1>9 DEF Range
  <2> QED
    BY <2>1, <2>2, <1>5 DEF Retained
<1>14. ASSUME ended PROVE Closed(s)
  <2>1. backlog # <<>> /\ backlog[Len(backlog)].key = "stopped"
    BY <1>14 DEF BacklogInv, Closed, Last
  <2>2. Len(backlog) \in 1 .. Len(backlog)
    BY <2>1, <1>1
  <2>3. s[Len(s)] = backlog[Len(backlog)] /\ s # <<>>
    BY <2>2, <1>7, <1>5
  <2> QED
    BY <2>1, <2>3 DEF Closed, Last
<1> QED
  BY <1>6, <1>7, <1>10, <1>11, <1>12, <1>13, <1>14 DEF s

-------------------------------------------------------------------------------
LEMMA HubInit == Init => HubInv
<1> SUFFICES ASSUME Init PROVE HubInv
  OBVIOUS
<1>1. <<>> \in Seq(Message) /\ DOMAIN <<>> = {} /\ Len(<<>>) = 0 /\ <<>> \o <<>> = <<>>
  OBVIOUS
<1>2. /\ NewClient \in Client /\ NewClient.state = "new" /\ NewClient.queue = <<>>
      /\ StreamOf(NewClient) = <<>>
  <2>1. NewClient \in Client /\ NewClient.state = "new"
        /\ NewClient.queue = <<>> /\ NewClient.written = <<>>
    BY <1>1 DEF NewClient, Client
  <2> QED
    BY <1>1, <2>1 DEF StreamOf
<1>3. TypeOK
  <2>1. 0 \in 0..(MaxPublishes + MaxRuns) /\ 1 \in 1..MaxRuns /\ 0 <= BacklogLimit
    BY HubAssumption
  <2>2. clients \in [Clients -> Client]
    BY <1>2 DEF Init
  <2>3. 0 <= Cardinality(Bootstraps)
    BY TwoBootstraps
  <2> QED
    BY <1>1, <2>1, <2>2, <2>3 DEF TypeOK, Init
<1>4. BacklogInv /\ BootstrapInv
  BY <1>1 DEF Init, BacklogInv, Backlogged, Upto, BootstrapInv, OneOfEach
<1>5. \A c \in Clients : ClientInv(clients[c])
  BY <1>1, <1>2 DEF Init, ClientInv, Owed, Upto, Ordered, Introduced
<1> QED
  BY <1>3, <1>4, <1>5 DEF HubInv

\* A message the controller publishes.
LEMMA Numbering ==
  ASSUME HubInv, NEW key \in Keys
  PROVE  LET m == [key |-> key, n |-> published + 1]
         IN  m \in Message /\ m.key = key /\ m.n = published + 1 /\ published \in Nat
<1>1. published \in Nat
  BY HubAssumption DEF HubInv, TypeOK
<1> QED
  BY <1>1 DEF Message

LEMMA HelloRetained == ASSUME SaidHello PROVE \E h \in Retained : IsHello(h)
  BY DEF SaidHello, Retained, IsHello, Coalesced

LEMMA PublishStep ==
  ASSUME HubInv, NEW key \in Keys \ {"stopped"}, Publish(key)
  PROVE  HubInv'
<1> DEFINE m == [key |-> key, n |-> published + 1]
<1>1. m \in Message /\ m.key = key /\ m.n = published + 1 /\ published \in Nat
  BY Numbering
<1>2. /\ ~ended /\ published < MaxPublishes
      /\ m.key \in Pulses => SaidHello
      /\ published' = published + 1 /\ Retain(m)
      /\ clients' \in [Clients -> UNION {Flush(Enqueue(clients[c], m)) : c \in Clients}]
      /\ \A c \in Clients : clients'[c] \in Flush(Enqueue(clients[c], m))
      /\ UNCHANGED <<ended, runs>>
  BY <1>1 DEF Publish
<1> HIDE DEF m
<1>3. /\ backlog' \in Seq(Message) /\ Len(backlog') <= BacklogLimit
      /\ bootstrap' \in Seq(Message) /\ Len(bootstrap') <= Cardinality(Bootstraps)
      /\ truncated' \in BOOLEAN
      /\ BootstrapInv' /\ Backlogged(backlog', published')
      /\ \A i \in DOMAIN backlog' : backlog'[i].key \in Pulses => SaidHello'
      /\ \A x \in Retained' :
           /\ x.key \notin Coalesced
           /\ x = m \/ (x \in Retained /\ ~(x.key = m.key /\ m.key \in Replayed))
  BY <1>1, <1>2, RetainedKept DEF HubInv
<1>4. ASSUME NEW c \in Clients PROVE clients'[c] \in Client /\ ClientInv(clients[c])'
  <2>1. clients[c] \in Client /\ Owed(clients[c], published, Retained)
    BY DEF HubInv, TypeOK, ClientInv
  <2>2. clients'[c] \in Flush(Enqueue(clients[c], m))
    BY <1>2
  <2>3. m.key \in Pulses => \E h \in Retained : IsHello(h)
    BY <1>2, HelloRetained
  <2>4. clients'[c] \in Client /\ Owed(clients'[c], published + 1, Retained')
    BY <1>1, <1>3, <2>1, <2>2, <2>3, PublishOwed
  <2> QED
    BY <1>2, <2>4 DEF ClientInv
<1>5. TypeOK'
  <2>1. published' \in 0..(MaxPublishes + MaxRuns)
    BY <1>1, <1>2, HubAssumption
  <2>2. clients' \in [Clients -> Client]
    BY <1>2, <1>4
  <2> QED
    BY <1>2, <1>3, <2>1, <2>2 DEF HubInv, TypeOK
<1>6. BacklogInv'
  BY <1>2, <1>3 DEF BacklogInv
<1> QED
  BY <1>3, <1>4, <1>5, <1>6 DEF HubInv

LEMMA StoppedStep ==
  ASSUME HubInv, PublishStoppedAndCloseAll
  PROVE  HubInv'
<1> DEFINE m == [key |-> "stopped", n |-> published + 1]
           Finished(c) == UNION {Finish(x) : x \in Flush(Enqueue(clients[c], m))}
<1>1. /\ m \in Message /\ m.key = "stopped" /\ m.n = published + 1 /\ published \in Nat
      /\ m.key \in Keys /\ m.key \notin Pulses /\ m.key \notin Bootstraps
  BY Numbering, HubAssumption DEF Keys, Bootstraps
<1>2. /\ ended' = TRUE /\ published < MaxPublishes + MaxRuns
      /\ published' = published + 1 /\ Retain(m)
      /\ clients' \in [Clients -> UNION {Finished(c) : c \in Clients}]
      /\ \A c \in Clients : clients'[c] \in Finished(c)
      /\ runs' = runs
  BY <1>1 DEF PublishStoppedAndCloseAll
<1> HIDE DEF m
<1>3. /\ backlog' \in Seq(Message) /\ Len(backlog') <= BacklogLimit
      /\ bootstrap' \in Seq(Message) /\ Len(bootstrap') <= Cardinality(Bootstraps)
      /\ truncated' \in BOOLEAN
      /\ BootstrapInv' /\ Backlogged(backlog', published')
      /\ \A i \in DOMAIN backlog' : backlog'[i].key \in Pulses => SaidHello'
      /\ backlog' # <<>> /\ Last(backlog') = m
      /\ \A x \in Retained' :
           /\ x.key \notin Coalesced
           /\ x = m \/ (x \in Retained /\ ~(x.key = m.key /\ m.key \in Replayed))
  BY <1>1, <1>2, RetainedKept DEF HubInv
<1>4. ASSUME NEW c \in Clients PROVE clients'[c] \in Client /\ ClientInv(clients[c])'
  <2>1. clients[c] \in Client /\ Owed(clients[c], published, Retained)
    BY DEF HubInv, TypeOK, ClientInv
  <2>2. PICK y \in Flush(Enqueue(clients[c], m)) : clients'[c] \in Finish(y)
    BY <1>2
  <2>a. m.key \in Pulses => \E h \in Retained : IsHello(h)
    BY <1>1
  <2>b. \A x \in Retained' :
          /\ x.key \notin Coalesced
          /\ x = m \/ (x \in Retained /\ ~(x.key = m.key /\ m.key \in Replayed))
    BY <1>3
  <2>3. /\ y \in Client /\ Owed(y, published + 1, Retained')
        /\ y.state = "open" /\ m.key = "stopped" => Closed(StreamOf(y))
    BY <1>1, <2>1, <2>a, <2>b, PublishOwed
  <2>4. /\ clients'[c] \in Client /\ Owed(clients'[c], published + 1, Retained')
        /\ clients'[c].state # "open"
    <3>1. published + 1 \in Nat
      BY <1>1
    <3> QED
      BY <1>1, <2>2, <2>3, <3>1, FinishOwed
  <2> QED
    BY <1>2, <2>4 DEF ClientInv
<1>5. TypeOK'
  <2>1. published' \in 0..(MaxPublishes + MaxRuns)
    BY <1>1, <1>2, HubAssumption
  <2>2. clients' \in [Clients -> Client]
    BY <1>2, <1>4
  <2> QED
    BY <1>2, <1>3, <2>1, <2>2 DEF HubInv, TypeOK
<1>6. BacklogInv'
  BY <1>1, <1>2, <1>3 DEF BacklogInv, Closed
<1> QED
  BY <1>3, <1>4, <1>5, <1>6 DEF HubInv

\* No client is open once the run has ended, so a new run owes nothing to any.
LEMMA ResetStep ==
  ASSUME HubInv, ResetBacklog
  PROVE  HubInv'
<1>1. <<>> \in Seq(Message) /\ DOMAIN <<>> = {} /\ Len(<<>>) = 0
  OBVIOUS
<1>2. TypeOK'
  <2>1. runs' \in 1..MaxRuns /\ 0 <= BacklogLimit
    BY HubAssumption DEF HubInv, TypeOK, ResetBacklog
  <2>2. 0 <= Cardinality(Bootstraps)
    BY TwoBootstraps
  <2> QED
    BY <1>1, <2>1, <2>2 DEF HubInv, TypeOK, ResetBacklog
<1>3. BacklogInv' /\ BootstrapInv'
  BY <1>1 DEF ResetBacklog, BacklogInv, Backlogged, Upto, BootstrapInv, OneOfEach
<1>4. ASSUME NEW c \in Clients PROVE ClientInv(clients[c])'
  BY DEF HubInv, ClientInv, Owed, ResetBacklog
<1> QED
  BY <1>2, <1>3, <1>4 DEF HubInv

\* A step of one client leaves it its due, or removes it.
LEMMA ClientStep ==
  ASSUME HubInv, NEW c \in Clients, NEW x \in Client, ClientInv(x),
         clients' = [clients EXCEPT ![c] = x],
         UNCHANGED <<backlog, bootstrap, truncated, ended, published, runs>>
  PROVE  HubInv'
<1>1. Retained' = Retained /\ (SaidHello' <=> SaidHello)
  BY DEF Retained, SaidHello
<1>2. TypeOK'
  BY DEF HubInv, TypeOK
<1>3. BacklogInv' /\ BootstrapInv'
  BY <1>1 DEF HubInv, BacklogInv, BootstrapInv
<1>4. ASSUME NEW d \in Clients PROVE ClientInv(clients[d])'
  <2>1. ClientInv(clients'[d])
    BY DEF HubInv, TypeOK
  <2> QED
    BY <1>1, <2>1 DEF ClientInv
<1> QED
  BY <1>2, <1>3, <1>4 DEF HubInv

LEMMA SubscribeStep ==
  ASSUME HubInv, NEW c \in Clients, Subscribe(c)
  PROVE  HubInv'
<1> DEFINE joined == [NewClient EXCEPT !.state = "open", !.queue = History]
<1>1. published \in Nat
  BY HubAssumption DEF HubInv, TypeOK
<1>2. /\ History \in Seq(Message)
      /\ Upto(History, published) /\ Ordered(History) /\ Introduced(History)
      /\ Retained \subseteq Range(History)
      /\ ended => Closed(History)
  BY HistoryOwed DEF HubInv
<1>3. /\ joined \in Client /\ joined.state = "open"
      /\ StreamOf(joined) = History
  <2> DEFINE h == History
  <2>0. joined = [NewClient EXCEPT !.state = "open", !.queue = h]
    OBVIOUS
  <2>1. h \in Seq(Message) /\ <<>> \in Seq(Message)
    BY <1>2
  <2> HIDE DEF h, joined
  <2>2. <<>> \o h = h
    BY <2>1
  <2>3. NewClient \in Client /\ NewClient.written = <<>>
    BY <2>1 DEF NewClient, Client
  <2>4. joined \in Client /\ joined.state = "open" /\ joined.queue = h /\ joined.written = <<>>
    BY <2>0, <2>1, <2>3 DEF Client
  <2> QED
    BY <2>2, <2>4 DEF StreamOf, h
<1>4. PICK x \in IF ended THEN Finish(joined) ELSE Flush(joined) :
        clients' = [clients EXCEPT ![c] = x]
  BY DEF Subscribe
<1> HIDE DEF joined
<1>5. Owed(joined, published, Retained)
  BY <1>2, <1>3 DEF Owed
<1>6. x \in Client /\ ClientInv(x)
  <2>1. CASE ended
    <3>1. x \in Finish(joined)
      BY <1>4, <2>1
    <3>2. x \in Client /\ Owed(x, published, Retained) /\ x.state # "open"
      BY <1>1, <1>2, <1>3, <1>5, <2>1, <3>1, FinishOwed
    <3> QED
      BY <3>2 DEF ClientInv
  <2>2. CASE ~ended
    <3>1. x \in Flush(joined)
      BY <1>4, <2>2
    <3>2. x \in Client /\ Owed(x, published, Retained)
      BY <1>1, <1>3, <1>5, <3>1, FlushOwed
    <3> QED
      BY <2>2, <3>2 DEF ClientInv
  <2> QED
    BY <2>1, <2>2
<1> QED
  BY <1>4, <1>6, ClientStep DEF Subscribe

LEMMA DrainStep ==
  ASSUME HubInv, NEW c \in Clients, Drain(c)
  PROVE  HubInv'
<1> DEFINE d == [clients[c] EXCEPT !.paused = FALSE]
<1>1. published \in Nat /\ clients[c] \in Client /\ ClientInv(clients[c])
  BY HubAssumption DEF HubInv, TypeOK
<1>2. /\ d \in Client /\ d.state = clients[c].state
      /\ d.queue = clients[c].queue /\ d.written = clients[c].written
  BY <1>1 DEF Client
<1>3. PICK x \in Flush(d) : clients' = [clients EXCEPT ![c] = x]
  BY DEF Drain
<1> HIDE DEF d
<1>4. Owed(d, published, Retained)
  BY <1>1, <1>2 DEF ClientInv, Owed, StreamOf
<1>5. x \in Client /\ Owed(x, published, Retained) /\ (x.state = "open" => d.state = "open")
  BY <1>1, <1>2, <1>4, FlushOwed
<1>6. ClientInv(x)
  BY <1>1, <1>2, <1>5 DEF ClientInv
<1> QED
  BY <1>3, <1>5, <1>6, ClientStep DEF Drain

LEMMA RemovalStep ==
  ASSUME HubInv, NEW c \in Clients, PeerCloses(c) \/ FinalDrainTimeout(c)
  PROVE  HubInv'
<1>1. published \in Nat
  BY HubAssumption DEF HubInv, TypeOK
<1>2. Gone \in Client /\ ClientInv(Gone)
  BY <1>1, GoneOwed DEF ClientInv
<1> QED
  BY <1>2, ClientStep DEF PeerCloses, FinalDrainTimeout

LEMMA HubStep == HubInv /\ [Next]_vars => HubInv'
<1> SUFFICES ASSUME HubInv, [Next]_vars PROVE HubInv'
  OBVIOUS
<1>1. CASE UNCHANGED vars
  BY <1>1 DEF vars, HubInv, TypeOK, BacklogInv, BootstrapInv, SaidHello, ClientInv, Retained
<1>2. ASSUME NEW key \in Keys \ {"stopped"}, Publish(key) PROVE HubInv'
  BY <1>2, PublishStep
<1>3. CASE PublishStoppedAndCloseAll
  BY <1>3, StoppedStep
<1>4. CASE ResetBacklog
  BY <1>4, ResetStep
<1>5. ASSUME NEW c \in Clients, Subscribe(c) PROVE HubInv'
  BY <1>5, SubscribeStep
<1>6. ASSUME NEW c \in Clients, Drain(c) PROVE HubInv'
  BY <1>6, DrainStep
<1>7. ASSUME NEW c \in Clients, PeerCloses(c) \/ FinalDrainTimeout(c) PROVE HubInv'
  BY <1>7, RemovalStep
<1> QED
  BY <1>1, <1>2, <1>3, <1>4, <1>5, <1>6, <1>7 DEF Next

LEMMA HubInvariant == Spec => []HubInv
<1> QED
  BY HubInit, HubStep, PTL DEF Spec

-------------------------------------------------------------------------------
\* Every message, queue and history of the hub has its type, and the backlog
\* and the bootstrap state stay within their limits.
THEOREM HubTyping == Spec => []TypeOK
<1>1. HubInv => TypeOK
  BY DEF HubInv
<1> QED
  BY <1>1, HubInvariant, PTL

\* publish(), flush(), subscribe(): however often a client was paused and its
\* queue coalesced, it has been or will be sent all that a client connecting
\* now would be replayed.
THEOREM HubMissesNothing == Spec => []MissesNothingRetained
<1>1. HubInv => MissesNothingRetained
  <2> SUFFICES ASSUME HubInv, NEW c \in Clients, clients[c].state = "open",
                      NEW m \in Range(bootstrap \o backlog), m.key \notin Coalesced
               PROVE  m \in Range(Stream(c))
    BY DEF MissesNothingRetained
  <2>1. bootstrap \in Seq(Message) /\ backlog \in Seq(Message)
    BY DEF HubInv, TypeOK
  <2>2. PICK i \in DOMAIN (bootstrap \o backlog) : m = (bootstrap \o backlog)[i]
    BY DEF Range
  <2>3. m \in Range(bootstrap) \cup Range(backlog)
    <3>1. /\ i \in 1 .. Len(bootstrap) + Len(backlog)
          /\ Len(bootstrap) \in Nat /\ Len(backlog) \in Nat
          /\ DOMAIN bootstrap = 1 .. Len(bootstrap) /\ DOMAIN backlog = 1 .. Len(backlog)
      BY <2>1, Concat
    <3>2. CASE i \in 1 .. Len(bootstrap)
      <4>1. m = bootstrap[i]
        BY <2>1, <2>2, <3>2, Concat
      <4> QED
        BY <3>1, <3>2, <4>1 DEF Range
    <3>3. CASE i > Len(bootstrap)
      <4>1. i - Len(bootstrap) \in 1 .. Len(backlog) /\ m = backlog[i - Len(bootstrap)]
        BY <2>1, <2>2, <3>1, <3>3, Concat
      <4> QED
        BY <3>1, <4>1 DEF Range
    <3>4. i \in 1 .. Len(bootstrap) \/ i > Len(bootstrap)
      BY <3>1, SMT
    <3> QED
      BY <3>2, <3>3, <3>4
  <2>4. m \in Retained
    BY <2>3 DEF Retained
  <2> QED
    BY <2>4 DEF HubInv, ClientInv, Owed, Stream, StreamOf
<1> QED
  BY <1>1, HubInvariant, PTL

\* enqueue(), subscribe(): replacing a queued revision, making room for a new
\* message and replaying the history never put an older frame behind a newer one.
THEOREM HubStreamInOrder == Spec => []StreamInOrder
<1>1. HubInv => StreamInOrder
  <2> SUFFICES ASSUME HubInv, NEW c \in Clients,
                      NEW i \in DOMAIN Stream(c), NEW j \in DOMAIN Stream(c), i < j,
                      {Stream(c)[i].key, Stream(c)[j].key} \cap (Bootstraps \cup {"truncated"}) = {}
               PROVE  Stream(c)[i].n < Stream(c)[j].n
    BY DEF StreamInOrder
  <2>1. Ordered(Stream(c))
    BY DEF HubInv, ClientInv, Owed, Stream, StreamOf
  <2>2. Numbered(Stream(c)[i]) /\ Numbered(Stream(c)[j])
    BY DEF Numbered
  <2> QED
    BY <2>1, <2>2, Zenon DEF Ordered
<1> QED
  BY <1>1, HubInvariant, PTL

\* subscribe(): whenever a browser connects, hello precedes the first pulse
\* frame it is sent, and the channels announced after hello.
THEOREM HubHelloFirst == Spec => []HelloComesFirst
<1>1. HubInv => HelloComesFirst
  <2> SUFFICES ASSUME HubInv, NEW c \in Clients PROVE Introduced(Stream(c))
    BY DEF HelloComesFirst, Introduced
  <2> QED
    BY DEF HubInv, ClientInv, Owed, Stream, StreamOf
<1> QED
  BY <1>1, HubInvariant, PTL

\* finishClient(), flush(): a stream that end() closes has `stopped` as its
\* last message, also for a client that connects after the run.
THEOREM HubEndsWithStopped == Spec => []EndsWithStopped
<1>1. HubInv => EndsWithStopped
  <2> SUFFICES ASSUME HubInv, NEW c \in Clients, clients[c].state = "ended"
               PROVE  Last(clients[c].written).key = "stopped"
    BY DEF EndsWithStopped
  <2>1. clients[c].queue = <<>> /\ Closed(StreamOf(clients[c])) /\ clients[c] \in Client
    BY DEF HubInv, TypeOK, ClientInv, Owed
  <2>2. clients[c].written \in Seq(Message)
    BY <2>1 DEF Client
  <2>3. StreamOf(clients[c]) = clients[c].written
    BY <2>1, <2>2 DEF StreamOf
  <2> QED
    BY <2>1, <2>3 DEF Closed
<1> QED
  BY <1>1, HubInvariant, PTL
===============================================================================

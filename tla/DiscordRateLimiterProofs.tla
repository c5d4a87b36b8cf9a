----------------------- MODULE DiscordRateLimiterProofs -----------------------
(***************************************************************************)
(* What is true of the rate limiter for any number of agents, channels and *)
(* messages, any depth of its queues and whatever Discord answers: nothing *)
(* is lost or doubled inside it, what Discord shows is in the order of     *)
(* sending, and what Discord has acknowledged is not posted again.         *)
(*                                                                         *)
(* A flush under way when the limiter is cleared works on an array that is *)
(* off the Map.  The proof looks at the queue each key lives on, that      *)
(* array or the one of the Map: seen so, a flush is the same before and    *)
(* after the stop.                                                         *)
(***************************************************************************)
EXTENDS DiscordRateLimiter, FiniteSetTheorems, WellFoundedInduction, TLAPS

\* The queue of a key.
Live(k) == IF detached /\ flush = k THEN held ELSE queues[k]

\* In the order of sending, up to message n, none twice.
Orderly(q, n) ==
    /\ q \in Seq(Entry)
    /\ \A i \in DOMAIN q : i <= q[i].id /\ q[i].id <= n
    /\ \A i, j \in DOMAIN q : i < j => q[i].id < q[j].id

\* One key: its queue and what Discord shows of it.
KeyInv(q, s, n) ==
    /\ Orderly(q, n)
    /\ \A i \in DOMAIN s : s[i] <= n /\ \A x \in Ids(q) : s[i] <= x
    /\ \A i, j \in DOMAIN s : i < j => s[i] <= s[j]

\* The queues together and the fates.
FateInv(live, f, n) ==
    /\ \A k, l \in Keys : k # l => Ids(live[k]) \cap Ids(live[l]) = {}
    /\ \A m \in Messages : f[m] = "queued" <=> \E k \in Keys : m \in Ids(live[k])
    /\ \A m \in Messages : m > n => f[m] = "unsent"

LimiterInv ==
    /\ TypeOK
    /\ ~detached => held = <<>>
    /\ detached => \A k \in Keys : queues[k] = <<>>
    /\ \A k \in Keys : KeyInv(Live(k), shown[k], sends)
    /\ FateInv([k \in Keys |-> Live(k)], fate, sends)

-------------------------------------------------------------------------------
\* Queues.
LEMMA Entries ==
  ASSUME NEW q \in Seq(Entry)
  PROVE  /\ Len(q) \in Nat
         /\ DOMAIN q = 1 .. Len(q)
         /\ \A i \in 1 .. Len(q) : q[i] \in Entry /\ q[i].id \in Messages /\ q[i].id \in Nat
<1>1. Len(q) \in Nat /\ DOMAIN q = 1 .. Len(q)
  OBVIOUS
<1>2. \A i \in 1 .. Len(q) : q[i] \in Entry
  BY SMT
<1>3. Messages \subseteq Nat
  BY LimiterAssumption, SMT DEF Messages
<1>4. \A e \in Entry : e.id \in Messages
  BY DEF Entry
<1> QED
  BY <1>1, <1>2, <1>3, <1>4

LEMMA Added ==
  ASSUME NEW q \in Seq(Entry), NEW e \in Entry
  PROVE  /\ Append(q, e) \in Seq(Entry)
         /\ Len(Append(q, e)) = Len(q) + 1
         /\ \A i \in 1 .. Len(q) : Append(q, e)[i] = q[i]
         /\ Append(q, e)[Len(q) + 1] = e
  BY SMT

LEMMA TailOf ==
  ASSUME NEW q \in Seq(Entry), q # <<>>
  PROVE  /\ Tail(q) \in Seq(Entry)
         /\ Len(Tail(q)) = Len(q) - 1
         /\ \A i \in 1 .. Len(q) - 1 : Tail(q)[i] = q[i + 1]
         /\ Head(q) = q[1]
         /\ 1 \in 1 .. Len(q)
  BY SMT

LEMMA PartOf ==
  ASSUME NEW q \in Seq(Entry), NEW a \in 1 .. Len(q) + 1, NEW b \in 0 .. Len(q)
  PROVE  /\ SubSeq(q, a, b) \in Seq(Entry)
         /\ Len(SubSeq(q, a, b)) = IF a <= b THEN b - a + 1 ELSE 0
         /\ \A i \in 1 .. b - a + 1 : SubSeq(q, a, b)[i] = q[a + i - 1]
  BY SMT

LEMMA Joined ==
  ASSUME NEW a \in Seq(Entry), NEW b \in Seq(Entry)
  PROVE  /\ a \o b \in Seq(Entry)
         /\ Len(a \o b) = Len(a) + Len(b)
         /\ \A i \in 1 .. Len(a) : (a \o b)[i] = a[i]
         /\ \A i \in 1 .. Len(a) + Len(b) : i > Len(a) =>
              i - Len(a) \in 1 .. Len(b) /\ (a \o b)[i] = b[i - Len(a)]
  BY SMT

LEMMA RemovedAt ==
  ASSUME NEW q \in Seq(Entry), NEW k \in 1 .. Len(q)
  PROVE  /\ RemoveAt(q, k) \in Seq(Entry)
         /\ Len(RemoveAt(q, k)) = Len(q) - 1
         /\ \A i \in 1 .. Len(q) - 1 : RemoveAt(q, k)[i] = q[IF i < k THEN i ELSE i + 1]
<1> DEFINE a == SubSeq(q, 1, k - 1)
           b == SubSeq(q, k + 1, Len(q))
<1>1. Len(q) \in Nat
  OBVIOUS
<1>2. 1 \in 1 .. Len(q) + 1 /\ k - 1 \in 0 .. Len(q) /\ k + 1 \in 1 .. Len(q) + 1 /\ Len(q) \in 0 .. Len(q)
  BY <1>1
<1>3. a \in Seq(Entry) /\ Len(a) = k - 1 /\ \A i \in 1 .. k - 1 : a[i] = q[i]
  <2>1. Len(a) = IF 1 <= k - 1 THEN (k - 1) - 1 + 1 ELSE 0
    BY <1>2, PartOf
  <2>2. \A i \in 1 .. (k - 1) - 1 + 1 : a[i] = q[1 + i - 1]
    BY <1>2, PartOf
  <2>3. \A i \in 1 .. k - 1 : i \in 1 .. (k - 1) - 1 + 1 /\ 1 + i - 1 = i
    BY SMT
  <2>4. a \in Seq(Entry)
    BY <1>2, PartOf
  <2>5. Len(a) = k - 1
    BY <2>1, <1>1, SMT
  <2> QED
    BY <2>2, <2>3, <2>4, <2>5
<1>4. b \in Seq(Entry) /\ Len(b) = Len(q) - k /\ \A i \in 1 .. Len(q) - k : b[i] = q[k + i]
  <2>1. Len(b) = IF k + 1 <= Len(q) THEN Len(q) - (k + 1) + 1 ELSE 0
    BY <1>2, PartOf
  <2>2. \A i \in 1 .. Len(q) - (k + 1) + 1 : b[i] = q[k + 1 + i - 1]
    BY <1>2, PartOf
  <2>3. \A i \in 1 .. Len(q) - k : i \in 1 .. Len(q) - (k + 1) + 1 /\ k + 1 + i - 1 = k + i
    BY <1>1, SMT
  <2>4. b \in Seq(Entry)
    BY <1>2, PartOf
  <2>5. Len(b) = Len(q) - k
    BY <2>1, <1>1, SMT
  <2> QED
    BY <2>2, <2>3, <2>4, <2>5
<1>5. RemoveAt(q, k) = a \o b
  BY DEF RemoveAt
<1> HIDE DEF a, b
<1>6. a \o b \in Seq(Entry) /\ Len(a \o b) = Len(q) - 1
  <2>1. a \o b \in Seq(Entry) /\ Len(a \o b) = Len(a) + Len(b)
    BY <1>3, <1>4, Joined
  <2> QED
    BY <2>1, <1>1, <1>3, <1>4, SMT
<1>7. ASSUME NEW i \in 1 .. Len(q) - 1
      PROVE  (a \o b)[i] = q[IF i < k THEN i ELSE i + 1]
  <2>1. CASE i < k
    <3>1. i \in 1 .. Len(a) /\ i \in 1 .. k - 1
      BY <1>1, <1>3, <1>7, <2>1, SMT
    <3>2. (a \o b)[i] = a[i]
      BY <3>1, <1>3, <1>4, Joined
    <3> QED
      BY <2>1, <3>1, <3>2, <1>3
  <2>2. CASE ~(i < k)
    <3>1. i \in 1 .. Len(a) + Len(b) /\ i > Len(a) /\ i - Len(a) = i - k + 1 /\ i - k + 1 \in 1 .. Len(q) - k
      BY <1>1, <1>3, <1>4, <1>7, <2>2, SMT
    <3>2. (a \o b)[i] = b[i - k + 1]
      BY <3>1, <1>3, <1>4, Joined
    <3>3. b[i - k + 1] = q[k + (i - k + 1)]
      BY <3>1, <1>4
    <3>4. k + (i - k + 1) = i + 1
      BY <1>7, SMT
    <3> QED
      BY <2>2, <3>2, <3>3, <3>4
  <2> QED
    BY <2>1, <2>2
<1> QED
  BY <1>5, <1>6, <1>7

\* An orderly queue from which one entry is taken stays orderly, and loses the
\* id of that entry only.
LEMMA OrderlyRemoved ==
  ASSUME NEW q \in Seq(Entry), NEW k \in 1 .. Len(q), NEW n \in Nat, Orderly(q, n),
         NEW r \in Seq(Entry), Len(r) = Len(q) - 1,
         \A i \in 1 .. Len(q) - 1 : r[i] = q[IF i < k THEN i ELSE i + 1]
  PROVE  Orderly(r, n) /\ Ids(r) = Ids(q) \ {q[k].id}
<1>1. /\ Len(q) \in Nat /\ Len(r) \in Nat
      /\ DOMAIN q = 1 .. Len(q) /\ DOMAIN r = 1 .. Len(q) - 1
      /\ \A i \in 1 .. Len(q) : q[i].id \in Nat
      /\ \A i \in 1 .. Len(q) - 1 : r[i].id \in Nat
  <2>1. \A i \in 1 .. Len(r) : r[i].id \in Nat
    BY Entries
  <2> QED
    BY <2>1, Entries
<1> DEFINE src(i) == IF i < k THEN i ELSE i + 1
<1>2. \A i \in 1 .. Len(q) - 1 : src(i) \in 1 .. Len(q) /\ src(i) # k /\ i <= src(i) /\ r[i] = q[src(i)]
  BY <1>1, SMT
<1>3. \A i, j \in 1 .. Len(q) - 1 : i < j => src(i) < src(j)
  BY <1>1, SMT
<1>4. \A i \in 1 .. Len(q) : i # k => \E j \in 1 .. Len(q) - 1 : src(j) = i
  <2> SUFFICES ASSUME NEW i \in 1 .. Len(q), i # k PROVE \E j \in 1 .. Len(q) - 1 : src(j) = i
    OBVIOUS
  <2>1. CASE i < k
    <3>1. i \in 1 .. Len(q) - 1 /\ src(i) = i
      BY <2>1, <1>1, SMT
    <3> QED
      BY <3>1
  <2>2. CASE ~(i < k)
    <3>1. i - 1 \in 1 .. Len(q) - 1 /\ src(i - 1) = i
      BY <2>2, <1>1, SMT
    <3> QED
      BY <3>1
  <2> QED
    BY <2>1, <2>2
<1> HIDE DEF src
<1>5. \A i \in 1 .. Len(q) - 1 : i <= r[i].id /\ r[i].id <= n
  <2> SUFFICES ASSUME NEW i \in 1 .. Len(q) - 1 PROVE i <= r[i].id /\ r[i].id <= n
    OBVIOUS
  <2>1. src(i) <= q[src(i)].id /\ q[src(i)].id <= n
    BY <1>1, <1>2 DEF Orderly
  <2>2. i <= src(i) /\ src(i) \in Nat /\ r[i].id = q[src(i)].id /\ q[src(i)].id \in Nat
    BY <1>1, <1>2
  <2> QED
    BY <2>1, <2>2, SMT
<1>6. \A i, j \in 1 .. Len(q) - 1 : i < j => r[i].id < r[j].id
  BY <1>1, <1>2, <1>3 DEF Orderly
<1>7. \A i \in 1 .. Len(q) : i # k => q[i].id # q[k].id
  <2> SUFFICES ASSUME NEW i \in 1 .. Len(q), i # k PROVE q[i].id # q[k].id
    OBVIOUS
  <2>1. i < k => q[i].id < q[k].id
    BY <1>1 DEF Orderly
  <2>2. k < i => q[k].id < q[i].id
    BY <1>1 DEF Orderly
  <2>3. i < k \/ k < i
    BY <1>1, SMT
  <2>4. q[i].id \in Nat /\ q[k].id \in Nat
    BY <1>1
  <2> QED
    BY <2>1, <2>2, <2>3, <2>4, SMT
<1>8. Ids(r) \subseteq Ids(q) \ {q[k].id}
  BY <1>1, <1>2, <1>7 DEF Ids
<1>9. Ids(q) \ {q[k].id} \subseteq Ids(r)
  <2> SUFFICES ASSUME NEW i \in 1 .. Len(q), q[i].id # q[k].id PROVE q[i].id \in Ids(r)
    BY <1>1 DEF Ids
  <2>1. i # k
    OBVIOUS
  <2>2. PICK j \in 1 .. Len(q) - 1 : src(j) = i
    BY <2>1, <1>4
  <2>3. r[j].id = q[i].id
    BY <2>2, <1>2
  <2> QED
    BY <2>3, <1>1 DEF Ids
<1> QED
  BY <1>1, <1>5, <1>6, <1>8, <1>9 DEF Orderly

\* The head of an orderly queue is its oldest message, ...
LEMMA HeadIsOldest ==
  ASSUME NEW q \in Seq(Entry), q # <<>>, NEW n \in Nat, Orderly(q, n)
  PROVE  /\ Head(q).id \in Ids(q) /\ Head(q).id \in Messages /\ Head(q).id \in Nat
         /\ \A x \in Ids(q) : Head(q).id <= x
<1>1. Head(q) = q[1] /\ 1 \in 1 .. Len(q)
  BY TailOf
<1>2. /\ DOMAIN q = 1 .. Len(q) /\ Len(q) \in Nat
      /\ \A i \in 1 .. Len(q) : q[i].id \in Messages /\ q[i].id \in Nat
  BY Entries
<1>3. ASSUME NEW i \in 1 .. Len(q) PROVE q[1].id <= q[i].id
  <2>1. 1 = i \/ 1 < i
    BY <1>2, SMT
  <2>2. 1 < i => q[1].id < q[i].id
    BY <1>1, <1>2 DEF Orderly
  <2>3. q[1].id \in Nat /\ q[i].id \in Nat
    BY <1>1, <1>2
  <2> QED
    BY <2>1, <2>2, <2>3, SMT
<1> QED
  BY <1>1, <1>2, <1>3 DEF Ids

\* ... and the others stay when it leaves.
LEMMA HeadLeaves ==
  ASSUME NEW q \in Seq(Entry), q # <<>>, NEW n \in Nat, Orderly(q, n)
  PROVE  Orderly(Tail(q), n) /\ Ids(Tail(q)) = Ids(q) \ {Head(q).id}
<1>1. /\ Tail(q) \in Seq(Entry) /\ Len(Tail(q)) = Len(q) - 1
      /\ \A i \in 1 .. Len(q) - 1 : Tail(q)[i] = q[i + 1]
      /\ Head(q) = q[1] /\ 1 \in 1 .. Len(q)
  BY TailOf
<1>2. \A i \in 1 .. Len(q) - 1 : (IF i < 1 THEN i ELSE i + 1) = i + 1
  BY SMT
<1>3. \A i \in 1 .. Len(q) - 1 : Tail(q)[i] = q[IF i < 1 THEN i ELSE i + 1]
  BY <1>1, <1>2
<1> DEFINE r == Tail(q)
<1> HIDE DEF r
<1>4. /\ r \in Seq(Entry) /\ Len(r) = Len(q) - 1
      /\ \A i \in 1 .. Len(q) - 1 : r[i] = q[IF i < 1 THEN i ELSE i + 1]
  BY <1>1, <1>3 DEF r
<1>5. Orderly(r, n) /\ Ids(r) = Ids(q) \ {q[1].id}
  BY <1>1, <1>4, OrderlyRemoved
<1> QED
  BY <1>1, <1>5 DEF r

\* What a flush writes into the head, how often it was tried and that it must
\* wait, moves nothing.
LEMMA Rewritten ==
  ASSUME NEW q \in Seq(Entry), NEW r \in Seq(Entry), Len(r) = Len(q), NEW n \in Nat,
         \A i \in 1 .. Len(q) : r[i].id = q[i].id
  PROVE  Ids(r) = Ids(q) /\ (Orderly(q, n) => Orderly(r, n))
<1>1. DOMAIN q = 1 .. Len(q) /\ DOMAIN r = 1 .. Len(q)
  BY Entries
<1>2. Ids(r) = Ids(q)
  BY <1>1 DEF Ids
<1>3. Orderly(q, n) => Orderly(r, n)
  BY <1>1 DEF Orderly
<1> QED
  BY <1>2, <1>3

LEMMA HeadRewritten ==
  ASSUME NEW q \in Seq(Entry), q # <<>>, NEW e \in Entry, e.id = q[1].id, NEW n \in Nat
  PROVE  /\ [q EXCEPT ![1] = e] \in Seq(Entry)
         /\ [q EXCEPT ![1] = e] # <<>>
         /\ Head([q EXCEPT ![1] = e]) = e
         /\ Ids([q EXCEPT ![1] = e]) = Ids(q)
         /\ Orderly(q, n) => Orderly([q EXCEPT ![1] = e], n)
<1> DEFINE r == [q EXCEPT ![1] = e]
<1>1. 1 \in 1 .. Len(q) /\ Len(q) \in Nat /\ DOMAIN q = 1 .. Len(q)
  BY TailOf, Entries
<1>2. r \in Seq(Entry) /\ Len(r) = Len(q)
  BY <1>1, SMT
<1>3. r[1] = e /\ \A i \in 1 .. Len(q) : i # 1 => r[i] = q[i]
  BY <1>1
<1> HIDE DEF r
<1>4. \A i \in 1 .. Len(q) : r[i].id = q[i].id
  BY <1>3
<1>5. r # <<>>
  BY <1>1, <1>2, SMT
<1>6. Head(r) = e
  BY <1>2, <1>3, <1>5, TailOf
<1>7. Ids(r) = Ids(q) /\ (Orderly(q, n) => Orderly(r, n))
  BY <1>2, <1>4, Rewritten
<1> QED
  BY <1>2, <1>5, <1>6, <1>7 DEF r

LEMMA LeastOf ==
  ASSUME NEW n \in Nat, NEW I \in SUBSET (1 .. n), I # {}
  PROVE  Min(I) \in I
<1>1. I \subseteq Nat
  BY SMT
<1>2. PICK k \in I : \A i \in I : <<i, k>> \notin OpToRel(<, Nat)
  BY <1>1, WFMin, NatLessThanWellFounded, Zenon
<1>3. \A i \in I : ~(i < k)
  BY <1>1, <1>2 DEF OpToRel
<1>4. \A i \in I : k <= i
  BY <1>1, <1>3, SMT
<1> QED
  BY <1>4 DEF Min

\* Making room takes out one entry at most, of low salience.
LEMMA RoomMade ==
  ASSUME NEW q \in Seq(Entry), NEW n \in Nat, Orderly(q, n)
  PROVE  /\ RemoveFirstMatch(q, IsLow) \in Seq(Entry)
         /\ Orderly(RemoveFirstMatch(q, IsLow), n)
         /\ \/ Ids(RemoveFirstMatch(q, IsLow)) = Ids(q)
            \/ \E x \in Ids(q) : /\ salience[x] = "low"
                                 /\ Ids(RemoveFirstMatch(q, IsLow)) = Ids(q) \ {x}
<1>1. CASE \E i \in 1 .. Len(q) : IsLow(q[i])
  <2> DEFINE I == {i \in 1 .. Len(q) : IsLow(q[i])}
             k == Min(I)
             r == RemoveAt(q, k)
  <2>1. k \in 1 .. Len(q) /\ IsLow(q[k])
    <3>1. Len(q) \in Nat /\ I \in SUBSET (1 .. Len(q)) /\ I # {}
      BY <1>1
    <3>2. Min(I) \in I
      BY <3>1, LeastOf
    <3> QED
      BY <3>2
  <2>2. SelectInSeq(q, IsLow) = k
    BY <1>1 DEF SelectInSeq
  <2>3. RemoveFirstMatch(q, IsLow) = r
    BY <1>1, <2>2 DEF RemoveFirstMatch
  <2> HIDE DEF I, k
  <2>4. /\ r \in Seq(Entry) /\ Len(r) = Len(q) - 1
        /\ \A i \in 1 .. Len(q) - 1 : r[i] = q[IF i < k THEN i ELSE i + 1]
    BY <2>1, RemovedAt
  <2> HIDE DEF r
  <2>5. Orderly(r, n) /\ Ids(r) = Ids(q) \ {q[k].id}
    BY <2>1, <2>4, OrderlyRemoved
  <2>6. q[k].id \in Ids(q) /\ salience[q[k].id] = "low"
    BY <2>1, Entries DEF Ids, IsLow
  <2> QED
    BY <2>3, <2>4, <2>5, <2>6
<1>2. CASE ~ \E i \in 1 .. Len(q) : IsLow(q[i])
  <2>1. RemoveFirstMatch(q, IsLow) = q
    BY <1>2 DEF RemoveFirstMatch
  <2> QED
    BY <2>1
<1> QED
  BY <1>1, <1>2

\* A message sent goes behind the older ones.
LEMMA Behind ==
  ASSUME NEW q \in Seq(Entry), NEW n \in Nat, Orderly(q, n), NEW e \in Entry, e.id = n + 1
  PROVE  /\ Append(q, e) \in Seq(Entry)
         /\ Orderly(Append(q, e), n + 1)
         /\ Ids(Append(q, e)) = Ids(q) \cup {n + 1}
<1> DEFINE r == Append(q, e)
<1>1. /\ Len(q) \in Nat /\ DOMAIN q = 1 .. Len(q)
      /\ \A i \in 1 .. Len(q) : q[i].id \in Nat
  BY Entries
<1>2. /\ r \in Seq(Entry) /\ Len(r) = Len(q) + 1
      /\ \A i \in 1 .. Len(q) : r[i] = q[i]
      /\ r[Len(q) + 1] = e
  BY Added
<1> HIDE DEF r
<1>3. DOMAIN r = 1 .. Len(q) + 1
  BY <1>2, Entries
<1>4. Len(q) <= n
  <2>1. CASE Len(q) = 0
    BY <2>1, SMT
  <2>2. CASE Len(q) # 0
    <3>1. Len(q) \in 1 .. Len(q)
      BY <1>1, <2>2, SMT
    <3>2. Len(q) <= q[Len(q)].id /\ q[Len(q)].id <= n /\ q[Len(q)].id \in Nat
      BY <1>1, <3>1 DEF Orderly
    <3> QED
      BY <1>1, <3>2, SMT
  <2> QED
    BY <2>1, <2>2
<1>5. \A i \in 1 .. Len(q) + 1 : i \in 1 .. Len(q) \/ i = Len(q) + 1
  BY <1>1, SMT
<1>6. ASSUME NEW i \in 1 .. Len(q) + 1 PROVE i <= r[i].id /\ r[i].id <= n + 1
  <2>1. CASE i \in 1 .. Len(q)
    <3>1. i <= q[i].id /\ q[i].id <= n /\ q[i].id \in Nat /\ r[i] = q[i]
      BY <1>1, <1>2, <2>1 DEF Orderly
    <3>2. q[i].id <= n + 1
      BY <3>1, SMT
    <3> QED
      BY <3>1, <3>2
  <2>2. CASE i = Len(q) + 1
    <3>1. r[i].id = n + 1
      BY <1>2, <2>2
    <3> QED
      BY <1>1, <1>4, <2>2, <3>1, SMT
  <2> QED
    BY <1>5, <2>1, <2>2
<1>7. ASSUME NEW i \in 1 .. Len(q) + 1, NEW j \in 1 .. Len(q) + 1, i < j
      PROVE  r[i].id < r[j].id
  <2>1. i \in 1 .. Len(q)
    BY <1>1, <1>7, SMT
  <2>2. CASE j \in 1 .. Len(q)
    BY <1>1, <1>2, <1>7, <2>1, <2>2 DEF Orderly
  <2>3. CASE j = Len(q) + 1
    <3>1. r[i].id <= n /\ r[i].id \in Nat /\ r[j].id = n + 1
      BY <1>1, <1>2, <2>1, <2>3 DEF Orderly
    <3> QED
      BY <3>1, SMT
  <2> QED
    BY <1>5, <2>2, <2>3
<1>8. Ids(r) = Ids(q) \cup {n + 1}
  <2>1. \A i \in 1 .. Len(q) + 1 : r[i].id \in Ids(q) \cup {n + 1}
    BY <1>1, <1>2, <1>5 DEF Ids
  <2>2. \A i \in 1 .. Len(q) : i \in 1 .. Len(q) + 1 /\ q[i].id = r[i].id
    BY <1>1, <1>2, SMT
  <2>3. Len(q) + 1 \in 1 .. Len(q) + 1 /\ r[Len(q) + 1].id = n + 1
    BY <1>1, <1>2, SMT
  <2> QED
    BY <1>1, <1>3, <2>1, <2>2, <2>3 DEF Ids
<1> QED
  BY <1>2, <1>3, <1>6, <1>7, <1>8 DEF Orderly, r

\* Counting one more message moves nothing.
LEMMA OrderlyLater ==
  ASSUME NEW q \in Seq(Entry), NEW n \in Nat, Orderly(q, n)
  PROVE  Orderly(q, n + 1)
<1>1. DOMAIN q = 1 .. Len(q) /\ \A i \in 1 .. Len(q) : q[i].id \in Nat
  BY Entries
<1>2. \A i \in DOMAIN q : q[i].id <= n + 1
  <2> SUFFICES ASSUME NEW i \in DOMAIN q PROVE q[i].id <= n + 1
    OBVIOUS
  <2>1. q[i].id \in Nat /\ q[i].id <= n
    BY <1>1 DEF Orderly
  <2> QED
    BY <2>1, SMT
<1> QED
  BY <1>2 DEF Orderly

\* Enqueueing adds the message, and takes out one of low salience at most: the
\* message itself when it is refused, an older one when it is evicted.
LEMMA Enqueued ==
  ASSUME NEW q \in Seq(Entry), NEW n \in Nat, Orderly(q, n), n + 1 \in Messages
  PROVE  /\ Enqueue(q, n + 1) \in Seq(Entry)
         /\ Orderly(Enqueue(q, n + 1), n + 1)
         /\ Ids(Enqueue(q, n + 1)) \subseteq Ids(q) \cup {n + 1}
         /\ \/ Ids(Enqueue(q, n + 1)) = Ids(q) \cup {n + 1}
            \/ \E x \in Ids(q) \cup {n + 1} :
                 /\ salience[x] = "low"
                 /\ Ids(Enqueue(q, n + 1)) = (Ids(q) \cup {n + 1}) \ {x}
<1> DEFINE e == [id |-> n + 1, attempts |-> 0, wait |-> FALSE]
           room == IF Full(q) THEN RemoveFirstMatch(q, IsLow) ELSE q
<1>1. e \in Entry /\ e.id = n + 1
  BY DEF Entry
<1>2. /\ room \in Seq(Entry) /\ Orderly(room, n)
      /\ \/ Ids(room) = Ids(q)
         \/ \E x \in Ids(q) : salience[x] = "low" /\ Ids(room) = Ids(q) \ {x}
  BY RoomMade
<1>n. n + 1 \notin Ids(q)
  <2>1. \A x \in Ids(q) : x <= n
    BY DEF Ids, Orderly
  <2> QED
    BY <2>1, SMT
<1>3. CASE Refuses(q, n + 1)
  <2>1. Enqueue(q, n + 1) = q /\ salience[n + 1] = "low"
    BY <1>3 DEF Enqueue, Refuses
  <2>2. Orderly(q, n + 1) /\ Ids(q) = (Ids(q) \cup {n + 1}) \ {n + 1}
    BY <1>n, OrderlyLater
  <2> QED
    BY <2>1, <2>2
<1>4. CASE ~Refuses(q, n + 1)
  <2>1. Enqueue(q, n + 1) = Append(room, e)
    BY <1>4 DEF Enqueue
  <2> HIDE DEF room, e
  <2>2. /\ Append(room, e) \in Seq(Entry)
        /\ Orderly(Append(room, e), n + 1)
        /\ Ids(Append(room, e)) = Ids(room) \cup {n + 1}
    BY <1>1, <1>2, Behind
  <2>3. CASE Ids(room) = Ids(q)
    BY <2>1, <2>2, <2>3
  <2>4. ASSUME NEW x \in Ids(q), salience[x] = "low", Ids(room) = Ids(q) \ {x}
        PROVE  /\ Ids(Append(room, e)) \subseteq Ids(q) \cup {n + 1}
               /\ Ids(Append(room, e)) = (Ids(q) \cup {n + 1}) \ {x}
    <3>1. x # n + 1
      BY <1>n, <2>4
    <3> QED
      BY <2>2, <2>4, <3>1
  <2> QED
    BY <1>2, <2>1, <2>2, <2>3, <2>4
<1> QED
  BY <1>3, <1>4

-------------------------------------------------------------------------------
\* Discord showing the head of a queue, or not, keeps what it shows in order
\* with the queue that is left.
LEMMA ShownThenQueued ==
  ASSUME NEW n \in Nat, NEW p \in Seq(Entry), p # <<>>, NEW s \in Seq(Messages), KeyInv(p, s, n),
         NEW r \in Seq(Entry), Orderly(r, n), Ids(r) \subseteq Ids(p)
  PROVE  KeyInv(r, s, n) /\ KeyInv(r, Append(s, Head(p).id), n)
<1> DEFINE m == Head(p).id
           t == Append(s, m)
<1>1. Orderly(p, n)
  BY DEF KeyInv
<1>2. /\ m \in Ids(p) /\ m \in Messages /\ m \in Nat
      /\ \A x \in Ids(p) : m <= x
  BY <1>1, HeadIsOldest
<1>3. m <= n
  BY <1>1, <1>2 DEF Ids, Orderly
<1> HIDE DEF m
<1>4. KeyInv(r, s, n)
  BY DEF KeyInv
<1>5. /\ t \in Seq(Messages) /\ Len(s) \in Nat
      /\ DOMAIN s = 1 .. Len(s) /\ DOMAIN t = 1 .. Len(s) + 1
      /\ \A i \in 1 .. Len(s) : t[i] = s[i]
      /\ t[Len(s) + 1] = m
  BY <1>2, SMT
<1> HIDE DEF t
<1>6. \A i \in 1 .. Len(s) + 1 : i \in 1 .. Len(s) \/ i = Len(s) + 1
  BY <1>5, SMT
<1>7. \A i \in 1 .. Len(s) : s[i] <= n /\ s[i] <= m /\ \A x \in Ids(r) : s[i] <= x
  BY <1>2, <1>5 DEF KeyInv
<1>8. \A i \in 1 .. Len(s) + 1 : t[i] <= n /\ \A x \in Ids(r) : t[i] <= x
  BY <1>2, <1>3, <1>5, <1>6, <1>7
<1>9. ASSUME NEW i \in 1 .. Len(s) + 1, NEW j \in 1 .. Len(s) + 1, i < j
      PROVE  t[i] <= t[j]
  <2>1. i \in 1 .. Len(s)
    BY <1>5, <1>9, SMT
  <2>2. CASE j \in 1 .. Len(s)
    BY <1>5, <1>9, <2>1, <2>2 DEF KeyInv
  <2>3. CASE j = Len(s) + 1
    BY <1>5, <1>7, <2>1, <2>3
  <2> QED
    BY <1>6, <2>2, <2>3
<1>10. KeyInv(r, t, n)
  BY <1>5, <1>8, <1>9 DEF KeyInv
<1> QED
  BY <1>4, <1>10 DEF t, m

LEMMA Counts ==
  TypeOK => sends \in Nat /\ Messages \subseteq Nat
BY LimiterAssumption, SMT DEF TypeOK, Messages

LEMMA NothingQueued ==
  <<>> \in Seq(Entry) /\ Ids(<<>>) = {} /\ \A n : Orderly(<<>>, n)
BY DEF Ids, Orderly

THEOREM LimiterInvInit == Init => LimiterInv
<1> SUFFICES ASSUME Init PROVE LimiterInv
  OBVIOUS
<1> USE DEF Init
<1>1. sends = 0 /\ sends \in 0 .. MaxMessages /\ Messages \subseteq Nat
  BY LimiterAssumption, SMT DEF Messages
<1>2. TypeOK
  <2>1. flush \in Keys \cup {NoKey} /\ (flush # NoKey => (IF detached THEN held ELSE queues[flush]) # <<>>)
    OBVIOUS
  <2>2. queues \in [Keys -> Seq(Entry)] /\ held \in Seq(Entry)
    BY NothingQueued
  <2>3. shown \in [Keys -> Seq(Messages)]
    OBVIOUS
  <2>4. fate \in [Messages -> Fates]
    BY DEF Fates
  <2> QED
    BY <1>1, <2>1, <2>2, <2>3, <2>4 DEF TypeOK
<1>3. \A k \in Keys : Live(k) = <<>> /\ shown[k] = <<>>
  BY DEF Live
<1>4. \A k \in Keys : KeyInv(Live(k), shown[k], sends)
  BY <1>3, NothingQueued DEF KeyInv
<1>5. \A k \in Keys : Ids([l \in Keys |-> Live(l)][k]) = {}
  BY <1>3, NothingQueued
<1>6. FateInv([k \in Keys |-> Live(k)], fate, sends)
  BY <1>5 DEF FateInv
<1> QED
  BY <1>2, <1>4, <1>6 DEF LimiterInv

-------------------------------------------------------------------------------
\* What an answer does to the queues: the flush goes on with q, or it ends and
\* an array that is off the Map is gone with it.
LEMMA FlushMoves ==
  ASSUME LimiterInv, flush # NoKey, NEW q \in Seq(Entry), NEW became \in Fates,
         NEW posted \in BOOLEAN, Shows(posted), FlushGoesOn(q, became)
  PROVE  /\ \A k \in Keys : k # flush => Live(k)' = Live(k) /\ shown'[k] = shown[k]
         /\ \A k \in Keys : k = flush =>
              Live(k)' = IF detached /\ ~HeadReady(q) THEN <<>> ELSE q
<1> DEFINE ends == ~HeadReady(q)
<1>0. TypeOK /\ flush \in Keys
  BY DEF LimiterInv, TypeOK
<1>4. /\ flush' = IF ends THEN NoKey ELSE flush
      /\ detached' = (detached /\ ~ends)
      /\ held' = IF detached /\ ~ends THEN q ELSE <<>>
      /\ queues' = IF detached THEN queues ELSE [queues EXCEPT ![flush] = q]
  BY DEF FlushGoesOn
<1>5. \A k \in Keys : k # flush => Live(k)' = Live(k) /\ shown'[k] = shown[k]
  <2>1. \A k \in Keys : k # flush => queues'[k] = queues[k]
    BY <1>0, <1>4 DEF TypeOK
  <2>2. \A k \in Keys : k # flush => shown'[k] = shown[k]
    BY <1>0 DEF TypeOK, Shows
  <2>3. \A k \in Keys : k # flush => ~(flush' = k)
    BY <1>4, LimiterAssumption
  <2> QED
    BY <2>1, <2>2, <2>3 DEF Live
<1>6. ASSUME NEW f \in Keys, f = flush
      PROVE  Live(f)' = IF detached /\ ends THEN <<>> ELSE q
  <2> SUFFICES (IF detached' /\ flush' = f THEN held' ELSE queues'[f])
                 = IF detached /\ ends THEN <<>> ELSE q
    BY DEF Live
  <2>0. f = flush /\ f # NoKey
    BY <1>6
  <2>1. CASE detached
    <3>1. queues[flush] = <<>>
      BY <1>0, <2>1 DEF LimiterInv
    <3> QED
      BY <1>0, <1>4, <2>0, <2>1, <3>1
  <2>2. CASE ~detached
    BY <1>0, <1>4, <2>0, <2>2 DEF TypeOK
  <2> QED
    BY <2>1, <2>2
<1> QED
  BY <1>5, <1>6

\* Every answer of Discord: the flush goes on with a queue that has lost its
\* head, or has kept it.
LEMMA FlushKeeps ==
  ASSUME LimiterInv, flush # NoKey,
         NEW q \in Seq(Entry), Orderly(q, sends),
         NEW became \in Fates,
         Ids(q) = IF became = "queued" THEN Ids(Flushed) ELSE Ids(Flushed) \ {Sending},
         NEW posted \in BOOLEAN, Shows(posted),
         FlushGoesOn(q, became), UNCHANGED <<stopped, salience, sends>>
  PROVE  LimiterInv'
<1> DEFINE ends == ~HeadReady(q)
<1>0. TypeOK /\ sends \in Nat /\ Messages \subseteq Nat /\ flush \in Keys
  BY Counts DEF LimiterInv, TypeOK
<1>f. PICK f \in Keys : f = flush
  BY <1>0
<1>1. /\ Live(flush) = Flushed /\ Flushed \in Seq(Entry) /\ Flushed # <<>>
      /\ KeyInv(Flushed, shown[flush], sends)
  BY <1>0 DEF LimiterInv, TypeOK, Live, Flushed
<1>2. Sending \in Ids(Flushed) /\ Sending \in Messages
  BY <1>0, <1>1, HeadIsOldest DEF KeyInv, Sending
<1>3. ~ends => q # <<>>
  BY DEF HeadReady
<1>4. /\ flush' = IF ends THEN NoKey ELSE flush
      /\ detached' = (detached /\ ~ends)
      /\ held' = IF detached /\ ~ends THEN q ELSE <<>>
      /\ queues' = IF detached THEN queues ELSE [queues EXCEPT ![flush] = q]
  BY DEF FlushGoesOn
<1>5. \A k \in Keys : k # flush => Live(k)' = Live(k) /\ shown'[k] = shown[k]
  BY FlushMoves
<1>6. Live(f)' = IF detached /\ ends THEN <<>> ELSE q
  BY <1>f, FlushMoves
<1>7. shown'[flush] = shown[flush] \/ shown'[flush] = Append(shown[flush], Sending)
  BY <1>0 DEF TypeOK, Shows
<1> HIDE DEF ends
<1>8. TypeOK'
  <2>1. queues' \in [Keys -> Seq(Entry)] /\ held' \in Seq(Entry)
    BY <1>0, <1>4, NothingQueued DEF TypeOK
  <2>2. flush' \in Keys \cup {NoKey} /\ detached' \in BOOLEAN
    BY <1>0, <1>4 DEF TypeOK
  <2>3. fate' \in [Messages -> Fates]
    BY <1>0 DEF TypeOK, FlushGoesOn, Fates
  <2>4. shown' \in [Keys -> Seq(Messages)]
    <3>1. Append(shown[flush], Sending) \in Seq(Messages)
      <4>1. shown[flush] \in Seq(Messages)
        BY <1>0 DEF TypeOK
      <4> QED
        BY <4>1, <1>2
    <3> QED
      BY <1>0, <3>1 DEF TypeOK, Shows
  <2>5. stopped' \in BOOLEAN /\ salience' \in [Messages -> Saliences] /\ sends' \in 0 .. MaxMessages
    BY <1>0 DEF TypeOK
  <2>6. detached' => stopped' /\ flush' # NoKey
    BY <1>0, <1>4 DEF TypeOK
  <2>7. flush' # NoKey => (IF detached' THEN held' ELSE queues'[flush']) # <<>>
    <3> SUFFICES ASSUME ~ends PROVE (IF detached' THEN held' ELSE queues'[flush']) # <<>>
      BY <1>4
    <3>1. flush' = flush
      BY <1>4
    <3>2. CASE detached
      BY <1>3, <1>4, <3>2
    <3>3. CASE ~detached
      <4>1. queues'[flush] = q
        BY <1>0, <1>4, <3>3 DEF TypeOK
      <4> QED
        BY <1>3, <1>4, <3>1, <3>3, <4>1
    <3> QED
      BY <3>2, <3>3
  <2> QED
    BY <2>1, <2>2, <2>3, <2>4, <2>5, <2>6, <2>7 DEF TypeOK
<1>9. ~detached' => held' = <<>>
  BY <1>4
<1>10. detached' => \A k \in Keys : queues'[k] = <<>>
  BY <1>4 DEF LimiterInv
<1>11. /\ Live(f)' \in Seq(Entry) /\ Orderly(Live(f)', sends)
       /\ Ids(Live(f)') \subseteq Ids(Flushed)
  BY <1>6, NothingQueued
<1>12. ASSUME NEW k \in Keys PROVE KeyInv(Live(k)', shown'[k], sends')
  <2>1. CASE k = flush
    <3>1. shown[flush] \in Seq(Messages)
      BY <1>0 DEF TypeOK
    <3> DEFINE r == Live(f)'
    <3> HIDE DEF r
    <3>2. r \in Seq(Entry) /\ Orderly(r, sends) /\ Ids(r) \subseteq Ids(Flushed)
      BY <1>11 DEF r
    <3>3. KeyInv(r, shown[flush], sends) /\ KeyInv(r, Append(shown[flush], Sending), sends)
      BY <1>0, <1>1, <3>1, <3>2, ShownThenQueued DEF Sending
    <3>4. KeyInv(r, shown'[flush], sends')
      BY <1>7, <3>3
    <3> QED
      BY <1>f, <2>1, <3>4 DEF r
  <2>2. CASE k # flush
    <3>1. KeyInv(Live(k), shown[k], sends)
      BY DEF LimiterInv
    <3>2. Live(k)' = Live(k) /\ shown'[k] = shown[k] /\ sends' = sends
      BY <1>5, <2>2
    <3> QED
      BY <3>1, <3>2
  <2> QED
    BY <2>1, <2>2
<1>13. FateInv([k \in Keys |-> Live(k)'], fate', sends')
  <2> DEFINE old == [k \in Keys |-> Live(k)]
             new == [k \in Keys |-> Live(k)']
  <2>1. FateInv(old, fate, sends)
    BY DEF LimiterInv
  <2>2. old[flush] = Flushed
    BY <1>0, <1>1
  <2>3. \A k \in Keys : k # flush => new[k] = old[k]
    BY <1>5
  <2>4. new[flush] = IF detached /\ ends THEN <<>> ELSE q
    BY <1>0, <1>6, <1>f
  <2>5. Ids(new[flush]) = IF detached /\ ends THEN {} ELSE Ids(q)
    <3> HIDE DEF new
    <3>1. CASE detached /\ ends
      BY <2>4, <3>1, NothingQueued
    <3>2. CASE ~(detached /\ ends)
      BY <2>4, <3>2
    <3> QED
      BY <3>1, <3>2
  <2>6. \A m \in Messages : fate'[m] = IF ends /\ detached /\ m \in Ids(q) THEN "cancelled"
                                       ELSE IF m = Sending THEN became ELSE fate[m]
    BY DEF FlushGoesOn, ends
  <2> HIDE DEF old, new
  <2>7. Ids(q) \subseteq Ids(Flushed)
    OBVIOUS
  <2>8. \A k \in Keys : k # flush => Ids(old[k]) \cap Ids(Flushed) = {}
    BY <1>0, <2>1, <2>2 DEF FateInv
  <2>9. \A k, l \in Keys : k # l => Ids(new[k]) \cap Ids(new[l]) = {}
    <3>1. Ids(new[flush]) \subseteq Ids(Flushed)
      BY <2>5, <2>7
    <3> QED
      BY <2>1, <2>3, <2>8, <3>1 DEF FateInv
  <2>10. ASSUME NEW m \in Messages
         PROVE  fate'[m] = "queued" <=> \E k \in Keys : m \in Ids(new[k])
    <3>1. CASE m \in Ids(Flushed)
      <4>1. (\E k \in Keys : m \in Ids(new[k])) <=> m \in Ids(new[flush])
        BY <1>0, <2>3, <2>8, <3>1
      <4>2. fate[m] = "queued"
        BY <1>0, <2>1, <2>2, <3>1 DEF FateInv
      <4>3. fate'[m] = "queued" <=> m \in Ids(new[flush])
        <5>1. CASE ends /\ detached
          BY <1>2, <2>5, <2>6, <3>1, <4>2, <5>1
        <5>2. CASE ~(ends /\ detached)
          BY <1>2, <2>5, <2>6, <3>1, <4>2, <5>2
        <5> QED
          BY <5>1, <5>2
      <4> QED
        BY <4>1, <4>3
    <3>2. CASE m \notin Ids(Flushed)
      <4>1. fate'[m] = fate[m]
        BY <1>2, <2>6, <2>7, <3>2
      <4>2. m \notin Ids(new[flush]) /\ m \notin Ids(old[flush])
        BY <2>2, <2>5, <2>7, <3>2
      <4>3. (\E k \in Keys : m \in Ids(new[k])) <=> (\E k \in Keys : m \in Ids(old[k]))
        BY <2>3, <4>2
      <4> QED
        BY <2>1, <4>1, <4>3 DEF FateInv
    <3> QED
      BY <3>1, <3>2
  <2>11. ASSUME NEW m \in Messages, m > sends PROVE fate'[m] = "unsent"
    <3>1. m \notin Ids(Flushed)
      <4>1. \A x \in Ids(Flushed) : x <= sends
        BY <1>1 DEF KeyInv, Orderly, Ids
      <4>2. m \in Nat
        BY <1>0
      <4> QED
        BY <1>0, <2>11, <4>1, <4>2, SMT
    <3>2. fate'[m] = fate[m]
      BY <1>2, <2>6, <2>7, <3>1
    <3> QED
      BY <2>1, <2>11, <3>2 DEF FateInv
  <2>12. FateInv(new, fate', sends')
    BY <2>9, <2>10, <2>11 DEF FateInv
  <2> QED
    BY <2>12 DEF new
<1> QED
  BY <1>8, <1>9, <1>10, <1>12, <1>13 DEF LimiterInv

\* The array a flush works on, and what is left of it once its head has gone.
LEMMA FlushedQueue ==
  ASSUME LimiterInv, flush # NoKey
  PROVE  /\ Flushed \in Seq(Entry) /\ Flushed # <<>> /\ Orderly(Flushed, sends) /\ sends \in Nat
         /\ Tail(Flushed) \in Seq(Entry) /\ Orderly(Tail(Flushed), sends)
         /\ Ids(Tail(Flushed)) = Ids(Flushed) \ {Sending}
         /\ Head(Flushed) = Flushed[1] /\ Head(Flushed) \in Entry
<1>1. TypeOK /\ sends \in Nat /\ flush \in Keys
  BY Counts DEF LimiterInv, TypeOK
<1>2. Flushed \in Seq(Entry) /\ Flushed # <<>> /\ Flushed = Live(flush)
  BY <1>1 DEF TypeOK, Flushed, Live
<1>3. Orderly(Flushed, sends)
  BY <1>1, <1>2 DEF LimiterInv, KeyInv
<1>4. Orderly(Tail(Flushed), sends) /\ Ids(Tail(Flushed)) = Ids(Flushed) \ {Sending}
  BY <1>1, <1>2, <1>3, HeadLeaves DEF Sending
<1>5. Tail(Flushed) \in Seq(Entry) /\ Head(Flushed) = Flushed[1] /\ Flushed[1] \in Entry
  BY <1>2, TailOf, Entries
<1> QED
  BY <1>1, <1>2, <1>3, <1>4, <1>5

\* The queue a flush goes on with: without its head, or with its head marked.
LEMMA FlushSteps ==
  ASSUME LimiterInv, DiscordAnswers
  PROVE  /\ flush # NoKey /\ UNCHANGED <<stopped, salience, sends>>
         /\ \E q \in Seq(Entry), became \in Fates, posted \in BOOLEAN :
              /\ Orderly(q, sends)
              /\ Ids(q) = IF became = "queued" THEN Ids(Flushed) ELSE Ids(Flushed) \ {Sending}
              /\ Shows(posted)
              /\ FlushGoesOn(q, became)
<1>0. flush # NoKey /\ UNCHANGED <<stopped, salience, sends>>
  BY DEF DiscordAnswers, SendSucceeds, RateLimited, PermanentFailure, TransientFailure
<1>1. /\ Flushed \in Seq(Entry) /\ Flushed # <<>> /\ Orderly(Flushed, sends) /\ sends \in Nat
      /\ Tail(Flushed) \in Seq(Entry) /\ Orderly(Tail(Flushed), sends)
      /\ Ids(Tail(Flushed)) = Ids(Flushed) \ {Sending}
      /\ Head(Flushed) = Flushed[1] /\ Flushed[1] \in Entry
  BY <1>0, FlushedQueue
<1>f. {"sent", "dropped", "queued"} \subseteq Fates
  BY DEF Fates
<1>t. 1 \in DOMAIN Flushed
  BY <1>1, TailOf, Entries
<1>2. CASE SendSucceeds
  <2>1. "sent" \in Fates /\ TRUE \in BOOLEAN /\ "sent" # "queued"
    BY <1>f
  <2> QED
    BY <1>0, <1>1, <1>2, <2>1 DEF SendSucceeds
<1>3. CASE RateLimited
  <2> DEFINE e == [Flushed[1] EXCEPT !.wait = TRUE]
             r == [Flushed EXCEPT ![1] = e]
  <2>1. e \in Entry /\ e.id = Flushed[1].id
    BY <1>1 DEF Entry
  <2>2. [Flushed EXCEPT ![1].wait = TRUE] = r
    BY <1>1
  <2> HIDE DEF e
  <2>3. r \in Seq(Entry) /\ Ids(r) = Ids(Flushed) /\ Orderly(r, sends)
    BY <1>1, <2>1, HeadRewritten
  <2>4. FlushGoesOn(r, "queued")
    BY <1>3, <2>2 DEF RateLimited
  <2>5. Shows(FALSE)
    BY <1>3 DEF RateLimited, Shows
  <2>6. "queued" \in Fates /\ FALSE \in BOOLEAN
    BY <1>f
  <2> HIDE DEF r
  <2> QED
    BY <1>0, <2>3, <2>4, <2>5, <2>6
<1>4. ASSUME NEW posted \in BOOLEAN, PermanentFailure(posted)
      PROVE  \E q \in Seq(Entry), became \in Fates, p \in BOOLEAN :
              /\ Orderly(q, sends)
              /\ Ids(q) = IF became = "queued" THEN Ids(Flushed) ELSE Ids(Flushed) \ {Sending}
              /\ Shows(p)
              /\ FlushGoesOn(q, became)
  <2>1. "dropped" \in Fates /\ "dropped" # "queued"
    BY <1>f
  <2> QED
    BY <1>1, <1>4, <2>1 DEF PermanentFailure
<1>5. ASSUME NEW posted \in BOOLEAN, TransientFailure(posted)
      PROVE  \E q \in Seq(Entry), became \in Fates, p \in BOOLEAN :
              /\ Orderly(q, sends)
              /\ Ids(q) = IF became = "queued" THEN Ids(Flushed) ELSE Ids(Flushed) \ {Sending}
              /\ Shows(p)
              /\ FlushGoesOn(q, became)
  <2> DEFINE tried == Head(Flushed).attempts + 1
  <2>1. CASE tried >= MaxAttempts
    <3>1. "dropped" \in Fates /\ "dropped" # "queued"
      BY <1>f
    <3>2. FlushGoesOn(Tail(Flushed), "dropped") /\ Shows(posted)
      BY <1>5, <2>1 DEF TransientFailure
    <3> QED
      BY <1>1, <3>1, <3>2
  <2>2. CASE ~(tried >= MaxAttempts)
    <3> DEFINE e == [Flushed[1] EXCEPT !.attempts = tried, !.wait = TRUE]
               r == [Flushed EXCEPT ![1] = e]
    <3>1. tried \in Nat
      BY <1>1, SMT DEF Entry
    <3>2. FlushGoesOn([Flushed EXCEPT ![1].attempts = tried, ![1].wait = TRUE], "queued") /\ Shows(posted)
      BY <1>5, <2>2 DEF TransientFailure
    <3> HIDE DEF tried
    <3>3. e \in Entry /\ e.id = Flushed[1].id
      BY <1>1, <3>1 DEF Entry
    <3>4. [Flushed EXCEPT ![1].attempts = tried, ![1].wait = TRUE] = r
      BY <1>1, <1>t DEF Entry
    <3> HIDE DEF e
    <3>5. r \in Seq(Entry) /\ Ids(r) = Ids(Flushed) /\ Orderly(r, sends)
      BY <1>1, <3>3, HeadRewritten
    <3>6. FlushGoesOn(r, "queued")
      BY <3>2, <3>4
    <3>7. "queued" \in Fates
      BY <1>f
    <3> HIDE DEF r
    <3> QED
      BY <3>2, <3>5, <3>6, <3>7
  <2> QED
    BY <2>1, <2>2
<1> QED
  BY <1>0, <1>2, <1>3, <1>4, <1>5 DEF DiscordAnswers

LEMMA AnswersKeep ==
  ASSUME LimiterInv, DiscordAnswers
  PROVE  LimiterInv'
BY FlushSteps, FlushKeeps

\* A message is sent only when no flush is under way, to a queue on the Map.
LEMMA SendKeeps ==
  ASSUME LimiterInv, NEW k \in Keys, SendAgentMessage(k)
  PROVE  LimiterInv'
<1> DEFINE m == sends + 1
           q == Enqueue(queues[k], m)
<1>0. TypeOK /\ sends \in Nat /\ Messages \subseteq Nat /\ flush = NoKey /\ ~detached
  BY Counts DEF LimiterInv, TypeOK, SendAgentMessage
<1>1. m \in Messages /\ m \in 0 .. MaxMessages /\ m \in Nat
  BY <1>0, LimiterAssumption, SMT DEF SendAgentMessage, Messages
<1>2. \A l \in Keys : Live(l) = queues[l] /\ Live(l)' = queues'[l]
  BY <1>0 DEF Live, SendAgentMessage
<1>3. \A l \in Keys : queues[l] \in Seq(Entry) /\ KeyInv(queues[l], shown[l], sends)
  BY <1>0, <1>2 DEF LimiterInv, TypeOK
<1>4. q \in Seq(Entry) /\ Orderly(q, m) /\ Ids(q) \subseteq Ids(queues[k]) \cup {m}
  <2>1. queues[k] \in Seq(Entry) /\ Orderly(queues[k], sends)
    BY <1>3 DEF KeyInv
  <2> QED
    BY <1>0, <1>1, <2>1, Enqueued
<1>5. /\ queues' = [queues EXCEPT ![k] = q]
      /\ flush' = IF HeadReady(q) THEN k ELSE NoKey
      /\ sends' = m
      /\ UNCHANGED <<held, detached, stopped, salience, shown>>
      /\ \A x \in Messages : fate'[x] =
           CASE x = m -> IF x \in Ids(q) THEN "queued" ELSE "refused"
             [] x \in Ids(queues[k]) \ Ids(q) -> "evicted"
             [] OTHER -> fate[x]
  BY DEF SendAgentMessage
<1>6. fate' \in [Messages -> Fates]
  BY <1>0 DEF SendAgentMessage, TypeOK, Fates
<1> HIDE DEF q
<1>7. queues'[k] = q /\ \A l \in Keys : l # k => queues'[l] = queues[l]
  BY <1>0, <1>5 DEF TypeOK
<1>8. \A l \in Keys : \A x \in Ids(queues[l]) : x <= sends /\ x \in Messages
  <2> SUFFICES ASSUME NEW l \in Keys, NEW i \in DOMAIN queues[l]
               PROVE  queues[l][i].id <= sends /\ queues[l][i].id \in Messages
    BY DEF Ids
  <2>1. queues[l][i].id <= sends
    BY <1>3 DEF KeyInv, Orderly
  <2>2. queues[l] \in Seq(Entry)
    BY <1>3
  <2> QED
    BY <2>1, <2>2, Entries
<1>9. \A l \in Keys : m \notin Ids(queues[l])
  <2>1. ~(m <= sends)
    BY <1>0, SMT
  <2> QED
    BY <1>8, <2>1
<1> HIDE DEF m
<1>10. TypeOK'
  <2>1. queues' \in [Keys -> Seq(Entry)] /\ held' \in Seq(Entry) /\ shown' \in [Keys -> Seq(Messages)]
    BY <1>0, <1>4, <1>5 DEF TypeOK
  <2>2. /\ flush' \in Keys \cup {NoKey} /\ detached' = FALSE /\ stopped' \in BOOLEAN
        /\ salience' \in [Messages -> Saliences] /\ sends' \in 0 .. MaxMessages
    BY <1>0, <1>1, <1>5 DEF TypeOK
  <2>3. flush' # NoKey => queues'[flush'] # <<>>
    BY <1>5, <1>7 DEF HeadReady
  <2> QED
    BY <1>6, <2>1, <2>2, <2>3 DEF TypeOK
<1>11. ~detached' /\ held' = <<>>
  BY <1>0, <1>5 DEF LimiterInv
<1>12. ASSUME NEW l \in Keys PROVE KeyInv(queues'[l], shown'[l], sends')
  <2>1. /\ \A i \in DOMAIN shown[l] : shown[l][i] <= sends /\ shown[l][i] <= m
                                        /\ \A x \in Ids(queues[l]) : shown[l][i] <= x
        /\ \A i, j \in DOMAIN shown[l] : i < j => shown[l][i] <= shown[l][j]
    <3>1. \A i \in DOMAIN shown[l] : shown[l][i] \in Nat
      <4>1. shown[l] \in Seq(Messages)
        BY <1>0 DEF TypeOK
      <4>2. \A i \in DOMAIN shown[l] : shown[l][i] \in Messages
        BY <4>1
      <4> QED
        BY <4>2, <1>0
    <3>2. ASSUME NEW i \in DOMAIN shown[l] PROVE shown[l][i] <= m
      <4>1. shown[l][i] <= sends
        BY <1>3 DEF KeyInv
      <4> QED
        BY <3>1, <4>1, <1>0, SMT DEF m
    <3> QED
      BY <3>2, <1>3 DEF KeyInv
  <2>2. shown'[l] = shown[l] /\ sends' = m
    BY <1>5
  <2>3. CASE l = k
    <3>1. \A i \in DOMAIN shown[l] : \A x \in Ids(q) : shown[l][i] <= x
      BY <1>4, <2>1, <2>3
    <3> QED
      BY <1>4, <1>7, <2>1, <2>2, <2>3, <3>1 DEF KeyInv
  <2>4. CASE l # k
    <3>1. Orderly(queues[l], m)
      BY <1>0, <1>3, OrderlyLater DEF KeyInv, m
    <3> QED
      BY <1>7, <2>1, <2>2, <2>4, <3>1 DEF KeyInv
  <2> QED
    BY <2>3, <2>4
<1>13. FateInv([l \in Keys |-> queues'[l]], fate', sends')
  <2>1. FateInv([l \in Keys |-> queues[l]], fate, sends)
    <3>1. [l \in Keys |-> Live(l)] = [l \in Keys |-> queues[l]]
      BY <1>2
    <3> QED
      BY <3>1 DEF LimiterInv
  <2>2. \A l, j \in Keys : l # j => Ids(queues'[l]) \cap Ids(queues'[j]) = {}
    BY <1>4, <1>7, <1>9, <2>1 DEF FateInv
  <2>3. ASSUME NEW x \in Messages
        PROVE  fate'[x] = "queued" <=> \E l \in Keys : x \in Ids(queues'[l])
    <3>1. CASE x = m
      <4>1. fate'[x] = "queued" <=> x \in Ids(q)
        BY <1>5, <3>1
      <4> QED
        BY <1>7, <1>9, <3>1, <4>1
    <3>2. CASE x # m /\ x \in Ids(queues[k])
      <4>1. fate[x] = "queued"
        BY <2>1, <3>2 DEF FateInv
      <4>2. fate'[x] = "queued" <=> x \in Ids(q)
        BY <1>5, <3>2, <4>1
      <4>3. \A l \in Keys : l # k => x \notin Ids(queues[l])
        BY <2>1, <3>2 DEF FateInv
      <4> QED
        BY <1>7, <4>2, <4>3
    <3>3. CASE x # m /\ x \notin Ids(queues[k])
      <4>1. fate'[x] = fate[x] /\ x \notin Ids(q)
        BY <1>4, <1>5, <3>3
      <4>2. fate[x] = "queued" <=> \E l \in Keys : x \in Ids(queues[l])
        BY <2>1 DEF FateInv
      <4> QED
        BY <1>7, <3>3, <4>1, <4>2
    <3> QED
      BY <3>1, <3>2, <3>3
  <2>4. ASSUME NEW x \in Messages, x > m PROVE fate'[x] = "unsent"
    <3>1. x # m /\ x > sends /\ ~(x <= sends)
      BY <1>0, <1>1, <2>4, SMT DEF m
    <3>2. fate'[x] = fate[x]
      BY <1>5, <1>8, <3>1
    <3> QED
      BY <2>1, <3>1, <3>2 DEF FateInv
  <2> QED
    BY <1>5, <2>2, <2>3, <2>4 DEF FateInv
<1>14. [l \in Keys |-> Live(l)'] = [l \in Keys |-> queues'[l]]
  BY <1>2
<1> QED
  BY <1>2, <1>10, <1>11, <1>12, <1>13, <1>14 DEF LimiterInv

LEMMA BackoffKeeps ==
  ASSUME LimiterInv, NEW k \in Keys, BackoffExpires(k)
  PROVE  LimiterInv'
<1>0. TypeOK /\ sends \in Nat /\ ~detached /\ queues[k] \in Seq(Entry) /\ queues[k] # <<>>
  BY Counts DEF LimiterInv, TypeOK, BackoffExpires
<1> DEFINE e == [queues[k][1] EXCEPT !.wait = FALSE]
           r == [queues[k] EXCEPT ![1] = e]
<1>1. UNCHANGED <<flush, held, detached, stopped, salience, fate, shown, sends>>
  BY DEF BackoffExpires
<1>2. e \in Entry /\ e.id = queues[k][1].id /\ 1 \in DOMAIN queues[k]
  <2>1. queues[k][1] \in Entry /\ 1 \in DOMAIN queues[k]
    BY <1>0, TailOf, Entries
  <2> QED
    BY <2>1 DEF Entry
<1>3. queues' = [queues EXCEPT ![k] = r]
  BY <1>0, <1>2 DEF BackoffExpires
<1> HIDE DEF e
<1>4. /\ r \in Seq(Entry) /\ r # <<>> /\ Ids(r) = Ids(queues[k])
      /\ Orderly(queues[k], sends) => Orderly(r, sends)
  BY <1>0, <1>2, HeadRewritten
<1> HIDE DEF r
<1>5. queues'[k] = r /\ \A l \in Keys : l # k => queues'[l] = queues[l]
  BY <1>0, <1>3 DEF TypeOK
<1>6. \A l \in Keys : Live(l) = queues[l] /\ Live(l)' = queues'[l]
  BY <1>0, <1>1 DEF Live
<1>7. TypeOK'
  <2>1. queues' \in [Keys -> Seq(Entry)]
    BY <1>0, <1>3, <1>4 DEF TypeOK
  <2>2. flush' # NoKey => queues'[flush'] # <<>>
    BY <1>0, <1>1, <1>4, <1>5 DEF TypeOK
  <2> QED
    BY <1>0, <1>1, <2>1, <2>2 DEF TypeOK
<1>8. \A l \in Keys : Ids(queues'[l]) = Ids(queues[l])
  BY <1>4, <1>5
<1>9. \A l \in Keys : KeyInv(queues'[l], shown[l], sends)
  BY <1>4, <1>5, <1>6 DEF KeyInv, LimiterInv
<1>10. FateInv([l \in Keys |-> queues'[l]], fate, sends)
  <2>1. FateInv([l \in Keys |-> Live(l)], fate, sends)
    BY DEF LimiterInv
  <2> QED
    BY <1>6, <1>8, <2>1 DEF FateInv
<1>11. [l \in Keys |-> Live(l)'] = [l \in Keys |-> queues'[l]]
  BY <1>6
<1> QED
  BY <1>0, <1>1, <1>6, <1>7, <1>9, <1>10, <1>11 DEF LimiterInv

\* The stop: every queue goes except the array of the flush under way.
LEMMA ClearKeeps ==
  ASSUME LimiterInv, Clear
  PROVE  LimiterInv'
<1> DEFINE kept == IF flush = NoKey THEN <<>> ELSE queues[flush]
<1>0. TypeOK /\ sends \in Nat /\ ~detached
  BY Counts DEF LimiterInv, TypeOK, Clear
<1>1. /\ stopped' = TRUE /\ held' = kept /\ detached' = (flush # NoKey)
      /\ queues' = [k \in Keys |-> <<>>]
      /\ UNCHANGED <<flush, salience, shown, sends>>
      /\ \A m \in Messages : fate'[m] =
           IF fate[m] = "queued" /\ m \notin Ids(kept) THEN "cancelled" ELSE fate[m]
  BY DEF Clear
<1>2. \A k \in Keys : Live(k) = queues[k]
  BY <1>0 DEF Live
<1>3. \A k \in Keys : Live(k)' = IF k = flush THEN queues[k] ELSE <<>>
  BY <1>1, LimiterAssumption DEF Live
<1>4. kept \in Seq(Entry) /\ (flush # NoKey => kept # <<>>)
  BY <1>0, NothingQueued DEF TypeOK
<1>5. TypeOK'
  <2>1. fate' \in [Messages -> Fates]
    BY <1>0 DEF TypeOK, Clear, Fates
  <2>2. queues' \in [Keys -> Seq(Entry)]
    BY <1>1, NothingQueued
  <2>3. detached' => stopped' /\ flush' # NoKey
    BY <1>1
  <2>4. flush' # NoKey => (IF detached' THEN held' ELSE queues'[flush']) # <<>>
    BY <1>1, <1>4
  <2>5. held' \in Seq(Entry) /\ detached' \in BOOLEAN /\ stopped' \in BOOLEAN
    BY <1>1, <1>4
  <2> QED
    BY <1>0, <1>1, <2>1, <2>2, <2>3, <2>4, <2>5 DEF TypeOK
<1>6. (~detached' => held' = <<>>) /\ \A k \in Keys : queues'[k] = <<>>
  BY <1>1
<1>7. \A k \in Keys : Ids(Live(k)') = IF k = flush THEN Ids(queues[k]) ELSE {}
  BY <1>3, NothingQueued
<1>8. ASSUME NEW k \in Keys PROVE KeyInv(Live(k)', shown'[k], sends')
  <2>1. KeyInv(queues[k], shown[k], sends)
    BY <1>2 DEF LimiterInv
  <2>2. Orderly(Live(k)', sends) /\ Ids(Live(k)') \subseteq Ids(queues[k])
    BY <1>3, <2>1, NothingQueued DEF KeyInv
  <2> QED
    BY <1>1, <2>1, <2>2 DEF KeyInv
<1>9. FateInv([k \in Keys |-> Live(k)'], fate', sends')
  <2> DEFINE new == [k \in Keys |-> Live(k)']
  <2>1. FateInv([k \in Keys |-> Live(k)], fate, sends)
    BY DEF LimiterInv
  <2>2. \A k \in Keys : Ids(new[k]) = IF k = flush THEN Ids(queues[k]) ELSE {}
    BY <1>7
  <2> HIDE DEF new
  <2>3. \A k, l \in Keys : k # l => Ids(new[k]) \cap Ids(new[l]) = {}
    BY <2>2
  <2>4. \A x \in Ids(kept) : flush \in Keys /\ x \in Ids(queues[flush])
    BY <1>0, NothingQueued DEF TypeOK
  <2>5. ASSUME NEW m \in Messages
        PROVE  fate'[m] = "queued" <=> \E k \in Keys : m \in Ids(new[k])
    <3>1. fate[m] = "queued" <=> \E k \in Keys : m \in Ids(queues[k])
      BY <1>2, <2>1 DEF FateInv
    <3>2. (\E k \in Keys : m \in Ids(new[k])) <=> m \in Ids(kept)
      <4>1. \A k \in Keys : k = flush => kept = queues[k]
        BY LimiterAssumption
      <4>2. ASSUME NEW k \in Keys, m \in Ids(new[k]) PROVE m \in Ids(kept)
        BY <2>2, <4>1, <4>2
      <4>3. ASSUME m \in Ids(kept) PROVE \E k \in Keys : m \in Ids(new[k])
        <5>1. flush \in Keys /\ m \in Ids(queues[flush])
          BY <2>4, <4>3
        <5> QED
          BY <2>2, <5>1
      <4> QED
        BY <4>2, <4>3
    <3>3. m \in Ids(kept) => fate[m] = "queued"
      BY <2>4, <3>1
    <3> QED
      BY <1>1, <3>2, <3>3
  <2>6. ASSUME NEW m \in Messages, m > sends PROVE fate'[m] = "unsent"
    <3>1. fate[m] = "unsent"
      BY <2>1, <2>6 DEF FateInv
    <3> QED
      BY <1>1, <3>1
  <2> QED
    BY <1>1, <2>3, <2>5, <2>6 DEF FateInv, new
<1> QED
  BY <1>5, <1>6, <1>8, <1>9 DEF LimiterInv

LEMMA LimiterStutters == LimiterInv /\ UNCHANGED vars => LimiterInv'
<1> SUFFICES ASSUME LimiterInv, UNCHANGED vars PROVE LimiterInv'
  OBVIOUS
<1>1. \A k \in Keys : Live(k)' = Live(k)
  BY DEF vars, Live
<1>2. TypeOK'
  BY DEF LimiterInv, TypeOK, vars
<1>3. [k \in Keys |-> Live(k)'] = [k \in Keys |-> Live(k)]
  BY <1>1
<1> QED
  BY <1>1, <1>2, <1>3 DEF LimiterInv, vars

\* The invariant of the limiter.
THEOREM LimiterInvariant == Spec => []LimiterInv
<1>1. LimiterInv /\ [Next]_vars => LimiterInv'
  BY AnswersKeep, SendKeeps, BackoffKeeps, ClearKeeps, LimiterStutters DEF Next
<1> QED
  BY <1>1, LimiterInvInit, PTL DEF Spec

\* The state the limiter keeps has its types in every reachable state: a flush
\* in progress always has a message to send, on the Map or off it.
THEOREM LimiterTyping == Spec => []TypeOK
<1>1. LimiterInv => TypeOK
  BY DEF LimiterInv
<1> QED
  BY <1>1, LimiterInvariant, PTL

\* Discord shows each agent's messages in each channel in the order of
\* sending, whatever is retried, refused or evicted on the way.
THEOREM LimiterFifo == Spec => []FifoPerKey
<1>1. LimiterInv => FifoPerKey
  BY DEF LimiterInv, KeyInv, FifoPerKey
<1> QED
  BY <1>1, LimiterInvariant, PTL

LEMMA PlacesFinite ==
  Cardinality({}) = 0 /\ \A x : Cardinality({x}) = 1
BY FS_EmptySet, FS_Singleton

\* A message that is nowhere, and one that is on one queue.
LEMMA OnOneQueue ==
  ASSUME LimiterInv, NEW m \in Messages
  PROVE  IF fate[m] = "queued"
         THEN Cardinality(Places(m)) + Cardinality(HeldPlaces(m)) = 1
         ELSE Places(m) = {} /\ HeldPlaces(m) = {}
<1>0. TypeOK /\ sends \in Nat /\ Messages \subseteq Nat
  BY Counts DEF LimiterInv
<1>1. /\ ~detached => held = <<>>
      /\ detached => flush \in Keys /\ \A k \in Keys : queues[k] = <<>>
  BY <1>0 DEF LimiterInv, TypeOK
<1>2. fate[m] = "queued" <=> \E k \in Keys : m \in Ids(Live(k))
  BY DEF LimiterInv, FateInv
<1>3. \A k \in Keys : \A i \in DOMAIN queues[k] : queues[k][i].id \in Ids(queues[k])
  BY DEF Ids
<1>4. \A i \in DOMAIN held : held[i].id \in Ids(held)
  BY DEF Ids
<1>5. ASSUME fate[m] # "queued"
      PROVE  Places(m) = {} /\ HeldPlaces(m) = {}
  <2>1. \A k \in Keys : m \notin Ids(Live(k))
    BY <1>2, <1>5
  <2>2. \A k \in Keys : m \notin Ids(queues[k])
    BY <1>1, <2>1, NothingQueued DEF Live
  <2>3. m \notin Ids(held)
    BY <1>1, <2>1, NothingQueued DEF Live
  <2> QED
    BY <1>3, <1>4, <2>2, <2>3 DEF Places, At, HeldPlaces
<1>6. ASSUME fate[m] = "queued"
      PROVE  Cardinality(Places(m)) + Cardinality(HeldPlaces(m)) = 1
  <2>1. PICK k \in Keys : m \in Ids(Live(k))
    BY <1>2, <1>6
  <2> DEFINE q == Live(k)
  <2>2. q \in Seq(Entry)
    BY <1>0 DEF Live, TypeOK
  <2>3. Orderly(q, sends)
    BY DEF LimiterInv, KeyInv
  <2>4. PICK i \in DOMAIN q : q[i].id = m
    BY <2>1 DEF Ids
  <2>5. \A j \in DOMAIN q : q[j].id = m => j = i
    <3> SUFFICES ASSUME NEW j \in DOMAIN q, q[j].id = m, j # i PROVE FALSE
      OBVIOUS
    <3>1. DOMAIN q = 1 .. Len(q) /\ Len(q) \in Nat
      BY <2>2, Entries
    <3> HIDE DEF q
    <3>2. i < j \/ j < i
      BY <3>1, SMT
    <3>3. m < m
      BY <2>3, <2>4, <3>2 DEF Orderly
    <3> QED
      BY <1>0, <3>3, SMT
  <2>6. i \in 1 .. MaxMessages
    <3>1. DOMAIN q = 1 .. Len(q) /\ Len(q) \in Nat
      BY <2>2, Entries
    <3> HIDE DEF q
    <3>2. i <= m
      BY <2>3, <2>4 DEF Orderly
    <3> QED
      BY <3>1, <3>2, LimiterAssumption, SMT DEF Messages
  <2>7. CASE detached
    <3>1. k = flush /\ q = held
      BY <1>1, <2>1, <2>7, NothingQueued DEF Live
    <3>2. Places(m) = {}
      BY <1>1, <2>7 DEF Places, At
    <3>3. HeldPlaces(m) = {i}
      BY <2>4, <2>5, <3>1 DEF HeldPlaces
    <3> QED
      BY <3>2, <3>3, PlacesFinite
  <2>8. CASE ~detached
    <3>1. q = queues[k] /\ held = <<>>
      BY <1>1, <2>8 DEF Live
    <3>2. HeldPlaces(m) = {}
      BY <3>1 DEF HeldPlaces
    <3>3. ASSUME NEW l \in Keys, NEW j \in DOMAIN queues[l], queues[l][j].id = m
          PROVE  l = k /\ j = i
      <4>1. m \in Ids(queues[l]) /\ Live(l) = queues[l]
        BY <1>3, <2>8, <3>3 DEF Live
      <4>2. l = k
        BY <2>1, <4>1 DEF LimiterInv, FateInv
      <4> QED
        BY <2>5, <3>1, <3>3, <4>2
    <3>4. Places(m) = {<<k, i>>}
      <4>1. <<k, i>> \in Places(m)
        BY <2>4, <2>6, <3>1 DEF Places, At
      <4>2. ASSUME NEW p \in Places(m) PROVE p = <<k, i>>
        <5>1. /\ p = <<p[1], p[2]>> /\ p[1] \in Keys
              /\ p[2] \in DOMAIN queues[p[1]] /\ queues[p[1]][p[2]].id = m
          BY DEF Places, At
        <5>2. p[1] = k /\ p[2] = i
          BY <3>3, <5>1
        <5> QED
          BY <5>1, <5>2
      <4> QED
        BY <4>1, <4>2
    <3>5. Cardinality({<<k, i>>}) = 1 /\ Cardinality({}) = 0
      BY PlacesFinite, Zenon
    <3>6. Cardinality(Places(m)) = 1 /\ Cardinality(HeldPlaces(m)) = 0
      BY <3>2, <3>4, <3>5, Zenon
    <3> QED
      BY <3>6
  <2> QED
    BY <2>7, <2>8
<1> QED
  BY <1>5, <1>6

\* No message is lost or doubled inside the limiter, not even when the stop
\* takes the array of a flush off the Map.
THEOREM LimiterAccounted == Spec => []Accounted
<1>1. LimiterInv => Accounted
  BY OnOneQueue DEF Accounted
<1> QED
  BY <1>1, LimiterInvariant, PTL

\* What Discord has acknowledged is on screen and is not posted again: no
\* queue holds it any more, so no flush can send it.
THEOREM LimiterAcknowledgedStays == Spec => AcknowledgedStays
<1> DEFINE Stays == \A m \in Messages : fate[m] = "sent" =>
              /\ fate'[m] = "sent"
              /\ \A k \in Keys : {i \in DOMAIN shown'[k] : shown'[k][i] = m}
                                   = {i \in DOMAIN shown[k] : shown[k][i] = m}
<1>1. ASSUME LimiterInv, [Next]_vars, NEW m \in Messages, fate[m] = "sent"
      PROVE  fate'[m] = "sent"
             /\ \A k \in Keys : {i \in DOMAIN shown'[k] : shown'[k][i] = m}
                                  = {i \in DOMAIN shown[k] : shown[k][i] = m}
  <2>0. TypeOK /\ sends \in Nat /\ Messages \subseteq Nat
    BY <1>1, Counts DEF LimiterInv
  <2>1. \A k \in Keys : m \notin Ids(Live(k))
    BY <1>1 DEF LimiterInv, FateInv
  <2>2. CASE DiscordAnswers
    <3>1. flush # NoKey /\ flush \in Keys /\ Flushed = Live(flush)
      BY <1>1, <2>0, <2>2, FlushSteps DEF TypeOK, Flushed, Live
    <3>2. Flushed \in Seq(Entry) /\ Flushed # <<>> /\ Orderly(Flushed, sends)
      BY <1>1, <3>1, FlushedQueue
    <3>3. Sending \in Ids(Flushed) /\ Sending \in Messages
      BY <2>0, <3>2, HeadIsOldest DEF Sending
    <3>4. m \notin Ids(Flushed) /\ m # Sending
      BY <2>1, <3>1, <3>3
    <3>5. PICK q \in Seq(Entry), became \in Fates, posted \in BOOLEAN :
            /\ Ids(q) = IF became = "queued" THEN Ids(Flushed) ELSE Ids(Flushed) \ {Sending}
            /\ Shows(posted)
            /\ FlushGoesOn(q, became)
      BY <1>1, <2>2, FlushSteps
    <3>6. m \notin Ids(q)
      BY <3>4, <3>5
    <3>7. fate'[m] = "sent"
      BY <1>1, <3>4, <3>5, <3>6 DEF FlushGoesOn
    <3>8. ASSUME NEW k \in Keys
          PROVE  {i \in DOMAIN shown'[k] : shown'[k][i] = m} = {i \in DOMAIN shown[k] : shown[k][i] = m}
      <4>1. shown'[k] = shown[k] \/ shown'[k] = Append(shown[k], Sending)
        BY <2>0, <3>5 DEF TypeOK, Shows
      <4> DEFINE s == shown[k]
                 t == Append(s, Sending)
      <4>2. s \in Seq(Messages)
        BY <2>0 DEF TypeOK
      <4>3. /\ Len(s) \in Nat /\ DOMAIN s = 1 .. Len(s) /\ DOMAIN t = 1 .. Len(s) + 1
            /\ \A i \in 1 .. Len(s) : t[i] = s[i]
            /\ t[Len(s) + 1] = Sending
        BY <3>3, <4>2, SMT
      <4>4. \A i : i \in 1 .. Len(s) + 1 <=> i \in 1 .. Len(s) \/ i = Len(s) + 1
        BY <4>3, SMT
      <4> HIDE DEF s, t
      <4>5. {i \in DOMAIN t : t[i] = m} = {i \in DOMAIN s : s[i] = m}
        BY <3>4, <4>3, <4>4
      <4> QED
        BY <4>1, <4>5 DEF s, t
    <3> QED
      BY <3>7, <3>8
  <2>3. ASSUME NEW k \in Keys, SendAgentMessage(k)
        PROVE  fate'[m] = "sent" /\ shown' = shown
    <3>1. m # sends + 1
      <4>1. sends + 1 > sends
        BY <2>0, SMT
      <4> QED
        BY <1>1, <4>1 DEF LimiterInv, FateInv
    <3>2. m \notin Ids(queues[k])
      <4>1. Live(k) = queues[k]
        BY <2>0, <2>3 DEF TypeOK, SendAgentMessage, Live
      <4> QED
        BY <2>1, <4>1
    <3> QED
      BY <1>1, <2>3, <3>1, <3>2 DEF SendAgentMessage
  <2>4. ASSUME NEW k \in Keys, BackoffExpires(k)
        PROVE  fate' = fate /\ shown' = shown
    BY <2>4 DEF BackoffExpires
  <2>5. CASE Clear
    BY <1>1, <2>5 DEF Clear
  <2>6. CASE UNCHANGED vars
    BY <1>1, <2>6 DEF vars
  <2> QED
    BY <1>1, <2>2, <2>3, <2>4, <2>5, <2>6 DEF Next
<1>2. LimiterInv /\ [Next]_vars => [Stays]_vars
  BY <1>1
<1> QED
  BY <1>2, LimiterInvariant, PTL DEF Spec, AcknowledgedStays

-------------------------------------------------------------------------------
(***************************************************************************)
(* The limiter implements MessageLine: the line of a key is what is on its *)
(* queue, on the Map or off it.                                            *)
(***************************************************************************)
Lines == [k \in Keys |-> Waiting(k)]

LEMMA WaitingIsLive == \A k \in Keys : Waiting(k) = Ids(Live(k)) /\ Waiting(k)' = Ids(Live(k)')
BY DEF Waiting, Live

\* An answer tries the oldest message of the line, and the last answer to an
\* array that is off the Map empties its line.
LEMMA AnswersTry ==
  ASSUME LimiterInv, DiscordAnswers
  PROVE  \E k \in Keys : Line!Try(k) \/ Line!TryLast(k)
<1>1. TypeOK /\ flush \in Keys /\ flush # NoKey /\ UNCHANGED <<stopped, salience, sends>>
  BY FlushSteps DEF LimiterInv, TypeOK
<1>2. PICK q \in Seq(Entry), became \in Fates, posted \in BOOLEAN :
        /\ Orderly(q, sends)
        /\ Ids(q) = IF became = "queued" THEN Ids(Flushed) ELSE Ids(Flushed) \ {Sending}
        /\ Shows(posted)
        /\ FlushGoesOn(q, became)
  BY FlushSteps
<1> DEFINE ends == ~HeadReady(q)
           m == Sending
<1>3. PICK k \in Keys : k = flush
  BY <1>1
<1>4. /\ flush' = IF ends THEN NoKey ELSE flush
      /\ detached' = (detached /\ ~ends)
  BY <1>2 DEF FlushGoesOn
<1>5. /\ \A l \in Keys : l # k => Lines'[l] = Lines[l]
      /\ Lines[k] = Ids(Flushed)
      /\ Lines'[k] = IF detached /\ ends THEN {} ELSE Ids(q)
  <2>1. \A l \in Keys : l # k => Live(l)' = Live(l)
    BY <1>1, <1>2, <1>3, FlushMoves
  <2>2. Live(k)' = IF detached /\ ends THEN <<>> ELSE q
    BY <1>1, <1>2, <1>3, FlushMoves
  <2>3. Live(k) = Flushed
    BY <1>3 DEF Live, Flushed
  <2>4. Ids(Live(k)') = IF detached /\ ends THEN {} ELSE Ids(q)
    BY <2>2, NothingQueued
  <2> QED
    BY <2>1, <2>3, <2>4, WaitingIsLive DEF Lines
<1>6. m \in Lines[k] /\ \A x \in Lines[k] : m <= x
  <2>1. Flushed \in Seq(Entry) /\ Flushed # <<>> /\ Orderly(Flushed, sends) /\ sends \in Nat
    BY <1>1, FlushedQueue
  <2> QED
    BY <1>5, <2>1, HeadIsOldest DEF Sending
<1>7. shown' \in {shown, [shown EXCEPT ![k] = Append(@, m)]}
  BY <1>2, <1>3 DEF Shows
<1>8. UNCHANGED {x \in Messages : salience[x] = "low"}
  BY <1>1
<1> HIDE DEF ends, m
<1>9. CASE detached /\ ends
  <2>1. Lines' = [Lines EXCEPT ![k] = {}]
    BY <1>5, <1>9 DEF Lines
  <2>2. Line!TryLast(k)
    BY <1>1, <1>3, <1>4, <1>6, <1>7, <1>8, <1>9, <2>1 DEF Line!TryLast, Line!Oldest, Lines
  <2> QED
    BY <2>2
<1>10. CASE ~(detached /\ ends)
  <2>1. Lines' \in {Lines, [Lines EXCEPT ![k] = @ \ {m}]}
    <3>1. Lines'[k] = Lines[k] \/ Lines'[k] = Lines[k] \ {m}
      BY <1>2, <1>5, <1>10 DEF m
    <3> QED
      BY <1>5, <3>1 DEF Lines
  <2>2. (IF detached' THEN flush' ELSE NoKey) = (IF detached THEN flush ELSE NoKey)
    BY <1>4, <1>10
  <2>3. Line!Try(k)
    BY <1>1, <1>6, <1>7, <1>8, <2>1, <2>2 DEF Line!Try, Line!Oldest, Lines
  <2> QED
    BY <2>3
<1> QED
  BY <1>9, <1>10

\* A message sent joins its line; the flush it may start changes no line yet.
LEMMA SendJoins ==
  ASSUME LimiterInv, NEW k \in Keys, SendAgentMessage(k)
  PROVE  Line!Join(k)
<1> DEFINE m == sends + 1
           q == Enqueue(queues[k], m)
           all == Ids(queues[k]) \cup {m}
<1>1. TypeOK /\ sends \in Nat /\ ~detached
  BY Counts DEF LimiterInv, TypeOK, SendAgentMessage
<1>2. m \in Messages
  BY <1>1, LimiterAssumption, SMT DEF SendAgentMessage, Messages
<1>3. /\ queues' = [queues EXCEPT ![k] = q]
      /\ UNCHANGED <<held, detached, stopped, salience, shown>>
      /\ sends' = m
  BY DEF SendAgentMessage
<1>4. \A l \in Keys : Live(l) = queues[l] /\ Live(l)' = queues'[l]
  BY <1>1, <1>3 DEF Live
<1>5. queues[k] \in Seq(Entry) /\ Orderly(queues[k], sends)
  BY <1>1, <1>4 DEF LimiterInv, TypeOK, KeyInv
<1>6. Ids(q) = all \/ \E x \in all : salience[x] = "low" /\ Ids(q) = all \ {x}
  BY <1>1, <1>2, <1>5, Enqueued
<1>7. all \subseteq Messages
  <2>1. \A i \in DOMAIN queues[k] : queues[k][i].id \in Messages
    BY <1>5, Entries
  <2> QED
    BY <1>2, <2>1 DEF Ids
<1>8. Lines[k] = Ids(queues[k]) /\ Lines'[k] = Ids(q) /\ \A l \in Keys : l # k => Lines'[l] = Lines[l]
  <2>1. queues'[k] = q /\ \A l \in Keys : l # k => queues'[l] = queues[l]
    BY <1>1, <1>3 DEF TypeOK
  <2> HIDE DEF q
  <2> QED
    BY <1>4, <2>1, WaitingIsLive DEF Lines
<1> HIDE DEF q
<1>9. \/ Lines' = [Lines EXCEPT ![k] = Lines[k] \cup {m}]
      \/ \E x \in (Lines[k] \cup {m}) \cap {y \in Messages : salience[y] = "low"} :
           Lines' = [Lines EXCEPT ![k] = (Lines[k] \cup {m}) \ {x}]
  <2>1. CASE Ids(q) = all
    BY <1>8, <2>1 DEF Lines
  <2>2. ASSUME NEW x \in all, salience[x] = "low", Ids(q) = all \ {x}
        PROVE  \E y \in (Lines[k] \cup {m}) \cap {y \in Messages : salience[y] = "low"} :
                 Lines' = [Lines EXCEPT ![k] = (Lines[k] \cup {m}) \ {y}]
    <3>1. x \in (Lines[k] \cup {m}) \cap {y \in Messages : salience[y] = "low"}
      BY <1>7, <1>8, <2>2
    <3>2. Lines' = [Lines EXCEPT ![k] = (Lines[k] \cup {m}) \ {x}]
      BY <1>8, <2>2 DEF Lines
    <3> QED
      BY <3>1, <3>2
  <2> QED
    BY <1>6, <2>1, <2>2
<1> QED
  BY <1>1, <1>3, <1>9 DEF Line!Join, Lines

\* The stop ends every line but that of the flush under way.
LEMMA ClearEnds ==
  ASSUME LimiterInv, Clear
  PROVE  Line!End
<1>1. TypeOK /\ ~detached /\ ~stopped /\ flush \in Keys \cup {NoKey}
  BY DEF LimiterInv, TypeOK, Clear
<1>2. /\ stopped' = TRUE /\ detached' = (flush # NoKey)
      /\ held' = IF flush = NoKey THEN <<>> ELSE queues[flush]
      /\ queues' = [k \in Keys |-> <<>>]
      /\ UNCHANGED <<flush, salience, shown, sends>>
  BY DEF Clear
<1>3. (IF detached' THEN flush' ELSE NoKey) = flush
  BY <1>2
<1>4. ASSUME NEW k \in Keys
      PROVE  Lines'[k] = IF k = flush THEN Lines[k] ELSE {}
  <2>1. Live(k) = queues[k]
    BY <1>1 DEF Live
  <2>2. Live(k)' = IF k = flush THEN queues[k] ELSE <<>>
    BY <1>2, LimiterAssumption DEF Live
  <2>3. Ids(Live(k)') = IF k = flush THEN Ids(queues[k]) ELSE {}
    BY <2>2, NothingQueued
  <2> QED
    BY <2>1, <2>3, WaitingIsLive DEF Lines
<1>5. Lines' = [k \in Keys |-> IF k = flush THEN Lines[k] ELSE {}]
  BY <1>4 DEF Lines
<1> QED
  BY <1>1, <1>2, <1>3, <1>5 DEF Line!End, Lines

\* The passing of time changes no line.
LEMMA BackoffStutters ==
  ASSUME LimiterInv, NEW k \in Keys, BackoffExpires(k)
  PROVE  UNCHANGED Line!lineVars
<1> DEFINE e == [queues[k][1] EXCEPT !.wait = FALSE]
           r == [queues[k] EXCEPT ![1] = e]
<1>1. TypeOK /\ sends \in Nat /\ ~detached /\ queues[k] \in Seq(Entry) /\ queues[k] # <<>>
  BY Counts DEF LimiterInv, TypeOK, BackoffExpires
<1>2. UNCHANGED <<flush, held, detached, stopped, salience, fate, shown, sends>>
  BY DEF BackoffExpires
<1>3. e \in Entry /\ e.id = queues[k][1].id /\ 1 \in DOMAIN queues[k]
  <2>1. queues[k][1] \in Entry /\ 1 \in DOMAIN queues[k]
    BY <1>1, TailOf, Entries
  <2> QED
    BY <2>1 DEF Entry
<1>4. queues' = [queues EXCEPT ![k] = r]
  BY <1>1, <1>3 DEF BackoffExpires
<1> HIDE DEF e
<1>5. Ids(r) = Ids(queues[k])
  BY <1>1, <1>3, HeadRewritten
<1> HIDE DEF r
<1>6. \A l \in Keys : Ids(queues'[l]) = Ids(queues[l])
  BY <1>1, <1>4, <1>5 DEF TypeOK
<1>7. \A l \in Keys : Waiting(l)' = Waiting(l)
  BY <1>1, <1>2, <1>6 DEF Waiting
<1> QED
  BY <1>2, <1>7 DEF Line!lineVars

\* Every step of the limiter is a step of the lines, or none.
LEMMA LimiterStepIsLines ==
  ASSUME LimiterInv, [Next]_vars
  PROVE  [Line!LineNext]_(Line!lineVars)
<1>1. CASE DiscordAnswers
  BY <1>1, AnswersTry DEF Line!LineNext
<1>2. CASE Clear
  BY <1>2, ClearEnds DEF Line!LineNext
<1>3. ASSUME NEW k \in Keys, SendAgentMessage(k)
      PROVE  Line!LineNext
  BY <1>3, SendJoins DEF Line!LineNext
<1>4. ASSUME NEW k \in Keys, BackoffExpires(k)
      PROVE  UNCHANGED Line!lineVars
  BY <1>4, BackoffStutters
<1>5. CASE UNCHANGED vars
  BY <1>5 DEF vars, Waiting, Line!lineVars
<1> QED
  BY <1>1, <1>2, <1>3, <1>4, <1>5 DEF Next

\* The limiter implements MessageLine: whatever is retried, refused, evicted or
\* stopped, only the oldest message of a line is posted, nothing returns to a
\* line, and only low messages make room.
THEOREM LimiterImplementsLine == Spec => LimiterIsLine
<1>1. Init => Line!LineInit
  <2> SUFFICES ASSUME Init PROVE Line!LineInit
    OBVIOUS
  <2>1. \A k \in Keys : Waiting(k) = {}
    BY NothingQueued DEF Init, Waiting
  <2>2. Messages \subseteq Nat
    BY SMT DEF Messages
  <2> QED
    BY <2>1, <2>2 DEF Init, Line!LineInit
<1> QED
  BY <1>1, LimiterStepIsLines, LimiterInvariant, PTL
     DEF Spec, LimiterIsLine, Line!LineSpec

===============================================================================

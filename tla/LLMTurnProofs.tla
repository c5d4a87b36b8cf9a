---------------------------- MODULE LLMTurnProofs ----------------------------
(***************************************************************************)
(* What a turn returns and how far the calls of a window can exceed their  *)
(* limit, for every budget, every number of retries and every provider.    *)
(***************************************************************************)
EXTENDS LLMTurn, WellFoundedInduction, TLAPS

\* The goal layer's calls leave the last intent as it was.
Clean == turn # "intent" => ~Violates(intent)

Inv == TypeOK /\ Clean

\* However far back one looks, what was answered since is recorded or part of
\* the turn under way.  (A call is recorded when its turn ends, so its record is
\* never older than its answer.)
Covered == \A age \in 0..CallWindow : UpTo(answered)[age] <= UpTo(calls)[age] + spent.calls

\* A turn began below the share of the limit at which calls stop, and has not
\* recorded anything since.
Budget ==
    /\ answered[CallWindow + 1] = 0
    /\ Covered
    /\ turn = "idle" => spent.calls = 0
    /\ turn # "idle" => /\ 10 * UpTo(calls)[CallWindow] < 8 * CallLimit
                        /\ spent.calls <= retries
    /\ 10 * (UpTo(answered)[CallWindow] - 1 - MaxRetries) < 8 * CallLimit

-------------------------------------------------------------------------------
LEMMA Limits ==
    /\ CallWindow \in Nat /\ TokenWindow \in Nat /\ MaxRetries \in Nat /\ TokenLimit \in Nat
    /\ \A cost \in Costs : cost \in Nat
BY LLMAssumption

LEMMA NoOpIsAnswer == NoOp \in Answers /\ ~Violates(NoOp)
BY DEF NoOp, Answers, Intents, Violates

\* The floor of an unresolved target is an answer that violates nothing.
LEMMA FlooredIsFine ==
    ASSUME NEW a \in Answers, ~a.repeat, NEW result \in Floored(a)
    PROVE  result \in Answers /\ ~Violates(result)
<1>1. a \in Intents /\ a.kind \in {"no_op", "send", "reply", "react"}
  BY DEF Answers, Intents
<1>2. CASE result = NoOp
  BY <1>2, NoOpIsAnswer
<1>3. CASE result = [a EXCEPT !.resolved = TRUE]
  <2>1. result \in Intents /\ result.repeat = a.repeat /\ result.resolved = TRUE
    BY <1>1, <1>3 DEF Intents
  <2> QED
    BY <2>1 DEF Answers, Violates
<1>4. CASE result = [a EXCEPT !.kind = "send", !.resolved = TRUE]
  <2>1. result \in Intents /\ result.repeat = a.repeat /\ result.resolved = TRUE
    BY <1>1, <1>4 DEF Intents
  <2> QED
    BY <2>1 DEF Answers, Violates
<1> QED
  BY <1>2, <1>3, <1>4 DEF Floored

\* Blocking a repeat before flooring a target leaves nothing that violates.
LEMMA SettledIsFine ==
    ASSUME NEW a \in Answers, NEW result \in Settled(a)
    PROVE  result \in Answers /\ ~Violates(result)
<1>1. CASE a.repeat
  BY <1>1, NoOpIsAnswer DEF Settled
<1>2. CASE ~a.repeat /\ ~a.resolved
  BY <1>2, FlooredIsFine DEF Settled
<1>3. CASE ~a.repeat /\ a.resolved
  BY <1>3 DEF Settled, Violates
<1> QED
  BY <1>1, <1>2, <1>3

\* Records stay functions of ages.
LEMMA RecordTypes ==
    ASSUME TypeOK, NEW used \in [calls : Nat, tokens : Nat]
    PROVE  /\ Cleanup(calls, CallWindow) \in [Ages(CallWindow) -> Nat]
           /\ Cleanup(tokens, TokenWindow) \in [Ages(TokenWindow) -> Nat]
           /\ [calls EXCEPT ![0] = @ + used.calls] \in [Ages(CallWindow) -> Nat]
           /\ [tokens EXCEPT ![0] = @ + used.tokens] \in [Ages(TokenWindow) -> Nat]
           /\ [answered EXCEPT ![0] = @ + 1] \in [Ages(CallWindow) -> Nat]
<1>1. /\ calls \in [Ages(CallWindow) -> Nat] /\ answered \in [Ages(CallWindow) -> Nat]
      /\ tokens \in [Ages(TokenWindow) -> Nat]
  BY DEF TypeOK
<1>2. Cleanup(calls, CallWindow) \in [Ages(CallWindow) -> Nat]
  BY <1>1 DEF Cleanup
<1>3. Cleanup(tokens, TokenWindow) \in [Ages(TokenWindow) -> Nat]
  BY <1>1 DEF Cleanup
<1>4. 0 \in Ages(CallWindow) /\ 0 \in Ages(TokenWindow)
  BY Limits DEF Ages
<1>5. \A r \in [Ages(CallWindow) -> Nat], n \in Nat :
         [r EXCEPT ![0] = @ + n] \in [Ages(CallWindow) -> Nat]
  BY <1>4
<1>6. \A r \in [Ages(TokenWindow) -> Nat], n \in Nat :
         [r EXCEPT ![0] = @ + n] \in [Ages(TokenWindow) -> Nat]
  BY <1>4
<1> QED
  BY <1>1, <1>2, <1>3, <1>5, <1>6

LEMMA AgedType ==
    ASSUME NEW window \in Nat, NEW record \in [Ages(window) -> Nat]
    PROVE  Aged(record, window) \in [Ages(window) -> Nat]
BY DEF Aged, Ages

-------------------------------------------------------------------------------
LEMMA InitInv == Init => Inv
<1> SUFFICES ASSUME Init PROVE Inv
  OBVIOUS
<1>1. Nothing(CallWindow) \in [Ages(CallWindow) -> Nat]
      /\ Nothing(TokenWindow) \in [Ages(TokenWindow) -> Nat]
  BY DEF Nothing
<1>2. TypeOK
  BY <1>1, NoOpIsAnswer, Limits DEF Init, TypeOK, Unspent
<1>3. Clean
  BY NoOpIsAnswer DEF Init, Clean
<1> QED
  BY <1>2, <1>3 DEF Inv

\* The end of a turn: well-typed usage is recorded, a fine intent returned.
LEMMA FinishInv ==
    ASSUME TypeOK, NEW used \in [calls : Nat, tokens : Nat], NEW result \in Answers,
           ~Violates(result), Finish(used, result),
           answered' \in [Ages(CallWindow) -> Nat]
    PROVE  Inv'
<1>1. calls' \in [Ages(CallWindow) -> Nat] /\ tokens' \in [Ages(TokenWindow) -> Nat]
  BY RecordTypes DEF Finish, Record
<1>2. TypeOK'
  BY <1>1 DEF TypeOK, Finish, Unspent
<1>3. Clean'
  BY DEF Finish, Clean, Violates
<1> QED
  BY <1>2, <1>3 DEF Inv

LEMMA AnswerInv ==
    ASSUME Inv, NEW a \in Answers, NEW cost \in Costs, NEW estimate \in Costs,
           Answer(a, cost, estimate)
    PROVE  Inv'
<1>1. TypeOK
  BY DEF Inv
<1>2. Answered(cost) \in [calls : Nat, tokens : Nat]
  BY <1>1, Limits DEF TypeOK, Answered
<1>3. answered' \in [Ages(CallWindow) -> Nat]
  BY <1>1, <1>2, RecordTypes DEF Answer
<1>4. CASE \E result \in Settled(a) : Finish(Answered(cost), result)
  BY <1>1, <1>2, <1>3, <1>4, SettledIsFine, FinishInv
<1>5. CASE /\ retries < MaxRetries /\ retries' = retries + 1
           /\ spent' = Answered(cost) /\ intent' = a /\ CleanedUp
           /\ UNCHANGED <<turn, priority>>
  <2>1. calls' \in [Ages(CallWindow) -> Nat] /\ tokens' \in [Ages(TokenWindow) -> Nat]
    BY <1>1, <1>2, <1>5, RecordTypes DEF CleanedUp
  <2>2. retries' \in 0..MaxRetries
    BY <1>1, <1>5, Limits DEF TypeOK
  <2>3. TypeOK'
    BY <1>1, <1>2, <1>3, <1>5, <2>1, <2>2 DEF TypeOK
  <2>4. turn' = "intent"
    BY <1>5 DEF Answer
  <2> QED
    BY <2>3, <2>4 DEF Inv, Clean
<1> QED
  BY <1>4, <1>5 DEF Answer

\* A gate that opens or refuses.
LEMMA GateInv ==
    ASSUME Inv, NEW surface \in {"intent", "goal"}, NEW estimate \in Costs,
           Begin(surface, estimate) \/ Refuse(surface, estimate)
    PROVE  Inv'
<1>1. TypeOK /\ Clean /\ turn = "idle" /\ spent \in [calls : Nat, tokens : Nat]
  BY DEF Inv, TypeOK, Begin, Refuse
<1>2. calls' \in [Ages(CallWindow) -> Nat] /\ tokens' \in [Ages(TokenWindow) -> Nat]
  BY <1>1, RecordTypes DEF Begin, Refuse, CleanedUp
<1>3. PriorityNow \in {"high", "normal", "low", "blocked"}
  BY DEF PriorityNow, PriorityAt
<1>4. CASE Begin(surface, estimate)
  <2>1. turn' = surface /\ priority' = PriorityNow /\ retries' = 0
        /\ answered' = answered /\ spent' = spent /\ intent' = intent
    BY <1>4 DEF Begin
  <2> QED
    BY <1>1, <1>2, <1>3, <2>1, Limits DEF Inv, TypeOK, Clean
<1>5. CASE Refuse(surface, estimate)
  <2>1. /\ intent' \in {NoOp, intent}
        /\ turn' = turn /\ priority' = priority /\ retries' = retries
        /\ answered' = answered /\ spent' = spent
    BY <1>5 DEF Refuse
  <2> QED
    BY <1>1, <1>2, <2>1, NoOpIsAnswer DEF Inv, TypeOK, Clean
<1> QED
  BY <1>4, <1>5

LEMMA StepInv == Inv /\ [Next]_vars => Inv'
<1> SUFFICES ASSUME Inv, [Next]_vars PROVE Inv'
  OBVIOUS
<1>1. TypeOK /\ Clean /\ spent \in [calls : Nat, tokens : Nat]
      /\ answered \in [Ages(CallWindow) -> Nat] /\ intent \in Answers
  BY DEF Inv, TypeOK
<1>2. ASSUME NEW surface \in {"intent", "goal"}, NEW estimate \in Costs,
             Begin(surface, estimate) \/ Refuse(surface, estimate)
      PROVE  Inv'
  BY <1>2, GateInv
<1>3. ASSUME NEW a \in Answers, NEW cost \in Costs, NEW estimate \in Costs,
             Answer(a, cost, estimate)
      PROVE  Inv'
  BY <1>3, AnswerInv
<1>4. CASE ProviderFails \/ \E cost \in Costs : GoalAnswer(cost)
  <2>1. PICK used \in [calls : Nat, tokens : Nat] :
          \E result \in Answers : ~Violates(result) /\ Finish(used, result)
    <3>1. CASE ProviderFails
      BY <1>1, <3>1, NoOpIsAnswer DEF ProviderFails, Clean
    <3>2. CASE \E cost \in Costs : GoalAnswer(cost)
      <4>1. PICK cost \in Costs : turn = "goal" /\ Finish(Answered(cost), intent)
        BY <3>2 DEF GoalAnswer
      <4>2. Answered(cost) \in [calls : Nat, tokens : Nat]
        BY <1>1, Limits DEF Answered
      <4>3. ~Violates(intent)
        BY <1>1, <4>1 DEF Clean
      <4> QED
        BY <1>1, <4>1, <4>2, <4>3
    <3> QED
      BY <1>4, <3>1, <3>2
  <2>2. answered' \in [Ages(CallWindow) -> Nat]
    BY <1>1, <1>4, RecordTypes DEF ProviderFails, GoalAnswer
  <2> QED
    BY <1>1, <2>1, <2>2, FinishInv
<1>5. CASE Tick
  <2>1. calls' \in [Ages(CallWindow) -> Nat] /\ tokens' \in [Ages(TokenWindow) -> Nat]
    BY <1>1, <1>5, AgedType, Limits DEF Tick, TypeOK
  <2>2. answered' \in [Ages(CallWindow) -> Nat]
    <3>1. Aged(answered, CallWindow) \in [Ages(CallWindow) -> Nat]
      BY <1>1, AgedType, Limits
    <3> QED
      BY <1>5, <3>1 DEF Tick
  <2> QED
    BY <1>1, <1>5, <2>1, <2>2 DEF Tick, Inv, TypeOK, Clean
<1>6. CASE UNCHANGED vars
  BY <1>1, <1>6 DEF vars, Inv, TypeOK, Clean
<1> QED
  BY <1>2, <1>3, <1>4, <1>5, <1>6 DEF Next

-------------------------------------------------------------------------------
LEMMA Invariant == Spec => []Inv
BY InitInv, StepInv, PTL DEF Spec

\* Every variable keeps its type.
THEOREM TypeCorrect == Spec => []TypeOK
<1>1. Inv => TypeOK
  BY DEF Inv
<1> QED
  BY Invariant, <1>1, PTL

\* action-intent-step.ts: whatever the retries bring and whether the budget
\* allows them, no near repeat and no unresolved target leaves the turn.
THEOREM TurnsReturnNoViolation == Spec => []NeverReturnsViolation
<1>1. Inv => NeverReturnsViolation
  BY DEF Inv, Clean, NeverReturnsViolation
<1> QED
  BY Invariant, <1>1, PTL

-------------------------------------------------------------------------------
\* Sums over records.  What holds at age 0 and passes from each age to the next
\* holds at every age.
LEMMA EveryAge ==
    ASSUME NEW n \in Nat, NEW S, 0 \in S,
           \A i \in 1 .. n : i - 1 \in S => i \in S
    PROVE  \A i \in 0 .. n : i \in S
<1> DEFINE Bad == {i \in 0 .. n : i \notin S}
<1> SUFFICES ASSUME Bad # {} PROVE FALSE
  OBVIOUS
<1>1. Bad \subseteq Nat
  OBVIOUS
<1>2. PICK k \in Bad : \A i \in Bad : <<i, k>> \notin OpToRel(<, Nat)
  BY <1>1, WFMin, NatLessThanWellFounded, Zenon
<1>3. \A i \in Bad : ~(i < k)
  BY <1>1, <1>2 DEF OpToRel
<1>4. k \in 0 .. n /\ k \notin S /\ k # 0
  OBVIOUS
<1>5. k \in 1 .. n /\ k - 1 \in 0 .. n /\ k - 1 < k
  BY <1>4
<1>6. k - 1 \in S
  BY <1>3, <1>5
<1> QED
  BY <1>4, <1>5, <1>6

\* s is the sum of the record r up to each age.
IsSum(s, r, n) ==
    /\ s \in [0 .. n -> Nat]
    /\ s[0] = r[0]
    /\ \A i \in 1 .. n : s[i] = r[i] + s[i - 1]

LEMMA SumExists ==
    ASSUME NEW n \in Nat, NEW r \in [0 .. n -> Nat]
    PROVE  \E s : IsSum(s, r, n)
<1> DEFINE S == {k \in Nat : \E s : IsSum(s, r, k)}
<1>1. 0 \in S
  <2>1. IsSum([i \in 0 .. 0 |-> r[0]], r, 0)
    BY DEF IsSum
  <2> QED
    BY <2>1
<1>2. ASSUME NEW k \in 1 .. n, k - 1 \in S PROVE k \in S
  <2>1. PICK s : IsSum(s, r, k - 1)
    BY <1>2
  <2> DEFINE t == [i \in 0 .. k |-> IF i = k THEN r[k] + s[k - 1] ELSE s[i]]
  <2>2. /\ \A i \in 0 .. k - 1 : s[i] \in Nat /\ r[i] \in Nat /\ t[i] = s[i]
        /\ t[k] = r[k] + s[k - 1] /\ s[k - 1] \in Nat /\ r[k] \in Nat
    BY <2>1 DEF IsSum
  <2>a. \A i \in 0 .. k : i = k \/ i \in 0 .. k - 1
    OBVIOUS
  <2>b. \A i \in 1 .. k : i - 1 \in 0 .. k - 1 /\ (i = k \/ i \in 1 .. k - 1)
    OBVIOUS
  <2>c. k \in 0 .. k /\ 0 \in 0 .. k - 1
    OBVIOUS
  <2>d. r[k] + s[k - 1] \in Nat
    BY <2>2
  <2>3. t \in [0 .. k -> Nat]
    <3>1. \A i \in 0 .. k : (IF i = k THEN r[k] + s[k - 1] ELSE s[i]) \in Nat
      BY <2>2, <2>a, <2>d
    <3> QED
      BY <3>1
  <2> HIDE DEF t
  <2>4. t[0] = r[0]
    BY <2>1, <2>2, <2>c DEF IsSum
  <2>5. \A i \in 1 .. k : t[i] = r[i] + t[i - 1]
    <3>1. ASSUME NEW i \in 1 .. k - 1 PROVE t[i] = r[i] + t[i - 1]
      <4>1. i \in 0 .. k - 1 /\ i - 1 \in 0 .. k - 1
        OBVIOUS
      <4>2. s[i] = r[i] + s[i - 1]
        BY <2>1 DEF IsSum
      <4> QED
        BY <2>2, <4>1, <4>2
    <3>2. t[k] = r[k] + t[k - 1]
      <4>1. k - 1 \in 0 .. k - 1
        OBVIOUS
      <4> QED
        BY <2>2, <4>1
    <3> QED
      BY <2>b, <3>1, <3>2
  <2>6. IsSum(t, r, k)
    BY <2>3, <2>4, <2>5 DEF IsSum
  <2> QED
    BY <2>6
<1> HIDE DEF S
<1>3. \A i \in 1 .. n : i - 1 \in S => i \in S
  BY <1>2
<1>4. \A i \in 0 .. n : i \in S
  BY <1>1, <1>3, EveryAge
<1>5. n \in S
  BY <1>4
<1> QED
  BY <1>5 DEF S

\* UpTo() is that sum.
LEMMA Sums ==
    ASSUME NEW w \in Nat, NEW r \in [Ages(w) -> Nat]
    PROVE  IsSum(UpTo(r), r, w + 1)
<1> DEFINE Eq(s) == s = [i \in DOMAIN r |-> r[i] + (IF i = 0 THEN 0 ELSE s[i - 1])]
<1>1. DOMAIN r = 0 .. w + 1 /\ r \in [0 .. w + 1 -> Nat] /\ w + 1 \in Nat
  BY DEF Ages
<1>2. PICK s : IsSum(s, r, w + 1)
  BY <1>1, SumExists
<1>3. Eq(s)
  BY <1>1, <1>2 DEF IsSum
<1>4. UpTo(r) = CHOOSE t : Eq(t)
  BY DEF UpTo
<1>5. Eq(UpTo(r))
  BY <1>3, <1>4
<1> DEFINE u == UpTo(r)
<1>6. /\ DOMAIN u = 0 .. w + 1
      /\ \A i \in 0 .. w + 1 : u[i] = r[i] + (IF i = 0 THEN 0 ELSE u[i - 1])
  BY <1>1, <1>5
<1>7. u = [i \in 0 .. w + 1 |-> u[i]]
  BY <1>1, <1>5
<1> HIDE DEF u
<1>8. u[0] = r[0] /\ \A i \in 1 .. w + 1 : u[i] = r[i] + u[i - 1]
  BY <1>1, <1>6
<1>9. \A i \in 0 .. w + 1 : u[i] \in Nat
  <2> DEFINE S == {k \in 0 .. w + 1 : u[k] \in Nat}
  <2>1. 0 \in S
    BY <1>1, <1>8
  <2>2. ASSUME NEW i \in 1 .. w + 1, i - 1 \in S PROVE i \in S
    <3>1. r[i] \in Nat /\ u[i - 1] \in Nat /\ i \in 0 .. w + 1
      BY <1>1, <2>2
    <3>2. u[i] \in Nat
      BY <1>8, <3>1
    <3> QED
      BY <3>1, <3>2
  <2> HIDE DEF S
  <2>3. \A i \in 1 .. w + 1 : i - 1 \in S => i \in S
    BY <2>2
  <2>4. \A i \in 0 .. w + 1 : i \in S
    BY <1>1, <2>1, <2>3, EveryAge
  <2> QED
    BY <2>4 DEF S
<1>10. u \in [0 .. w + 1 -> Nat]
  BY <1>7, <1>9
<1> QED
  BY <1>8, <1>10 DEF IsSum, u

\* Recording adds to the sum up to every age, ...
LEMMA SumsAdded ==
    ASSUME NEW w \in Nat, NEW r \in [Ages(w) -> Nat], NEW n \in Nat,
           NEW r1 \in [Ages(w) -> Nat], r1[0] = r[0] + n,
           \A i \in 1 .. w + 1 : r1[i] = r[i]
    PROVE  \A i \in 0 .. w + 1 : UpTo(r1)[i] = UpTo(r)[i] + n
<1> DEFINE S == {i \in 0 .. w + 1 : UpTo(r1)[i] = UpTo(r)[i] + n}
<1>1. w + 1 \in Nat
  OBVIOUS
<1>2. r[0] \in Nat /\ 0 \in 0 .. w + 1
  BY DEF Ages
<1>3. IsSum(UpTo(r), r, w + 1) /\ IsSum(UpTo(r1), r1, w + 1)
  BY <1>1, Sums
<1>4. 0 \in S
  BY <1>2, <1>3 DEF IsSum
<1>5. ASSUME NEW i \in 1 .. w + 1, i - 1 \in S PROVE i \in S
  <2>1. /\ UpTo(r1)[i] = r[i] + UpTo(r1)[i - 1] /\ UpTo(r)[i] = r[i] + UpTo(r)[i - 1]
    BY <1>1, <1>3 DEF IsSum
  <2>2. UpTo(r1)[i - 1] = UpTo(r)[i - 1] + n
    BY <1>5
  <2>3. r[i] \in Nat /\ UpTo(r)[i - 1] \in Nat /\ i \in 0 .. w + 1
    <3>1. i \in 0 .. w + 1 /\ i - 1 \in 0 .. w + 1
      OBVIOUS
    <3> QED
      BY <3>1, <1>3 DEF IsSum, Ages
  <2> QED
    BY <2>1, <2>2, <2>3
<1> HIDE DEF S
<1>6. \A i \in 1 .. w + 1 : i - 1 \in S => i \in S
  BY <1>5
<1>7. \A i \in 0 .. w + 1 : i \in S
  BY <1>1, <1>4, <1>6, EveryAge
<1> QED
  BY <1>7 DEF S

\* ... cleanup() only takes away what is past the window, ...
LEMMA SumsCleaned ==
    ASSUME NEW w \in Nat, NEW r \in [Ages(w) -> Nat]
    PROVE  /\ Cleanup(r, w) \in [Ages(w) -> Nat] /\ Cleanup(r, w)[w + 1] = 0
           /\ \A i \in 0 .. w : UpTo(Cleanup(r, w))[i] = UpTo(r)[i]
           /\ Total(Cleanup(r, w), w) = UpTo(r)[w]
<1> DEFINE r1 == Cleanup(r, w)
           S == {i \in 0 .. w : UpTo(r1)[i] = UpTo(r)[i]}
<1>1. /\ r1 \in [Ages(w) -> Nat] /\ r1[w + 1] = 0
      /\ \A i \in 0 .. w : r1[i] = r[i]
  BY DEF Cleanup, Ages
<1> HIDE DEF r1
<1>2. IsSum(UpTo(r), r, w + 1) /\ IsSum(UpTo(r1), r1, w + 1)
  BY <1>1, Sums
<1>3. 0 \in S
  BY <1>1, <1>2 DEF IsSum
<1>4. ASSUME NEW i \in 1 .. w, i - 1 \in S PROVE i \in S
  <2>1. i \in 1 .. w + 1 /\ i \in 0 .. w
    OBVIOUS
  <2>2. UpTo(r1)[i] = r1[i] + UpTo(r1)[i - 1] /\ UpTo(r)[i] = r[i] + UpTo(r)[i - 1]
    BY <2>1, <1>2 DEF IsSum
  <2> QED
    BY <1>1, <1>4, <2>1, <2>2
<1> HIDE DEF S
<1>5. \A i \in 1 .. w : i - 1 \in S => i \in S
  BY <1>4
<1>6. \A i \in 0 .. w : i \in S
  BY <1>3, <1>5, EveryAge
<1>7. \A i \in 0 .. w : UpTo(r1)[i] = UpTo(r)[i]
  BY <1>6 DEF S
<1>8. Total(r1, w) = UpTo(r)[w]
  <2>1. w + 1 \in 1 .. w + 1 /\ (w + 1) - 1 = w /\ w \in 0 .. w /\ w \in 0 .. w + 1
    OBVIOUS
  <2>2. UpTo(r1)[w + 1] = 0 + UpTo(r1)[w] /\ UpTo(r1)[w] \in Nat
    BY <1>1, <1>2, <2>1 DEF IsSum
  <2> QED
    BY <1>7, <2>1, <2>2 DEF Total
<1> QED
  BY <1>1, <1>7, <1>8 DEF r1

\* ... and when time passes they are what they were an age before.
LEMMA SumsAged ==
    ASSUME NEW w \in Nat, NEW r \in [Ages(w) -> Nat]
    PROVE  /\ Aged(r, w) \in [Ages(w) -> Nat]
           /\ UpTo(Aged(r, w))[0] = 0
           /\ \A i \in 1 .. w : UpTo(Aged(r, w))[i] = UpTo(r)[i - 1]
<1> DEFINE r1 == Aged(r, w)
           S == {i \in 0 .. w : i = 0 \/ UpTo(r1)[i] = UpTo(r)[i - 1]}
<1>1. /\ r1 \in [Ages(w) -> Nat] /\ r1[0] = 0
  BY AgedType DEF Aged, Ages
<1>2. ASSUME NEW i \in 1 .. w PROVE r1[i] = r[i - 1]
  <2>1. i \in Ages(w) /\ i # 0 /\ i # w + 1 /\ i - 1 \in Ages(w)
    BY DEF Ages
  <2>2. r1[i] = r[i - 1] + 0 /\ r[i - 1] \in Nat
    BY <2>1 DEF Aged
  <2> QED
    BY <2>2
<1> HIDE DEF r1
<1>3. IsSum(UpTo(r), r, w + 1) /\ IsSum(UpTo(r1), r1, w + 1)
  BY <1>1, Sums
<1>4. UpTo(r1)[0] = 0
  BY <1>1, <1>3 DEF IsSum
<1>5. ASSUME NEW i \in 1 .. w, i - 1 \in S PROVE i \in S
  <2>1. i \in 1 .. w + 1 /\ i \in 0 .. w
    OBVIOUS
  <2>2. UpTo(r1)[i] = r[i - 1] + UpTo(r1)[i - 1]
    BY <2>1, <1>2, <1>3 DEF IsSum
  <2>3. CASE i = 1
    <3>1. UpTo(r1)[1] = r[0] + 0 /\ r[0] \in Nat /\ UpTo(r)[0] = r[0]
      BY <1>3, <1>4, <2>2, <2>3 DEF IsSum, Ages
    <3> QED
      BY <2>1, <2>3, <3>1
  <2>4. CASE i # 1
    <3>1. i - 1 \in 1 .. w + 1 /\ i - 1 # 0
      BY <2>1, <2>4
    <3>2. UpTo(r1)[i - 1] = UpTo(r)[i - 1 - 1]
      BY <1>5, <3>1
    <3>3. UpTo(r)[i - 1] = r[i - 1] + UpTo(r)[i - 1 - 1]
      BY <1>3, <3>1 DEF IsSum
    <3> QED
      BY <2>1, <2>2, <3>2, <3>3
  <2> QED
    BY <2>3, <2>4
<1>6. 0 \in S
  OBVIOUS
<1> HIDE DEF S
<1>7. \A i \in 1 .. w : i - 1 \in S => i \in S
  BY <1>5
<1>8. \A i \in 0 .. w : i \in S
  BY <1>6, <1>7, EveryAge
<1>9. ASSUME NEW i \in 1 .. w PROVE UpTo(r1)[i] = UpTo(r)[i - 1]
  <2>1. i \in 0 .. w /\ i # 0
    OBVIOUS
  <2> QED
    BY <1>8, <2>1 DEF S
<1> QED
  BY <1>1, <1>4, <1>9 DEF r1

LEMMA SumsOfNothing ==
    ASSUME NEW w \in Nat
    PROVE  /\ Nothing(w) \in [Ages(w) -> Nat]
           /\ \A i \in 0 .. w + 1 : UpTo(Nothing(w))[i] = 0
<1> DEFINE r == Nothing(w)
           S == {i \in 0 .. w + 1 : UpTo(r)[i] = 0}
<1>1. r \in [Ages(w) -> Nat] /\ \A i \in 0 .. w + 1 : r[i] = 0
  BY DEF Nothing, Ages
<1> HIDE DEF r
<1>2. IsSum(UpTo(r), r, w + 1) /\ w + 1 \in Nat
  BY <1>1, Sums
<1>3. 0 \in S
  BY <1>1, <1>2 DEF IsSum
<1>4. ASSUME NEW i \in 1 .. w + 1, i - 1 \in S PROVE i \in S
  BY <1>1, <1>2, <1>4 DEF IsSum
<1> HIDE DEF S
<1>5. \A i \in 1 .. w + 1 : i - 1 \in S => i \in S
  BY <1>4
<1>6. \A i \in 0 .. w + 1 : i \in S
  BY <1>2, <1>3, <1>5, EveryAge
<1> QED
  BY <1>1, <1>6 DEF r, S

-------------------------------------------------------------------------------
\* The call budget.
LEMMA Records ==
    ASSUME TypeOK
    PROVE  /\ calls \in [Ages(CallWindow) -> Nat] /\ answered \in [Ages(CallWindow) -> Nat]
           /\ spent.calls \in Nat /\ retries \in Nat /\ retries <= MaxRetries
           /\ CallLimit \in Nat
           /\ \A i \in 0..CallWindow : UpTo(calls)[i] \in Nat /\ UpTo(answered)[i] \in Nat
           /\ \A i \in 1..CallWindow : UpTo(calls)[i - 1] <= UpTo(calls)[i]
           /\ CallWindow \in 0..CallWindow
<1>1. calls \in [Ages(CallWindow) -> Nat] /\ answered \in [Ages(CallWindow) -> Nat]
  BY DEF TypeOK
<1>2. /\ spent.calls \in Nat /\ retries \in Nat /\ retries <= MaxRetries
      /\ CallLimit \in Nat /\ CallWindow \in 0..CallWindow
  BY LLMAssumption DEF TypeOK
<1>3. IsSum(UpTo(calls), calls, CallWindow + 1) /\ IsSum(UpTo(answered), answered, CallWindow + 1)
  BY <1>1, Limits, Sums
<1>4. \A i \in 0..CallWindow : i \in 0..(CallWindow + 1)
  BY Limits
<1>5. \A i \in 0..CallWindow : UpTo(calls)[i] \in Nat /\ UpTo(answered)[i] \in Nat
  BY <1>3, <1>4 DEF IsSum
<1>6. ASSUME NEW i \in 1..CallWindow PROVE UpTo(calls)[i - 1] <= UpTo(calls)[i]
  <2>1. i \in 1..(CallWindow + 1) /\ i - 1 \in 0..CallWindow /\ i \in Ages(CallWindow)
    BY Limits DEF Ages
  <2>2. UpTo(calls)[i] = calls[i] + UpTo(calls)[i - 1] /\ calls[i] \in Nat
    BY <1>1, <1>3, <2>1 DEF IsSum
  <2> QED
    BY <1>5, <2>1, <2>2
<1> QED
  BY <1>1, <1>2, <1>5, <1>6

\* A turn begins below 80 % of the limit, whatever its priority.
LEMMA BeginsBelow ==
    ASSUME TypeOK, NEW estimate, CanCall(CallsNow, TokensNow, PriorityNow, estimate)
    PROVE  10 * UpTo(calls)[CallWindow] < 8 * CallLimit
<1>1. CallsNow = UpTo(calls)[CallWindow]
  BY Records, Limits, SumsCleaned DEF CallsNow
<1>2. CallsNow \in Nat /\ CallLimit \in Nat
  BY <1>1, Records
<1>3. PriorityNow # "blocked" /\ (PriorityNow = "low" => 10 * CallsNow < 8 * CallLimit)
  BY DEF CanCall
<1>4. PriorityNow \in {"normal", "high"} => ~(10 * CallsNow >= 8 * CallLimit)
  BY DEF PriorityNow, PriorityAt
<1>5. PriorityNow \in {"blocked", "low", "normal", "high"}
  BY DEF PriorityNow, PriorityAt
<1> QED
  BY <1>1, <1>2, <1>3, <1>4, <1>5

\* cleanup() leaves the sums of the window as they were.
LEMMA CleanupKeeps ==
    ASSUME TypeOK, CleanedUp
    PROVE  \A i \in 0..CallWindow : UpTo(calls')[i] = UpTo(calls)[i]
  BY Records, Limits, SumsCleaned DEF CleanedUp

\* An answer, or none.
LEMMA AnswerCounts ==
    ASSUME TypeOK, answered[CallWindow + 1] = 0, NEW k \in {0, 1},
           answered' = IF k = 1 THEN [answered EXCEPT ![0] = @ + 1] ELSE answered
    PROVE  /\ answered'[CallWindow + 1] = 0
           /\ \A i \in 0..CallWindow : UpTo(answered')[i] = UpTo(answered)[i] + k
<1>1. \A i \in 0..CallWindow : i \in 0..(CallWindow + 1) /\ UpTo(answered)[i] \in Nat
  BY Records, Limits
<1>2. CASE k = 0
  BY <1>1, <1>2
<1>3. CASE k = 1
  <2>1. answered' = [answered EXCEPT ![0] = answered[0] + 1]
    BY <1>3
  <2>a. /\ answered' \in [Ages(CallWindow) -> Nat] /\ answered'[0] = answered[0] + 1
        /\ \A i \in 1..(CallWindow + 1) : answered'[i] = answered[i]
    BY <2>1, Records, Limits DEF Ages
  <2>2. \A i \in 0..(CallWindow + 1) : UpTo(answered')[i] = UpTo(answered)[i] + 1
    <3>1. answered \in [Ages(CallWindow) -> Nat] /\ CallWindow \in Nat /\ 1 \in Nat
      BY Records, Limits
    <3> QED
      BY <2>1, <2>a, <3>1, SumsAdded
  <2>3. answered'[CallWindow + 1] = answered[CallWindow + 1]
    BY <2>1, Records, Limits DEF Ages
  <2> QED
    BY <1>1, <1>3, <2>2, <2>3
<1> QED
  BY <1>2, <1>3

\* The end of a turn records its calls: those answered before, and the last.
LEMMA FinishBudget ==
    ASSUME TypeOK, Budget, turn # "idle", NEW k \in {0, 1},
           answered' = (IF k = 1 THEN [answered EXCEPT ![0] = @ + 1] ELSE answered),
           NEW used, used.calls = spent.calls + k, NEW result, Finish(used, result)
    PROVE  Budget'
<1> DEFINE W == CallWindow
           C == UpTo(calls)
           A == UpTo(answered)
<1>1. /\ spent.calls \in Nat /\ retries \in Nat /\ retries <= MaxRetries /\ CallLimit \in Nat
      /\ \A i \in 0..W : C[i] \in Nat /\ A[i] \in Nat
      /\ W \in 0..W /\ W \in Nat /\ MaxRetries \in Nat
  BY Records, Limits
<1>2. \A i \in 0..W : UpTo(answered')[i] = A[i] + k
  BY AnswerCounts DEF Budget
<1>3. answered'[W + 1] = 0
  BY AnswerCounts DEF Budget
<1>4. \A i \in 0..W : UpTo(calls')[i] = C[i] + (spent.calls + k)
  <2>1. calls' = [calls EXCEPT ![0] = calls[0] + used.calls] /\ used.calls \in Nat
    BY <1>1 DEF Finish, Record
  <2>a. /\ calls' \in [Ages(CallWindow) -> Nat] /\ calls'[0] = calls[0] + used.calls
        /\ \A i \in 1..(CallWindow + 1) : calls'[i] = calls[i]
    <3>1. calls \in [0..(CallWindow + 1) -> Nat] /\ CallWindow \in Nat
      BY Records, Limits DEF Ages
    <3>2. 0 \in 0..(CallWindow + 1) /\ calls[0] + used.calls \in Nat
      BY <2>1, <3>1
    <3>3. \A i \in 1..(CallWindow + 1) : i \in 0..(CallWindow + 1) /\ i # 0
      BY <3>1
    <3>4. calls' \in [0..(CallWindow + 1) -> Nat]
      BY <2>1, <3>1, <3>2
    <3> QED
      BY <2>1, <3>1, <3>2, <3>3, <3>4 DEF Ages
  <2>2. \A i \in 0..(W + 1) : UpTo(calls')[i] = C[i] + used.calls
    <3>1. calls \in [Ages(CallWindow) -> Nat] /\ CallWindow \in Nat
      BY Records, Limits
    <3> QED
      BY <2>1, <2>a, <3>1, SumsAdded
  <2>3. \A i \in 0..W : i \in 0..(W + 1)
    BY <1>1
  <2> QED
    BY <2>2, <2>3
<1>5. turn' = "idle" /\ spent'.calls = 0
  BY DEF Finish, Unspent
<1>6. /\ \A i \in 0..W : A[i] <= C[i] + spent.calls
      /\ 10 * C[W] < 8 * CallLimit /\ spent.calls <= retries
  BY DEF Budget, Covered
<1> HIDE DEF C, A, W
<1>7. ASSUME NEW i \in 0..W PROVE UpTo(answered')[i] <= UpTo(calls')[i] + spent'.calls
  <2>1. C[i] \in Nat /\ A[i] \in Nat /\ A[i] <= C[i] + spent.calls
    BY <1>1, <1>6
  <2>2. UpTo(answered')[i] = A[i] + k /\ UpTo(calls')[i] = C[i] + (spent.calls + k)
    BY <1>2, <1>4
  <2> QED
    BY <1>1, <1>5, <2>1, <2>2
<1>8. 10 * (UpTo(answered')[W] - 1 - MaxRetries) < 8 * CallLimit
  <2>1. /\ UpTo(answered')[W] = A[W] + k /\ A[W] <= C[W] + spent.calls
        /\ C[W] \in Nat /\ A[W] \in Nat
    BY <1>1, <1>2, <1>6
  <2>2. A[W] + k - 1 - MaxRetries <= C[W]
    BY <1>1, <1>6, <2>1
  <2> QED
    BY <1>1, <1>6, <2>1, <2>2
<1> QED
  BY <1>3, <1>5, <1>7, <1>8 DEF Budget, Covered, W

\* A retry counts its answer and keeps it unrecorded.
LEMMA RetryBudget ==
    ASSUME TypeOK, Budget, turn = "intent", turn' = turn, NEW cost,
           answered' = [answered EXCEPT ![0] = @ + 1],
           spent' = Answered(cost), retries' = retries + 1, retries < MaxRetries, CleanedUp
    PROVE  Budget'
<1> DEFINE W == CallWindow
           C == UpTo(calls)
           A == UpTo(answered)
<1>1. /\ spent.calls \in Nat /\ retries \in Nat /\ CallLimit \in Nat
      /\ \A i \in 0..W : C[i] \in Nat /\ A[i] \in Nat
      /\ W \in 0..W /\ W \in Nat /\ MaxRetries \in Nat
  BY Records, Limits
<1>2. answered' = IF 1 = 1 THEN [answered EXCEPT ![0] = @ + 1] ELSE answered
  OBVIOUS
<1>3. /\ \A i \in 0..W : UpTo(answered')[i] = A[i] + 1
      /\ answered'[W + 1] = 0
  BY <1>2, AnswerCounts DEF Budget
<1>4. \A i \in 0..W : UpTo(calls')[i] = C[i]
  BY CleanupKeeps
<1>5. spent'.calls = spent.calls + 1
  BY DEF Answered
<1>6. /\ \A i \in 0..W : A[i] <= C[i] + spent.calls
      /\ 10 * C[W] < 8 * CallLimit /\ spent.calls <= retries
  BY DEF Budget, Covered
<1> HIDE DEF C, A, W
<1>7. ASSUME NEW i \in 0..W PROVE UpTo(answered')[i] <= UpTo(calls')[i] + spent'.calls
  <2>1. C[i] \in Nat /\ A[i] \in Nat /\ A[i] <= C[i] + spent.calls
    BY <1>1, <1>6
  <2>2. UpTo(answered')[i] = A[i] + 1 /\ UpTo(calls')[i] = C[i]
    BY <1>3, <1>4
  <2> QED
    BY <1>1, <1>5, <2>1, <2>2
<1>8. 10 * (UpTo(answered')[W] - 1 - MaxRetries) < 8 * CallLimit
  <2>1. /\ UpTo(answered')[W] = A[W] + 1 /\ A[W] <= C[W] + spent.calls
        /\ C[W] \in Nat /\ A[W] \in Nat
    BY <1>1, <1>3, <1>6
  <2>2. A[W] + 1 - 1 - MaxRetries <= C[W]
    BY <1>1, <1>6, <2>1
  <2> QED
    BY <1>1, <1>6, <2>1, <2>2
<1>9. 10 * UpTo(calls')[W] < 8 * CallLimit /\ spent'.calls <= retries'
  BY <1>1, <1>4, <1>5, <1>6
<1> QED
  BY <1>3, <1>7, <1>8, <1>9 DEF Budget, Covered, W

\* Time moves every sum on by one age.
LEMMA TickBudget ==
    ASSUME TypeOK, Budget, Tick
    PROVE  Budget'
<1> DEFINE W == CallWindow
           C == UpTo(calls)
           A == UpTo(answered)
<1>1. /\ spent.calls \in Nat /\ retries \in Nat /\ CallLimit \in Nat
      /\ \A i \in 0..W : C[i] \in Nat /\ A[i] \in Nat
      /\ \A i \in 1..W : C[i - 1] <= C[i]
      /\ W \in 0..W /\ W \in Nat /\ MaxRetries \in Nat
      /\ calls \in [Ages(W) -> Nat] /\ answered \in [Ages(W) -> Nat]
  BY Records, Limits
<1>2. /\ UpTo(calls')[0] = 0
      /\ \A i \in 1..W : UpTo(calls')[i] = C[i - 1]
  BY <1>1, SumsAged DEF Tick
<1>3. /\ answered'[W + 1] = 0
      /\ UpTo(answered')[0] = 0
      /\ \A i \in 1..W : UpTo(answered')[i] = A[i - 1]
  <2> DEFINE a == Aged(answered, W)
  <2>1. /\ a \in [Ages(W) -> Nat] /\ UpTo(a)[0] = 0
        /\ \A i \in 1..W : UpTo(a)[i] = A[i - 1]
    BY <1>1, SumsAged
  <2>2. answered' = Cleanup(a, W)
    BY DEF Tick, Cleanup
  <2> HIDE DEF a
  <2>3. answered'[W + 1] = 0 /\ \A i \in 0..W : UpTo(answered')[i] = UpTo(a)[i]
    BY <1>1, <2>1, <2>2, SumsCleaned
  <2>4. 0 \in 0..W /\ \A i \in 1..W : i \in 0..W
    BY <1>1
  <2> QED
    BY <2>1, <2>3, <2>4
<1>4. spent' = spent /\ retries' = retries /\ turn' = turn
  BY DEF Tick
<1>5. \A i \in 0..W : A[i] <= C[i] + spent.calls
  BY DEF Budget, Covered
<1>6. /\ turn = "idle" => spent.calls = 0
      /\ turn # "idle" => 10 * C[W] < 8 * CallLimit /\ spent.calls <= retries
      /\ 10 * (A[W] - 1 - MaxRetries) < 8 * CallLimit
  BY DEF Budget
<1>7. \A i \in 1..W : A[i - 1] <= A[i]
  <2>1. IsSum(UpTo(answered), answered, W + 1)
    BY <1>1, Sums
  <2>2. ASSUME NEW i \in 1..W PROVE A[i - 1] <= A[i]
    <3>1. i \in 1..(W + 1) /\ i - 1 \in 0..W /\ i \in Ages(W)
      BY <1>1 DEF Ages
    <3>2. A[i] = answered[i] + A[i - 1] /\ answered[i] \in Nat
      BY <1>1, <2>1, <3>1 DEF IsSum
    <3> QED
      BY <1>1, <3>1, <3>2
  <2> QED
    BY <2>2
<1>8. 0 < CallLimit
  BY LLMAssumption
<1> HIDE DEF C, A, W
<1>9. \A i \in 0..W : i = 0 \/ (i \in 1..W /\ i - 1 \in 0..W)
  BY <1>1
<1>10. ASSUME NEW i \in 0..W
       PROVE  /\ UpTo(answered')[i] <= UpTo(calls')[i] + spent.calls
              /\ UpTo(calls')[i] \in Nat /\ UpTo(calls')[i] <= C[i]
              /\ UpTo(answered')[i] \in Nat /\ UpTo(answered')[i] <= A[i]
  <2>1. CASE i = 0
    BY <2>1, <1>1, <1>2, <1>3
  <2>2. CASE i \in 1..W /\ i - 1 \in 0..W
    BY <2>2, <1>1, <1>2, <1>3, <1>5, <1>7
  <2> QED
    BY <2>1, <2>2, <1>9
<1>11. 10 * (UpTo(answered')[W] - 1 - MaxRetries) < 8 * CallLimit
  <2>1. UpTo(answered')[W] \in Nat /\ UpTo(answered')[W] <= A[W] /\ A[W] \in Nat
    BY <1>1, <1>10
  <2> QED
    BY <1>1, <1>6, <2>1
<1>12. turn # "idle" => 10 * UpTo(calls')[W] < 8 * CallLimit
  <2>1. UpTo(calls')[W] \in Nat /\ UpTo(calls')[W] <= C[W] /\ C[W] \in Nat
    BY <1>1, <1>10
  <2> QED
    BY <1>1, <1>6, <2>1
<1> QED
  BY <1>3, <1>4, <1>6, <1>10, <1>11, <1>12 DEF Budget, Covered, W

LEMMA InitBudget == Init => Budget
<1> SUFFICES ASSUME Init PROVE Budget
  OBVIOUS
<1>1. /\ CallWindow \in Nat /\ MaxRetries \in Nat /\ CallLimit \in Nat /\ CallLimit > 0
      /\ CallWindow \in 0..CallWindow
  BY LLMAssumption
<1>2. /\ calls = Nothing(CallWindow) /\ answered = Nothing(CallWindow)
      /\ turn = "idle" /\ spent.calls = 0
  BY DEF Init, Unspent
<1>3. \A i \in 0..CallWindow : UpTo(Nothing(CallWindow))[i] = 0
  <2>1. \A i \in 0..CallWindow : i \in 0..(CallWindow + 1)
    BY <1>1
  <2> QED
    BY <1>1, <2>1, SumsOfNothing
<1>4. answered[CallWindow + 1] = 0
  BY <1>1, <1>2 DEF Nothing, Ages
<1> QED
  BY <1>1, <1>2, <1>3, <1>4 DEF Budget, Covered

LEMMA StepBudget == Inv /\ Budget /\ [Next]_vars => Budget'
<1> SUFFICES ASSUME Inv, Budget, [Next]_vars PROVE Budget'
  OBVIOUS
<1>1. TypeOK /\ spent.calls \in Nat /\ CallWindow \in 0..CallWindow
  BY Records DEF Inv
<1>2. ASSUME NEW surface \in {"intent", "goal"}, NEW estimate \in Costs,
             Begin(surface, estimate)
      PROVE  Budget'
  <2>1. /\ turn = "idle" /\ turn' # "idle" /\ answered' = answered /\ spent' = spent
        /\ retries' = 0 /\ CleanedUp
    BY <1>2 DEF Begin
  <2>2. \A i \in 0..CallWindow : UpTo(calls')[i] = UpTo(calls)[i]
    BY <1>1, <2>1, CleanupKeeps
  <2>3. 10 * UpTo(calls)[CallWindow] < 8 * CallLimit
    BY <1>1, <1>2, BeginsBelow DEF Begin
  <2> QED
    BY <1>1, <2>1, <2>2, <2>3 DEF Budget, Covered
<1>3. ASSUME NEW surface \in {"intent", "goal"}, NEW estimate \in Costs,
             Refuse(surface, estimate)
      PROVE  Budget'
  <2>1. turn = "idle" /\ turn' = turn /\ answered' = answered /\ spent' = spent /\ CleanedUp
    BY <1>3 DEF Refuse
  <2>2. \A i \in 0..CallWindow : UpTo(calls')[i] = UpTo(calls)[i]
    BY <1>1, <2>1, CleanupKeeps
  <2> QED
    BY <1>1, <2>1, <2>2 DEF Budget, Covered
<1>4. ASSUME NEW a \in Answers, NEW cost \in Costs, NEW estimate \in Costs,
             Answer(a, cost, estimate)
      PROVE  Budget'
  <2>1. turn = "intent" /\ answered' = [answered EXCEPT ![0] = @ + 1]
    BY <1>4 DEF Answer
  <2>2. CASE \E result \in Settled(a) : Finish(Answered(cost), result)
    <3>1. Answered(cost).calls = spent.calls + 1
      BY DEF Answered
    <3>2. answered' = IF 1 = 1 THEN [answered EXCEPT ![0] = @ + 1] ELSE answered
      BY <2>1
    <3>3. PICK result \in Settled(a) : Finish(Answered(cost), result)
      BY <2>2
    <3> QED
      BY <1>1, <2>1, <3>1, <3>2, <3>3, FinishBudget
  <2>3. CASE /\ retries < MaxRetries /\ retries' = retries + 1
             /\ spent' = Answered(cost) /\ CleanedUp /\ turn' = turn
    BY <1>1, <2>1, <2>3, RetryBudget
  <2> QED
    BY <1>4, <2>2, <2>3 DEF Answer
<1>5. ASSUME NEW cost \in Costs, GoalAnswer(cost) PROVE Budget'
  <2>1. /\ turn # "idle" /\ Finish(Answered(cost), intent)
        /\ answered' = IF 1 = 1 THEN [answered EXCEPT ![0] = @ + 1] ELSE answered
        /\ Answered(cost).calls = spent.calls + 1
    BY <1>5 DEF GoalAnswer, Answered
  <2> QED
    BY <1>1, <2>1, FinishBudget
<1>6. CASE ProviderFails
  <2>1. PICK result : Finish(spent, result)
    BY <1>6 DEF ProviderFails
  <2>2. turn # "idle" /\ answered' = IF 0 = 1 THEN [answered EXCEPT ![0] = @ + 1] ELSE answered
    BY <1>6 DEF ProviderFails
  <2>3. spent.calls = spent.calls + 0
    BY <1>1
  <2> QED
    BY <1>1, <2>1, <2>2, <2>3, FinishBudget
<1>7. CASE Tick
  BY <1>1, <1>7, TickBudget
<1>8. CASE UNCHANGED vars
  BY <1>8 DEF vars, Budget, Covered
<1> QED
  BY <1>2, <1>3, <1>4, <1>5, <1>6, <1>7, <1>8 DEF Next

\* llm-budget.ts, action-intent-step.ts: a sliding window sees at most the
\* calls that were recorded below 80 % of its limit and those of one turn, which
\* are checked before they are recorded.
THEOREM CallsOfWindowBounded == Spec => []CallsBounded
<1>1. Spec => [](Inv /\ Budget)
  BY InitInv, StepInv, InitBudget, StepBudget, PTL DEF Spec
<1>2. Inv /\ Budget => CallsBounded
  <2> SUFFICES ASSUME Inv, Budget PROVE CallsBounded
    OBVIOUS
  <2>1. IsSum(UpTo(answered), answered, CallWindow + 1) /\ CallWindow \in Nat
    BY Limits, Sums DEF Inv, TypeOK
  <2>2. /\ CallWindow + 1 \in 1..(CallWindow + 1) /\ (CallWindow + 1) - 1 = CallWindow
        /\ CallWindow \in 0..(CallWindow + 1)
    BY <2>1
  <2>3. Total(answered, CallWindow) = 0 + UpTo(answered)[CallWindow]
        /\ UpTo(answered)[CallWindow] \in Nat
    BY <2>1, <2>2 DEF Total, IsSum, Budget
  <2> QED
    BY <2>3 DEF CallsBounded, Budget
<1> QED
  BY <1>1, <1>2, PTL
===============================================================================

--------------------------- MODULE GoalRegistryProofs ---------------------------
(***************************************************************************)
(* The goal layer's safety properties for every set of goals, every number *)
(* of crashes and every delay of an ending offer.                          *)
(*                                                                         *)
(* A review changes the registry before its events are appended, so none   *)
(* of them is inductive alone: BatchFits says what the events that wait to *)
(* be appended have to do with the registry that already contains them.    *)
(***************************************************************************)
EXTENDS GoalRegistry, TLAPS

\* While a review's events wait, the registry already has what they accept, is
\* free of what they propose as goals, and holds their offer, which the log
\* lacks; and if nothing failed before, it is what the log will replay to.
BatchFits ==
    phase = "append" =>
        /\ batch.accepted \subseteq registry.goals
        /\ batch.proposed \cap registry.goals = {}
        /\ batch.offer # None => registry.pending = batch.offer /\ log.pending = None
        /\ ~lost => registry = Replay(log, batch, pulse)

Inv == TypeOK /\ RegistryIsReplay /\ NeverBehindTheLog /\ SelfVerdictsOfGoals /\ BatchFits

-------------------------------------------------------------------------------
\* A review's registry, field by field: the proposals are the new ones.
LEMMA ReviewedIs ==
    ASSUME registry \in Registry, NEW accepted, NEW proposed, NEW reached
    PROVE  Reviewed(accepted, proposed, reached) =
               [proposals |-> proposed, goals |-> registry.goals \cup accepted,
                reached |-> (registry.reached \ (registry.goals \cup accepted)) \cup reached,
                pending |-> registry.pending, since |-> registry.since]
<1> DEFINE d == Decided(registry, accepted)
           goals == registry.goals \cup accepted
<1>1. d = [proposals |-> {}, goals |-> goals, reached |-> registry.reached,
           pending |-> registry.pending, since |-> registry.since]
  <2>1. d \in [proposals : {{}}, goals : {goals}, reached : {registry.reached},
               pending : {registry.pending}, since : {registry.since}]
    BY DEF Decided, Registry
  <2> QED
    BY <2>1
<1> HIDE DEF d
<1> DEFINE e == [d EXCEPT !.proposals = @ \cup proposed, !.reached = (@ \ goals) \cup reached]
<1>2. e \in [proposals : {proposed}, goals : {goals},
             reached : {(registry.reached \ goals) \cup reached},
             pending : {registry.pending}, since : {registry.since}]
  BY <1>1
<1>3. Reviewed(accepted, proposed, reached) = e
  BY DEF Reviewed, d
<1> HIDE DEF e
<1> QED
  BY <1>2, <1>3

\* A replay of well-typed events is a registry.
LEMMA ReplayType ==
    ASSUME NEW r \in Registry, NEW b \in Batch, NEW at \in 0..MaxPulse
    PROVE  Replay(r, b, at) \in Registry
BY DEF Replay, Registry, Batch

LEMMA EmptyTypes == Empty \in Registry /\ NoEvents \in Batch
BY GoalAssumption DEF Empty, NoEvents, Registry, Batch

-------------------------------------------------------------------------------
LEMMA InitInv == Init => Inv
<1> SUFFICES ASSUME Init PROVE Inv
  OBVIOUS
<1>1. TypeOK
  <2>1. pulse \in 0..MaxPulse /\ crashes \in 0..MaxCrashes /\ age \in Int /\ offers \in Nat
    BY GoalAssumption DEF Init
  <2>2. {delivered, ended, lost} \subseteq BOOLEAN
    BY Zenon DEF Init
  <2> QED
    BY <2>1, <2>2, EmptyTypes DEF Init, TypeOK
<1>2. RegistryIsReplay /\ NeverBehindTheLog /\ SelfVerdictsOfGoals /\ BatchFits
  BY DEF Init, RegistryIsReplay, NeverBehindTheLog, SelfVerdictsOfGoals, BatchFits, Empty
<1> QED
  BY <1>1, <1>2 DEF Inv

\* A review with no offer pending.
LEMMA ReviewInv ==
    ASSUME Inv, phase = "review", registry.pending = None,
           NEW accepted \in SUBSET registry.proposals,
           NEW proposed \in SUBSET MayPropose(Decided(registry, accepted)),
           NEW reached \in SUBSET (registry.goals \cup accepted),
           NEW heard \in SUBSET (registry.goals \cup accepted),
           NEW offer \in (registry.goals \cup accepted) \cup {None},
           Review(accepted, proposed, reached, offer, heard)
    PROVE  Inv'
<1> DEFINE goals == registry.goals \cup accepted
           kept == (registry.reached \ goals) \cup reached
<1>1. /\ TypeOK /\ RegistryIsReplay /\ NeverBehindTheLog /\ SelfVerdictsOfGoals
      /\ registry \in Registry /\ log \in Registry
  BY DEF Inv, TypeOK
<1>2. Reviewed(accepted, proposed, reached) =
         [proposals |-> proposed, goals |-> goals, reached |-> kept,
          pending |-> None, since |-> registry.since]
  BY <1>1, ReviewedIs
<1>3. /\ registry.proposals \subseteq Goals /\ registry.goals \subseteq Goals
      /\ registry.reached \subseteq Goals /\ registry.since \in 0..MaxPulse
      /\ accepted \subseteq Goals /\ goals \subseteq Goals
  BY <1>1 DEF Registry
<1>4. proposed \subseteq Goals /\ proposed \cap goals = {}
  <2>1. Decided(registry, accepted).goals = goals
    BY <1>1 DEF Decided, Registry
  <2> QED
    BY <2>1 DEF MayPropose
<1>5. registry' = [proposals |-> proposed, goals |-> goals, reached |-> kept,
                   pending |-> offer,
                   since |-> IF offer = None THEN registry.since ELSE pulse]
  <2> DEFINE r == Reviewed(accepted, proposed, reached)
             offered == [r EXCEPT !.pending = offer, !.since = pulse]
  <2>1. registry' = IF offer = None THEN r ELSE offered
    BY DEF Review
  <2>2. r = [proposals |-> proposed, goals |-> goals, reached |-> kept,
             pending |-> None, since |-> registry.since]
    BY <1>2
  <2> HIDE DEF r
  <2>3. offered \in [proposals : {proposed}, goals : {goals}, reached : {kept},
                     pending : {offer}, since : {pulse}]
    BY <2>2
  <2> HIDE DEF offered
  <2> QED
    BY <2>1, <2>2, <2>3
<1>6. batch' = [accepted |-> accepted, declined |-> registry.proposals \ accepted,
                proposed |-> proposed, judged |-> goals, reached |-> reached, offer |-> offer]
  BY <1>2 DEF Review
<1>7. log' = log /\ offers' = offers /\ lost' = lost /\ pulse' = pulse
  BY DEF Review
<1>8. log.pending = None /\ offers = 0
  BY <1>1 DEF NeverBehindTheLog
<1>9. ~lost => registry = log
  BY <1>1 DEF RegistryIsReplay
<1>10. TypeOK'
  <2>1. registry' \in Registry
    BY <1>1, <1>3, <1>4, <1>5 DEF Registry, TypeOK
  <2>2. batch' \in Batch
    BY <1>3, <1>4, <1>6 DEF Batch
  <2>3. self' \subseteq Goals /\ owed' \in Goals \cup {None} /\ age' \in Int
        /\ phase' \in {"append", "persist"}
    BY <1>1, <1>3 DEF Review, TypeOK
  <2> QED
    BY <1>1, <2>1, <2>2, <2>3 DEF TypeOK, Review
<1>11. NeverBehindTheLog'
  <2>1. registry'.goals = goals /\ registry'.proposals = proposed
    BY <1>5
  <2>2. log.goals \subseteq registry.goals /\ log.goals \cap log.proposals = {}
    BY <1>1 DEF NeverBehindTheLog
  <2> QED
    BY <1>4, <1>7, <1>8, <2>1, <2>2 DEF NeverBehindTheLog
<1>12. SelfVerdictsOfGoals'
  <2>1. self' = self \cup heard
    BY DEF Review
  <2>2. registry'.goals = goals
    BY <1>5
  <2> QED
    BY <1>1, <2>1, <2>2 DEF SelfVerdictsOfGoals
<1>13. ~lost => registry' = Replay(log, batch', pulse)
  BY <1>1, <1>5, <1>6, <1>8, <1>9 DEF Replay, Registry
<1>14. RegistryIsReplay'
  <2> SUFFICES ASSUME phase' = "persist", ~lost PROVE registry' = log
    BY <1>7, <1>10 DEF Review, RegistryIsReplay, TypeOK
  <2>1. batch' = NoEvents
    BY DEF Review
  <2>2. /\ accepted = {} /\ registry.proposals = {} /\ proposed = {} /\ goals = {}
        /\ reached = {} /\ offer = None
    BY <1>6, <2>1 DEF NoEvents
  <2> QED
    BY <1>1, <1>5, <1>9, <2>2 DEF Registry
<1>15. BatchFits'
  <2>1. batch'.accepted \subseteq registry'.goals /\ batch'.proposed \cap registry'.goals = {}
    BY <1>4, <1>5, <1>6
  <2>2. batch'.offer = offer /\ registry'.pending = offer
    BY <1>5, <1>6
  <2>3. ~lost' => registry' = Replay(log, batch, pulse)'
    BY <1>7, <1>13 DEF Replay
  <2> QED
    BY <1>7, <1>8, <2>1, <2>2, <2>3 DEF BatchFits
<1> QED
  BY <1>10, <1>11, <1>12, <1>14, <1>15 DEF Inv

\* The commit of a review's events.
LEMMA AppendInv == ASSUME Inv, AppendEvents PROVE Inv'
<1>1. /\ TypeOK /\ RegistryIsReplay /\ NeverBehindTheLog /\ SelfVerdictsOfGoals /\ BatchFits
      /\ registry \in Registry /\ log \in Registry /\ batch \in Batch /\ pulse \in 0..MaxPulse
  BY DEF Inv, TypeOK
<1>2. phase = "append" /\ log' = Replay(log, batch, pulse) /\ registry' = registry
  BY DEF AppendEvents
<1>3. /\ batch.accepted \subseteq registry.goals /\ batch.proposed \cap registry.goals = {}
      /\ batch.offer # None => registry.pending = batch.offer /\ log.pending = None
      /\ ~lost => registry = Replay(log, batch, pulse)
  BY <1>1, <1>2 DEF BatchFits
<1>4. /\ log'.goals = log.goals \cup batch.accepted
      /\ log'.proposals = (log.proposals \ (batch.accepted \cup batch.declined)) \cup batch.proposed
      /\ log'.pending = (IF log.pending = None THEN batch.offer ELSE log.pending)
  BY <1>2 DEF Replay
<1>5. /\ log.goals \subseteq registry.goals /\ log.goals \cap log.proposals = {}
      /\ registry.goals \cap registry.proposals = {}
      /\ log.pending # None => registry.pending = log.pending
      /\ offers = (IF log.pending = None THEN 0 ELSE 1)
  BY <1>1 DEF NeverBehindTheLog
<1>6. TypeOK'
  <2>1. log' \in Registry
    BY <1>1, <1>2, ReplayType
  <2>2. offers' \in Nat /\ phase' \in {"persist", "deliver"} /\ batch' \in Batch
    BY <1>1, EmptyTypes DEF AppendEvents, TypeOK
  <2> QED
    BY <1>1, <2>1, <2>2 DEF TypeOK, AppendEvents
<1>7. NeverBehindTheLog'
  <2>1. log'.goals \subseteq registry'.goals
    BY <1>2, <1>3, <1>4, <1>5
  <2>2. log'.goals \cap log'.proposals = {}
    BY <1>3, <1>4, <1>5
  <2>3. log'.pending # None => registry'.pending = log'.pending
    BY <1>2, <1>3, <1>4, <1>5
  <2>4. offers' = (IF log'.pending = None THEN 0 ELSE 1)
    BY <1>3, <1>4, <1>5 DEF AppendEvents
  <2> QED
    BY <1>2, <1>5, <2>1, <2>2, <2>3, <2>4 DEF NeverBehindTheLog
<1>8. RegistryIsReplay' /\ BatchFits' /\ SelfVerdictsOfGoals'
  BY <1>1, <1>2, <1>3 DEF AppendEvents, RegistryIsReplay, BatchFits, SelfVerdictsOfGoals
<1> QED
  BY <1>6, <1>7, <1>8 DEF Inv

LEMMA ReviewFailsInv == ASSUME Inv, ReviewFails PROVE Inv'
<1>1. /\ TypeOK /\ NeverBehindTheLog /\ SelfVerdictsOfGoals
      /\ registry \in Registry /\ log \in Registry
  BY DEF Inv, TypeOK
<1>2. PICK accepted \in SUBSET registry.proposals :
        \E proposed \in SUBSET MayPropose(Decided(registry, accepted)) :
            \E heard \in SUBSET Decided(registry, accepted).goals :
                /\ registry' = [Decided(registry, accepted) EXCEPT !.proposals = @ \cup proposed]
                /\ self' = self \cup heard
  BY DEF ReviewFails
<1>3. PICK proposed \in SUBSET MayPropose(Decided(registry, accepted)),
           heard \in SUBSET Decided(registry, accepted).goals :
        /\ registry' = [Decided(registry, accepted) EXCEPT !.proposals = @ \cup proposed]
        /\ self' = self \cup heard
  BY <1>2
<1>4. registry' = [proposals |-> proposed, goals |-> registry.goals \cup accepted,
                   reached |-> registry.reached, pending |-> registry.pending,
                   since |-> registry.since]
  BY <1>1, <1>3 DEF Decided, Registry
<1>5. heard \subseteq registry.goals \cup accepted
  BY <1>1, <1>3 DEF Decided, Registry
<1>6. /\ proposed \subseteq Goals /\ proposed \cap (registry.goals \cup accepted) = {}
      /\ accepted \subseteq Goals
  BY <1>1 DEF MayPropose, Decided, Registry
<1>7. TypeOK'
  <2>1. registry' \in Registry
    BY <1>1, <1>4, <1>6 DEF Registry
  <2>2. self' \subseteq Goals
    BY <1>1, <1>3, <1>6, <1>5 DEF TypeOK, Registry
  <2> QED
    BY <1>1, <2>1, <2>2 DEF TypeOK, ReviewFails
<1>8. NeverBehindTheLog' /\ SelfVerdictsOfGoals'
  <2>1. registry.pending = None /\ log' = log /\ offers' = offers
    BY DEF ReviewFails
  <2>2. registry'.goals = registry.goals \cup accepted /\ registry'.proposals = proposed
        /\ registry'.pending = registry.pending
    BY <1>4
  <2> QED
    BY <1>1, <1>3, <1>6, <1>5, <2>1, <2>2 DEF NeverBehindTheLog, SelfVerdictsOfGoals
<1>9. RegistryIsReplay' /\ BatchFits'
  BY DEF ReviewFails, RegistryIsReplay, BatchFits
<1> QED
  BY <1>7, <1>8, <1>9 DEF Inv

LEMMA CrashInv == ASSUME Inv, Crash PROVE Inv'
<1>1. /\ TypeOK /\ NeverBehindTheLog /\ log \in Registry /\ log.since \in Int
      /\ log.goals \subseteq Goals
  BY DEF Inv, TypeOK, Registry
<1>2. TypeOK'
  <2>1. registry' \in Registry /\ log' \in Registry /\ batch' \in Batch
    BY <1>1, EmptyTypes DEF Crash
  <2>2. accept' \in AcceptPulses /\ offers' \in Nat /\ self' \subseteq Goals
        /\ table' \subseteq Goals
    BY <1>1 DEF TypeOK, Crash, Restored
  <2>3. phase' = "pulse" /\ owed' = None /\ pulse' \in 0..MaxPulse /\ age' \in Int
    BY <1>1, GoalAssumption DEF Crash
  <2>4. {delivered, ended, lost}' \subseteq BOOLEAN
    BY <1>1 DEF TypeOK, Crash
  <2>5. crashes' \in 0..MaxCrashes
    BY <1>1, GoalAssumption DEF TypeOK, Crash
  <2> QED
    BY <2>1, <2>2, <2>3, <2>4, <2>5 DEF TypeOK
<1>3. RegistryIsReplay' /\ NeverBehindTheLog' /\ SelfVerdictsOfGoals' /\ BatchFits'
  BY <1>1 DEF Crash, Restored, RegistryIsReplay, NeverBehindTheLog, SelfVerdictsOfGoals, BatchFits
<1> QED
  BY <1>2, <1>3 DEF Inv

\* The steps that leave registry and log alone.
LEMMA OtherInv ==
    ASSUME Inv, \/ ReviewPending \/ AppendFails \/ Deliver
                \/ \E saved \in BOOLEAN : Persist(saved)
                \/ \E due \in BOOLEAN : Pulse(due)
    PROVE  Inv'
<1>1. TypeOK /\ RegistryIsReplay /\ NeverBehindTheLog /\ SelfVerdictsOfGoals
  BY DEF Inv
<1>2. registry' = registry /\ log' = log /\ offers' = offers /\ self' = self
  BY DEF ReviewPending, AppendFails, Deliver, Persist, Pulse
<1>3. /\ accept' = accept /\ crashes' = crashes
      /\ phase' \in {"pulse", "review", "deliver", "persist"}
  BY DEF ReviewPending, AppendFails, Deliver, Persist, Pulse
<1>4. batch' \in Batch
  BY <1>1, EmptyTypes DEF TypeOK, ReviewPending, AppendFails, Deliver, Persist, Pulse
<1>5. owed' \in Goals \cup {None} /\ delivered' \in BOOLEAN
  BY <1>1 DEF TypeOK, Registry, ReviewPending, Owed, AppendFails, Deliver, Persist, Pulse
<1>6. ended' \in BOOLEAN /\ lost' \in BOOLEAN /\ table' \subseteq Goals
  BY <1>1 DEF TypeOK, ReviewPending, AppendFails, Deliver, Persist, Pulse
<1>7. pulse' \in 0..MaxPulse /\ age' \in Int
  BY <1>1, GoalAssumption DEF TypeOK, ReviewPending, AppendFails, Deliver, Persist, Pulse
<1>8. TypeOK'
  BY <1>1, <1>2, <1>3, <1>4, <1>5, <1>6, <1>7 DEF TypeOK
<1>9. NeverBehindTheLog' /\ SelfVerdictsOfGoals'
  BY <1>1, <1>2 DEF NeverBehindTheLog, SelfVerdictsOfGoals
<1>10. RegistryIsReplay' /\ BatchFits'
  BY <1>1, <1>2, <1>3
  DEF RegistryIsReplay, BatchFits, ReviewPending, AppendFails, Deliver, Persist, Pulse
<1> QED
  BY <1>8, <1>9, <1>10 DEF Inv

LEMMA StepInv == Inv /\ [Next]_vars => Inv'
<1> SUFFICES ASSUME Inv, [Next]_vars PROVE Inv'
  OBVIOUS
<1>1. CASE ReviewOpen
  BY <1>1, ReviewInv DEF ReviewOpen
<1>2. CASE ReviewFails
  BY <1>2, ReviewFailsInv
<1>3. CASE AppendEvents
  BY <1>3, AppendInv
<1>4. CASE Crash
  BY <1>4, CrashInv
<1>5. CASE \/ ReviewPending \/ AppendFails \/ Deliver
           \/ \E saved \in BOOLEAN : Persist(saved)
           \/ \E due \in BOOLEAN : Pulse(due)
  BY <1>5, OtherInv
<1>6. CASE UNCHANGED vars
  BY <1>6 DEF vars, Inv, TypeOK, RegistryIsReplay, NeverBehindTheLog, SelfVerdictsOfGoals,
              BatchFits, Replay
<1> QED
  BY <1>1, <1>2, <1>3, <1>4, <1>5, <1>6 DEF Next, Steps

-------------------------------------------------------------------------------
LEMMA Invariant == Spec => []Inv
BY InitInv, StepInv, PTL DEF Spec

\* Every variable of the goal layer keeps its type.
THEOREM TypeCorrect == Spec => []TypeOK
<1>1. Inv => TypeOK
  BY DEF Inv
<1> QED
  BY Invariant, <1>1, PTL

\* world-evaluator.ts runReview() against goal-registry.ts rebuildFromLog():
\* with no failure, a restart rebuilds exactly the registry of the process.
THEOREM RebuildIsExact == Spec => []RegistryIsReplay
<1>1. Inv => RegistryIsReplay
  BY DEF Inv
<1> QED
  BY Invariant, <1>1, PTL

\* Whatever fails, committed goals and the committed offer are in memory, a
\* goal is never a proposal too, and the log holds at most one offer.
THEOREM MemoryCoversLog == Spec => []NeverBehindTheLog
<1>1. Inv => NeverBehindTheLog
  BY DEF Inv
<1> QED
  BY Invariant, <1>1, PTL

\* No self verdict is kept for a goal the registry does not have.
THEOREM NoOrphanVerdicts == Spec => []SelfVerdictsOfGoals
<1>1. Inv => SelfVerdictsOfGoals
  BY DEF Inv
<1> QED
  BY Invariant, <1>1, PTL
===============================================================================

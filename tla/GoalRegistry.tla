----------------------------- MODULE GoalRegistry -----------------------------
(***************************************************************************)
(* The goal layer: the world review (world/world-evaluator.ts runReview()  *)
(* under pulse-scheduler.ts, which appends its events, hands an ending     *)
(* offer to the runtime and persists the self verdicts) and the registry   *)
(* it keeps in memory (world/goal-registry.ts), which a restart rebuilds   *)
(* from the log (rebuildFromLog()) and from the table of self verdicts     *)
(* (config/simulation-config.ts buildGoalLayerRuntime()).                  *)
(*                                                                         *)
(* A review changes the registry first; its events are one append, which   *)
(* may fail.  `log` is what replaying the events in the log gives: a       *)
(* replay reads them in order, so each commit moves it by one Replay.      *)
(* What a review decides (which proposals are good, what the world says,   *)
(* whether an end is earned) is arbitrary.                                 *)
(***************************************************************************)
EXTENDS Integers, FiniteSets

CONSTANTS
    Goals,         \* ids of proposals; a promoted proposal keeps its id
    None,          \* no goal
    AcceptPulses,  \* the values of config.ending.offerAcceptPulses to consider
    MaxPulse,      \* bound: pulseIndex, which then stays
    MaxCrashes     \* bound: crashes

ASSUME GoalAssumption ==
    /\ None \notin Goals
    /\ AcceptPulses \subseteq Nat
    /\ {MaxPulse, MaxCrashes} \subseteq Nat

\* The events of one review; reached are the goals whose world verdict is that.
Batch == [accepted : SUBSET Goals, declined : SUBSET Goals, proposed : SUBSET Goals,
          judged : SUBSET Goals, reached : SUBSET Goals, offer : Goals \cup {None}]

NoEvents == [accepted |-> {}, declined |-> {}, proposed |-> {},
             judged |-> {}, reached |-> {}, offer |-> None]

\* A registry: reached are the goals whose latest verdict is that, since is
\* offeredAtPulse of the pending offer.
Registry == [proposals : SUBSET Goals, goals : SUBSET Goals, reached : SUBSET Goals,
             pending : Goals \cup {None}, since : 0..MaxPulse]

Empty == [proposals |-> {}, goals |-> {}, reached |-> {}, pending |-> None, since |-> 0]

VARIABLES
    accept,     \* offerAcceptPulses
    registry,   \* GoalRegistry in memory
    log,        \* the registry that the log replays to
    offers,     \* ending_offered events in the log
    self,       \* goals with a self verdict in memory
    table,      \* the goals whose self verdicts are in the database
    phase,      \* "pulse", or where a review is: "review", "append", "deliver", "persist"
    batch,      \* the review's events
    owed,       \* the ending offer the review returned, or None
    delivered,  \* offerDelivered
    pulse,      \* pulseIndex
    age,        \* pulseIndex - offeredAtPulse, kept at accept once it is reached
    ended,      \* the runtime has been told to stop
    lost,       \* an append or a review has failed since the registry was built
    crashes

vars == <<accept, registry, log, offers, self, table, phase, batch, owed, delivered,
          pulse, age, ended, lost, crashes>>

TypeOK ==
    /\ accept \in AcceptPulses
    /\ registry \in Registry /\ log \in Registry
    /\ offers \in Nat
    /\ self \subseteq Goals /\ table \subseteq Goals
    /\ phase \in {"pulse", "review", "append", "deliver", "persist"}
    /\ batch \in Batch
    /\ owed \in Goals \cup {None}
    /\ {delivered, ended, lost} \subseteq BOOLEAN
    /\ pulse \in 0..MaxPulse
    /\ age \in Int
    /\ crashes \in 0..MaxCrashes

Init ==
    /\ accept \in AcceptPulses
    /\ registry = Empty /\ log = Empty /\ offers = 0
    /\ self = {} /\ table = {}
    /\ phase = "pulse" /\ batch = NoEvents /\ owed = None
    /\ delivered = FALSE /\ ended = FALSE /\ lost = FALSE
    /\ pulse = 0 /\ age = 0 /\ crashes = 0

-------------------------------------------------------------------------------
\* Fault: a declined proposal stays open.
DecidedKeepsDeclined(r, accepted) ==
    [r EXCEPT !.goals = @ \cup accepted, !.proposals = @ \ accepted]

\* promoteProposal() and declineProposal() for the proposals of earlier
\* reviews, then recordProposal() for new ones.
Decided(r, accepted) ==
    [r EXCEPT !.goals = @ \cup accepted, !.proposals = {}]

\* Fault: a goal that is already pursued may be proposed again.
MayProposeAnything(r) == Goals \ r.proposals

\* A new proposal is neither open nor a goal; one just declined may return.
MayPropose(r) == Goals \ (r.proposals \cup r.goals)

\* evaluateEndCondition(): reached and earned, or a plateau with no next goal.
MayEnd(r, g) == g \in r.reached \/ r.proposals = {}

\* rebuildFromLog() over one more review's events.
Replay(r, b, at) ==
    [proposals |-> (r.proposals \ (b.accepted \cup b.declined)) \cup b.proposed,
     goals |-> r.goals \cup b.accepted,
     reached |-> (r.reached \ b.judged) \cup b.reached,
     pending |-> IF r.pending = None THEN b.offer ELSE r.pending,
     since |-> IF r.pending = None /\ b.offer # None THEN at ELSE r.since]

-------------------------------------------------------------------------------
\* The review's own changes, with what it says of the goals.
Reviewed(accepted, proposed, reached) ==
    [Decided(registry, accepted) EXCEPT
        !.proposals = @ \cup proposed,
        !.reached = (@ \ (registry.goals \cup accepted)) \cup reached]

\* runReview() with no offer pending: it accepts some open proposals and
\* declines the others, proposes, judges every goal, and perhaps offers an end.
\* LLM synthesis stores self verdicts of goals it was given (heard).  An offer
\* for immediate delivery is returned to the scheduler.
Review(accepted, proposed, reached, offer, heard) ==
    LET reviewed == Reviewed(accepted, proposed, reached)
    IN  /\ offer # None => MayEnd(reviewed, offer)
        /\ registry' = IF offer = None THEN reviewed
                       ELSE [reviewed EXCEPT !.pending = offer, !.since = pulse]
        /\ batch' = [accepted |-> accepted, declined |-> registry.proposals \ accepted,
                     proposed |-> proposed, judged |-> reviewed.goals, reached |-> reached,
                     offer |-> offer]
        /\ age' = 0
        /\ self' = self \cup heard
        /\ owed' = IF accept = 0 THEN offer ELSE None
        /\ phase' = IF batch' = NoEvents THEN "persist" ELSE "append"
        /\ UNCHANGED <<accept, log, offers, table, delivered, pulse, ended, lost, crashes>>

ReviewOpen ==
    /\ phase = "review"
    /\ registry.pending = None
    /\ \E accepted \in SUBSET registry.proposals :
          LET goals == registry.goals \cup accepted
          IN  \E proposed \in SUBSET MayPropose(Decided(registry, accepted)) :
              \E reached \in SUBSET goals : \E heard \in SUBSET goals :
              \E offer \in goals \cup {None} :
                  Review(accepted, proposed, reached, offer, heard)

\* A review that throws in its synthesis, say for an agent with no provider:
\* its events are dropped, what the agents before it said of themselves stays,
\* and the pulse goes on.
ReviewFails ==
    /\ phase = "review"
    /\ registry.pending = None
    /\ \E accepted \in SUBSET registry.proposals :
          LET decided == Decided(registry, accepted)
          IN  \E proposed \in SUBSET MayPropose(decided) : \E heard \in SUBSET decided.goals :
                  /\ registry' = [decided EXCEPT !.proposals = @ \cup proposed]
                  /\ self' = self \cup heard
    /\ lost' = TRUE
    /\ phase' = "pulse"
    /\ UNCHANGED <<accept, log, offers, table, batch, owed, delivered, pulse, age, ended, crashes>>

\* Fault: an offer counts as delivered as soon as it is pending.
OwedOnce == IF delivered \/ age < accept \/ accept = 0 THEN None ELSE registry.pending

\* What runReview() returns while an offer is pending: an immediate one again
\* unless its event is in the log, any other one once, when its time has come.
Owed ==
    IF accept = 0
    THEN IF offers > 0 THEN None ELSE registry.pending
    ELSE IF delivered \/ age < accept THEN None ELSE registry.pending

\* runReview() with an offer pending: nothing else happens.
ReviewPending ==
    /\ phase = "review"
    /\ registry.pending # None
    /\ owed' = Owed
    /\ delivered' = (delivered \/ (accept > 0 /\ Owed # None))
    /\ phase' = IF Owed = None THEN "persist" ELSE "deliver"
    /\ UNCHANGED <<accept, registry, log, offers, self, table, batch, pulse, age, ended, lost, crashes>>

\* appendAndProject(): the whole batch or nothing.  An offer is handed on only
\* after its events have been committed.
AppendEvents ==
    /\ phase = "append"
    /\ log' = Replay(log, batch, pulse)
    /\ offers' = offers + (IF batch.offer = None THEN 0 ELSE 1)
    /\ phase' = IF owed = None THEN "persist" ELSE "deliver"
    /\ batch' = NoEvents
    /\ UNCHANGED <<accept, registry, self, table, owed, delivered, pulse, age, ended, lost, crashes>>

AppendFails ==
    /\ phase = "append"
    /\ phase' = "persist"
    /\ batch' = NoEvents
    /\ owed' = None
    /\ lost' = TRUE
    /\ UNCHANGED <<accept, registry, log, offers, self, table, delivered, pulse, age, ended, crashes>>

\* onEndOffered(): the runtime stops the simulation, its scheduler first.
Deliver ==
    /\ phase = "deliver"
    /\ ended' = TRUE
    /\ owed' = None
    /\ phase' = "persist"
    /\ UNCHANGED <<accept, registry, log, offers, self, table, batch, delivered, pulse, age, lost, crashes>>

\* persistRegistryState() replaces the table; a failure is contained.
Persist(saved) ==
    /\ phase = "persist"
    /\ table' = IF saved THEN self \cap registry.goals ELSE table
    /\ phase' = "pulse"
    /\ UNCHANGED <<accept, registry, log, offers, self, batch, owed, delivered, pulse, age, ended, lost, crashes>>

\* The next pulse begins; its review is due every reviewEveryPulses pulses.
Pulse(due) ==
    /\ phase = "pulse" /\ ~ended
    /\ phase' = IF due THEN "review" ELSE "pulse"
    /\ pulse' = IF pulse < MaxPulse THEN pulse + 1 ELSE pulse
    /\ age' = IF age < accept THEN age + 1 ELSE age
    /\ UNCHANGED <<accept, registry, log, offers, self, table, batch, owed, delivered, ended, lost, crashes>>

\* Fault: the table is loaded as it is.
RestoredUnfiltered == table

\* The rows of the table whose goal the log knows.
Restored == table \cap log.goals

\* The process dies anywhere and the simulation is attached again: the
\* registry is replayed, and pulseIndex and offerDelivered start afresh.
Crash ==
    /\ ~ended /\ crashes < MaxCrashes
    /\ crashes' = crashes + 1
    /\ registry' = log
    /\ self' = Restored
    /\ phase' = "pulse" /\ batch' = NoEvents /\ owed' = None
    /\ delivered' = FALSE
    /\ pulse' = 0
    /\ age' = -log.since
    /\ lost' = FALSE
    /\ UNCHANGED <<accept, log, offers, table, ended>>

Steps ==
    \/ ReviewPending \/ ReviewOpen \/ ReviewFails
    \/ AppendEvents \/ AppendFails \/ Deliver \/ \E saved \in BOOLEAN : Persist(saved)

Next ==
    \/ Steps
    \/ \E due \in BOOLEAN : Pulse(due)
    \/ Crash

Spec == Init /\ [][Next]_vars

\* While the simulation runs a review becomes due again and again, and what it
\* awaits settles.  Nothing makes an append succeed.
FairSpec == Spec /\ WF_vars(Steps) /\ WF_vars(Pulse(TRUE))

-------------------------------------------------------------------------------
\* After a review the registry is what the log replays to, as long as no append
\* and no review has failed.
RegistryIsReplay == phase # "append" /\ ~lost => registry = log

\* Whatever fails, memory never falls behind the log: goals and the offer that
\* were committed are in the registry, goals are no longer proposals, and the
\* log holds one offer at most.
NeverBehindTheLog ==
    /\ log.goals \subseteq registry.goals
    /\ \A r \in {registry, log} : r.goals \cap r.proposals = {}
    /\ log.pending # None => registry.pending = log.pending
    /\ offers = (IF log.pending = None THEN 0 ELSE 1)

\* A self verdict is one of a goal of the registry, over failed appends, failed
\* writes of the table and restarts, which forget goals that were not committed.
SelfVerdictsOfGoals == self \subseteq registry.goals

\* A pending offer ends the simulation even if its append failed, and a
\* delayed one even over crashes; it may be forgotten with a crash before its
\* append succeeded.
OfferEnds ==
    registry.pending # None ~> \/ ended
                               \/ registry.pending = None
                               \/ accept = 0 /\ crashes > 0

\* world-evaluator.ts: "offers are handed to the scheduler the pulse their
\* ending_offered event commits, so a committed event is the delivery marker".
CommittedOfferEnds == offers > 0 ~> ended
===============================================================================

------------------------------ MODULE MessageLine ------------------------------
(***************************************************************************)
(* What the Discord rate limiter promises the agents that post through it. *)
(* Each agent has a line per channel: only the oldest message of a line is *)
(* ever posted, none comes back once it has left, and when a message joins *)
(* a full line one message of low salience at most makes room.  The end of *)
(* the simulation empties every line but the one being served, which is    *)
(* served on or given up.  DiscordRateLimiter is shown to implement this   *)
(* module.                                                                 *)
(***************************************************************************)
EXTENDS Naturals, Sequences

CONSTANTS
    Keys,   \* agent and channel: one line each
    NoKey   \* no line

VARIABLES
    low,       \* the messages of low salience
    sent,      \* messages so far, numbered in the order they are sent
    waiting,   \* per line, the messages in it
    shown,     \* per line, what its channel shows
    stopped,   \* the simulation has ended
    orphan     \* the line that was being served when it ended, until it is empty

lineVars == <<low, sent, waiting, shown, stopped, orphan>>

LineInit ==
    /\ low \subseteq Nat
    /\ sent = 0
    /\ waiting = [k \in Keys |-> {}]
    /\ shown = [k \in Keys |-> <<>>]
    /\ stopped = FALSE
    /\ orphan = NoKey

\* A message joins its line, from which at most one low message, this one or
\* an older one, makes room.
Join(k) ==
    LET line == waiting[k] \cup {sent + 1}
    IN  /\ orphan = NoKey
        /\ sent' = sent + 1
        /\ \/ waiting' = [waiting EXCEPT ![k] = line]
           \/ \E m \in line \cap low : waiting' = [waiting EXCEPT ![k] = line \ {m}]
        /\ UNCHANGED <<low, shown, stopped, orphan>>

Oldest(k, m) == m \in waiting[k] /\ \A x \in waiting[k] : m <= x

\* The oldest message of a line is tried: it is posted or not, and stays to be
\* tried again or leaves for good.
Try(k) ==
    /\ \E m \in waiting[k] :
          /\ Oldest(k, m)
          /\ shown' \in {shown, [shown EXCEPT ![k] = Append(@, m)]}
          /\ waiting' \in {waiting, [waiting EXCEPT ![k] = @ \ {m}]}
    /\ UNCHANGED <<low, sent, stopped, orphan>>

\* The same for the line the end found being served, which is left by it empty.
TryLast(k) ==
    /\ orphan = k
    /\ \E m \in waiting[k] :
          /\ Oldest(k, m)
          /\ shown' \in {shown, [shown EXCEPT ![k] = Append(@, m)]}
    /\ waiting' = [waiting EXCEPT ![k] = {}]
    /\ orphan' = NoKey
    /\ UNCHANGED <<low, sent, stopped>>

\* The end of the simulation.
End ==
    /\ ~stopped
    /\ stopped' = TRUE
    /\ orphan' \in Keys \cup {NoKey}
    /\ waiting' = [k \in Keys |-> IF k = orphan' THEN waiting[k] ELSE {}]
    /\ UNCHANGED <<low, sent, shown>>

LineNext == End \/ \E k \in Keys : Join(k) \/ Try(k) \/ TryLast(k)

LineSpec == LineInit /\ [][LineNext]_lineVars
===============================================================================

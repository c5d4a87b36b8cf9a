------------------------------ MODULE MCPerception -----------------------------
(***************************************************************************)
(* An instance of Perception whose ids count in base Radix instead of 36,  *)
(* so that the counter gains digits within a few events.                   *)
(***************************************************************************)
EXTENDS Perception, SequencesExt

CONSTANT Radix

\* toString(Radix), most significant digit first.
Numeral(n) ==
    LET size == CHOOSE k \in 1 .. n : Radix^(k - 1) <= n /\ n < Radix^k
    IN  [i \in 1 .. size |-> (n \div Radix^(size - i)) % Radix]

\* The order of text.
TextLess(s, t) ==
    \/ IsStrictPrefix(s, t)
    \/ \E i \in DOMAIN s \cap DOMAIN t :
        s[i] < t[i] /\ \A j \in 1 .. (i - 1) : s[j] = t[j]

NumeralRanks ==
    [n \in 1 .. MaxIds |-> Cardinality({m \in 1 .. MaxIds : TextLess(Numeral(m), Numeral(n))})]

NumeralRank == NumeralRanks
===============================================================================

----------------------------- MODULE ClassTurns -----------------------------
(***************************************************************************)
(* The arithmetic of one admission decision of the WeightedFairLimiter     *)
(* (venue_broker/fairness.py, _select_if_idle): smooth weighted            *)
(* round-robin over the caller classes that have a caller waiting.         *)
(*                                                                         *)
(* WeightedTurns runs these operators alone, against every pattern of      *)
(* arrivals; FairLimiter runs them inside the limiter.                     *)
(***************************************************************************)
EXTENDS Integers, FiniteSetsExt

CONSTANTS
    Classes,    \* the caller classes of the policy file
    Weight,     \* the configured weight of a class
    Rank        \* the position of a class in the policy file

ASSUME ClassesAssumption ==
    /\ Classes # {}
    /\ IsFiniteSet(Classes)
    /\ Weight \in [Classes -> Nat \ {0}]
    /\ Rank \in [Classes -> Nat]
    /\ \A c, d \in Classes : Rank[c] = Rank[d] => c = d

\* Mutant of Credited: what was earned in earlier decisions is forgotten.
CreditedAfresh(scores, active) ==
    [c \in Classes |-> IF c \in active THEN Weight[c] ELSE 0]

\* Every active class earns its weight; an idle one is put back to zero.
Credited(scores, active) ==
    [c \in Classes |-> IF c \in active THEN scores[c] + Weight[c] ELSE 0]

\* Mutant of Chosen: strict priority, the heaviest active class.
ChosenByWeight(scores, active) ==
    CHOOSE c \in active : \A d \in active \ {c} :
        \/ Weight[c] > Weight[d]
        \/ Weight[c] = Weight[d] /\ Rank[c] < Rank[d]

\* The active class with the highest score; max() keeps the first of equals.
Chosen(scores, active) ==
    LET credited == Credited(scores, active)
    IN  CHOOSE c \in active : \A d \in active \ {c} :
            \/ credited[c] > credited[d]
            \/ credited[c] = credited[d] /\ Rank[c] < Rank[d]

ActiveWeight(active) == MapThenSumSet(LAMBDA c : Weight[c], active)

\* Mutant of Settled: nobody pays.
SettledUnpaid(scores, active) == Credited(scores, active)

\* The chosen class pays the weights of all the active ones.
Settled(scores, active) ==
    [Credited(scores, active) EXCEPT
        ![Chosen(scores, active)] = @ - ActiveWeight(active)]
=============================================================================

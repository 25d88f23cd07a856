--------------------------- MODULE WeightedTurns ---------------------------
(***************************************************************************)
(* The sequence of admission decisions of one WeightedFairLimiter, seen at *)
(* the level of caller classes: which classes have a caller waiting, their *)
(* scores, and who gets each turn.  Callers come, and may withdraw, in     *)
(* every order.                                                            *)
(***************************************************************************)
EXTENDS ClassTurns

CONSTANT MaxMissed      \* bound on the history counter, see Decide

VARIABLES
    scores,     \* _scores
    backlogged, \* the classes whose caller deque is not empty
    missed,     \* history: decisions a backlogged class has seen go elsewhere
    streak      \* history: turns of each class since all were last backlogged
vars == <<scores, backlogged, missed, streak>>

NoTurns == [c \in Classes |-> 0]

Init ==
    /\ scores = NoTurns
    /\ backlogged = {}
    /\ missed = NoTurns
    /\ streak = NoTurns

\* _enqueue: the first waiter of a class puts its caller in the deque.
Arrive(c) ==
    /\ c \notin backlogged
    /\ backlogged' = backlogged \cup {c}
    /\ missed' = [missed EXCEPT ![c] = 0]
    /\ UNCHANGED <<scores, streak>>

\* _abandon of the last waiter of a class: the scores are left as they are.
Withdraw(c) ==
    /\ c \in backlogged
    /\ backlogged' = backlogged \ {c}
    /\ missed' = [missed EXCEPT ![c] = 0]
    /\ streak' = NoTurns
    /\ UNCHANGED scores

\* The turns of the current run of decisions with every class backlogged, the
\* chosen one included; a round of ActiveWeight(Classes) turns starts it anew.
NextStreak(chosen) ==
    IF backlogged # Classes THEN NoTurns
    ELSE IF MapThenSumSet(LAMBDA c : streak[c], Classes) = ActiveWeight(Classes)
         THEN [NoTurns EXCEPT ![chosen] = 1]
         ELSE [streak EXCEPT ![chosen] = @ + 1]

\* _select_if_idle: one admission decision.  The chosen class keeps its place
\* in the backlog unless its last waiter was the one chosen.
Decide ==
    /\ backlogged # {}
    /\ \A c \in backlogged : missed[c] < MaxMissed
    /\ scores' = Settled(scores, backlogged)
    /\ LET chosen == Chosen(scores, backlogged)
       IN  /\ backlogged' \in {backlogged, backlogged \ {chosen}}
           /\ missed' = [c \in Classes |->
                            IF c \in backlogged \ {chosen} THEN missed[c] + 1 ELSE 0]
           /\ streak' = NextStreak(chosen)

Next ==
    \/ \E c \in Classes : Arrive(c) \/ Withdraw(c)
    \/ Decide

Spec == Init /\ [][Next]_vars
-----------------------------------------------------------------------------
RoundComplete ==
    MapThenSumSet(LAMBDA c : streak[c], Classes) = ActiveWeight(Classes)

\* The scores stay near zero: no class hoards credit, and none is charged
\* without end (fairness.py:165-171).
TypeOK ==
    /\ LET most == (Cardinality(Classes) - 1) * ActiveWeight(Classes)
       IN  scores \in [Classes -> -most .. most]
    /\ backlogged \subseteq Classes
    /\ missed \in [Classes -> 0 .. MaxMissed]
    /\ streak \in [Classes -> 0 .. ActiveWeight(Classes)]

\* No starvation, as a number of turns: while it has a caller waiting, a class
\* sees at most this many decisions go to others, whatever the others do,
\* withdraw and come back (what README.md:231 says "cannot starve" amounts to).
BoundedWait(bound) == \A c \in Classes : missed[c] <= bound[c]

\* While every class stays backlogged, each round of ActiveWeight(Classes)
\* consecutive turns gives a class its weight, give or take one turn,
\* whatever the scores carried over from before (README.md:222-226).
RoundShare ==
    RoundComplete => \A c \in Classes : streak[c] - Weight[c] \in -1 .. 1
=============================================================================

-------------------------- MODULE MCWeightedTurns --------------------------
(* The shipped policy: trading 8, standard 2, bulk 1 (caller-policy.toml). *)
EXTENDS WeightedTurns

CONSTANTS trading, standard, bulk

MCClasses == {trading, standard, bulk}
ByClass(t, s, b) ==
    [c \in MCClasses |-> CASE c = trading -> t [] c = standard -> s [] c = bulk -> b]
MCWeight == ByClass(8, 2, 1)
MCRank == ByClass(0, 1, 2)

\* With the shipped weights trading waits out at most 2 decisions, standard 10
\* and bulk 28 (fairness.py:159-171); each bound is reached.
ShippedWait == BoundedWait(ByClass(2, 10, 28))
=============================================================================

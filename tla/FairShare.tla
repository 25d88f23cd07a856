----------------------------- MODULE FairShare -----------------------------
(***************************************************************************)
(* The limiter of FairLimiter, with a history of how the turns it gives    *)
(* compare with the weights (venue_broker/fairness.py:159-171, README.md:  *)
(* 222-226).  NoteShare only watches: ShareSpec has the steps of the       *)
(* limiter and no others.                                                  *)
(***************************************************************************)
EXTENDS FairLimiter

VARIABLE shortfall      \* what a class with a caller waiting is short of
shareVars == <<vars, shortfall>>

ShareInit ==
    /\ Init
    /\ shortfall = [k \in Classes |-> 0]

\* The account of a class over one decision.  Each decision entitles it to
\* Weight[k] / ActiveWeight(Classes) of a turn, and a turn of its own is one;
\* both are counted in parts of which ActiveWeight(Classes) make a turn.
Due(k) ==
    shortfall[k] + Weight[k]
        - (IF ClassOfRequest(serving') = k THEN ActiveWeight(Classes) ELSE 0)

\* A class that nobody waits for has no claim.  A surplus is dropped, so that
\* shortfall is the largest over all the intervals, however short, in which the
\* class had somebody waiting and that end now.
NoteShare ==
    shortfall' = [k \in Classes |->
        IF callers'[k] = <<>> THEN 0
        ELSE IF serving' \in {None, serving} THEN shortfall[k]
        ELSE IF Due(k) < 0 THEN 0 ELSE Due(k)]

ShareNext == Next /\ NoteShare

ShareSpec == ShareInit /\ [][ShareNext]_shareVars /\ Fairness
-----------------------------------------------------------------------------
\* Every class gets its weight's share of the turns, whatever the others do:
\* over any stretch of decisions during which it has a caller waiting it is at
\* most 2 * (n - 1) turns behind, n being the number of classes, although calls
\* arrive, withdraw and are cut off in between and the scores carry over
\* (fairness.py:159-171; README.md:222-232 "a relative admission-turn share" and
\* "cannot starve").
ShareKept ==
    \A k \in Classes :
        shortfall[k] <= 2 * (Cardinality(Classes) - 1) * ActiveWeight(Classes)
=============================================================================

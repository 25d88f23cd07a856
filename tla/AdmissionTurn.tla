--------------------------- MODULE AdmissionTurn ---------------------------
(***************************************************************************)
(* What the limiter promises, without queues, classes or scores: a single  *)
(* turn at the venue's budget.  It goes only to somebody in line, it goes  *)
(* on to somebody in the very step that gives it up, and the line moves.   *)
(* FairLimiter implements this.                                            *)
(***************************************************************************)
CONSTANT Requests

VARIABLES
    state,      \* where a request is: "out", in "line", or at its "turn"
    open        \* whether the limiter still hands out turns

vars == <<state, open>>

At(place) == {r \in Requests : state[r] = place}

Init ==
    /\ state = [r \in Requests |-> "out"]
    /\ open = TRUE

Enter(r) ==
    /\ open
    /\ state[r] = "out"
    /\ state' = [state EXCEPT ![r] =
            IF At("line") \cup At("turn") = {} THEN "turn" ELSE "line"]
    /\ UNCHANGED open

GiveUp(r) ==
    /\ state[r] = "turn"
    /\ IF open /\ At("line") # {}
       THEN \E s \in At("line") : state' = [state EXCEPT ![r] = "out", ![s] = "turn"]
       ELSE state' = [state EXCEPT ![r] = "out"]
    /\ UNCHANGED open

Withdraw(r) ==
    /\ state[r] = "line"
    /\ state' = [state EXCEPT ![r] = "out"]
    /\ UNCHANGED open

Shut ==
    /\ open
    /\ open' = FALSE
    /\ UNCHANGED state

Next ==
    \/ \E r \in Requests : Enter(r) \/ GiveUp(r) \/ Withdraw(r)
    \/ Shut

\* Nobody stays in line for ever.
LineMoves == \A r \in Requests : state[r] = "line" ~> state[r] # "line"

Spec == Init /\ [][Next]_vars
=============================================================================

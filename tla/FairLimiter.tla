---------------------------- MODULE FairLimiter ----------------------------
(***************************************************************************)
(* WeightedFairLimiter (venue_broker/fairness.py): the admission queue in  *)
(* front of one shared venue budget.                                       *)
(*                                                                         *)
(* A request is a call of acquire(), made again once it has ended.  The    *)
(* limiter lives on one event loop, so what a coroutine does between two   *)
(* awaits is one step; the lock of the condition is never held across an   *)
(* await that suspends, so taking it is not a step.  The awaits that do    *)
(* suspend are                                                             *)
(*     "waiting"    the condition's wait(), in a queue or just selected    *)
(*     "admitting"  asyncio.wait() on the bucket's and the close task      *)
(*     "settling"   gather() on both tasks, in the finally block           *)
(* A cancellation (the caller's disconnect) lands at one of these awaits.  *)
(***************************************************************************)
EXTENDS ClassTurns, Sequences, SequencesExt

CONSTANTS
    Requests,
    Callers,
    CallerOf,       \* the caller of a request
    ClassOf,        \* CallerPolicy.class_for: the class of a caller
    Cancellable,    \* the requests whose caller may disconnect
    CancelPoints,   \* the awaits at which a cancellation may land
    None

Awaits == {"waiting", "admitting", "settling"}

ASSUME LimiterAssumption ==
    /\ CallerOf \in [Requests -> Callers]
    /\ ClassOf \in [Callers -> Classes]
    /\ Cancellable \subseteq Requests
    /\ CancelPoints \subseteq Awaits
    /\ None \notin Requests

VARIABLES
    queue,          \* _queues: the waiters of each caller, first come first
    callers,        \* _callers: of each class, the callers that have a waiter
    scores,         \* _scores
    serving,        \* _serving
    closed,         \* _closed and _closed_event
    callerDepth,    \* _caller_depth
    classDepth,     \* _class_depth
    pc,             \* the await a request is at
    outcome,        \* how acquire() ends, once that is decided
    notified,       \* the waiters a notify_all() has made runnable
    granted,        \* the requests whose bucket task is done
    turnsSeen       \* history: turns its class gave away while a request was queued

vars == <<queue, callers, scores, serving, closed, callerDepth, classDepth,
          pc, outcome, notified, granted, turnsSeen>>

ClassOfRequest(r) == ClassOf[CallerOf[r]]
NoTurnsSeen == [c \in Callers |-> 0]
Waiting == {r \in Requests : pc[r] = "waiting"}
Outstanding == {r \in Requests : pc[r] \in Awaits}
Lost == {r \in Requests : pc[r] = "gone"}

Init ==
    /\ queue = [c \in Callers |-> <<>>]
    /\ callers = [k \in Classes |-> <<>>]
    /\ scores = [k \in Classes |-> 0]
    /\ serving = None
    /\ closed = FALSE
    /\ callerDepth = [c \in Callers |-> 0]
    /\ classDepth = [k \in Classes |-> 0]
    /\ pc = [r \in Requests |-> "idle"]
    /\ outcome = [r \in Requests |-> "none"]
    /\ notified = {}
    /\ granted = {}
    /\ turnsSeen = [r \in Requests |-> NoTurnsSeen]
-----------------------------------------------------------------------------
\* _select_if_idle, entered with the given queues, caller deques and turn.
StayPut(q, cs, turn) ==
    /\ queue' = q
    /\ callers' = cs
    /\ serving' = turn
    /\ UNCHANGED scores

\* Mutant of SelectNext: the caller keeps its place at the head of the rotation.
SelectUnrotated(q, cs, active) ==
    LET class == Chosen(scores, active)
        caller == Head(cs[class])
        rest == Tail(q[caller])
    IN  /\ serving' = Head(q[caller])
        /\ queue' = [q EXCEPT ![caller] = rest]
        /\ callers' = [cs EXCEPT ![class] = IF rest = <<>> THEN Tail(@) ELSE @]
        /\ scores' = Settled(scores, active)

SelectNext(q, cs, active) ==
    LET class == Chosen(scores, active)
        caller == Head(cs[class])
        rest == Tail(q[caller])
    IN  /\ serving' = Head(q[caller])
        /\ queue' = [q EXCEPT ![caller] = rest]
        /\ callers' = [cs EXCEPT ![class] =
                IF rest = <<>> THEN Tail(@) ELSE Append(Tail(@), caller)]
        /\ scores' = Settled(scores, active)

\* Mutant of SelectIfIdle: the turn in progress is not respected.
SelectThoughBusy(q, cs, turn) ==
    LET active == {k \in Classes : cs[k] # <<>>}
    IN  IF closed \/ active = {} THEN StayPut(q, cs, turn) ELSE SelectNext(q, cs, active)

SelectIfIdle(q, cs, turn) ==
    LET active == {k \in Classes : cs[k] # <<>>}
    IN  IF turn # None \/ closed \/ active = {}
        THEN StayPut(q, cs, turn)
        ELSE SelectNext(q, cs, active)

\* The history kept for the requests that stay queued over a change of turn.
NoteTurn ==
    turnsSeen' = [r \in Requests |->
        IF r \notin ToSet(queue'[CallerOf[r]]) THEN NoTurnsSeen
        ELSE IF serving' \in {None, serving} THEN turnsSeen[r]
        ELSE LET caller == CallerOf[serving']
             IN  IF ClassOf[caller] # ClassOfRequest(r) THEN turnsSeen[r]
                 ELSE [turnsSeen[r] EXCEPT ![caller] = @ + 1]]

\* Mutant of DecrementDepth: the class is forgotten.
DecrementCallerOnly(r) ==
    /\ callerDepth' = [callerDepth EXCEPT ![CallerOf[r]] = IF @ <= 1 THEN 0 ELSE @ - 1]
    /\ UNCHANGED classDepth

\* _decrement_depth: a caller's entry goes at zero, a class's may not.
DecrementDepth(r) ==
    /\ callerDepth' = [callerDepth EXCEPT ![CallerOf[r]] = IF @ <= 1 THEN 0 ELSE @ - 1]
    /\ classDepth' = [classDepth EXCEPT ![ClassOfRequest(r)] = @ - 1]
-----------------------------------------------------------------------------
\* acquire() up to its first suspension: an idle limiter selects the newcomer,
\* who then goes on to the bucket without waiting.
Join(r) ==
    LET caller == CallerOf[r]
        class == ClassOf[caller]
    IN  /\ pc[r] = "idle"
        /\ ~closed
        /\ SelectIfIdle([queue EXCEPT ![caller] = Append(@, r)],
                        IF queue[caller] # <<>> THEN callers
                        ELSE [callers EXCEPT ![class] = Append(@, caller)],
                        serving)
        /\ callerDepth' = [callerDepth EXCEPT ![caller] = @ + 1]
        /\ classDepth' = [classDepth EXCEPT ![class] = @ + 1]
        /\ pc' = [pc EXCEPT ![r] = IF serving' = r THEN "admitting" ELSE "waiting"]
        /\ NoteTurn
        /\ UNCHANGED <<closed, outcome, notified, granted>>

\* A closed limiter refuses at once (FairLimiterClosed).
JoinClosed(r) ==
    /\ pc[r] = "idle"
    /\ closed
    /\ UNCHANGED vars

\* A notified waiter runs again: its turn, or back to wait().
TakeTurn(r) ==
    /\ pc[r] = "waiting"
    /\ r \in notified
    /\ ~closed
    /\ serving = r
    /\ pc' = [pc EXCEPT ![r] = "admitting"]
    /\ notified' = notified \ {r}
    /\ UNCHANGED <<queue, callers, scores, serving, closed, callerDepth,
                   classDepth, outcome, granted, turnsSeen>>

WaitAgain(r) ==
    /\ pc[r] = "waiting"
    /\ r \in notified
    /\ ~closed
    /\ serving # r
    /\ notified' = notified \ {r}
    /\ UNCHANGED <<queue, callers, scores, serving, closed, callerDepth,
                   classDepth, pc, outcome, granted, turnsSeen>>

\* Mutants of Abandon: the turn is given up and nobody selected; the head of
\* the caller's queue is withdrawn, whoever it is.
AbandonUnselected(r) ==
    LET caller == CallerOf[r]
        class == ClassOf[caller]
        left == RemoveFirst(queue[caller], r)
    IN  /\ IF serving = r
           THEN StayPut(queue, callers, None)
           ELSE SelectIfIdle([queue EXCEPT ![caller] = left],
                             IF left # <<>> THEN callers
                             ELSE [callers EXCEPT ![class] = RemoveFirst(@, caller)],
                             serving)
        /\ DecrementDepth(r)
        /\ pc' = [pc EXCEPT ![r] = "idle"]
        /\ notified' = Waiting \ {r}
        /\ NoteTurn
        /\ UNCHANGED <<closed, outcome, granted>>

AbandonHead(r) ==
    LET caller == CallerOf[r]
        class == ClassOf[caller]
        left == IF queue[caller] = <<>> THEN <<>> ELSE Tail(queue[caller])
    IN  /\ IF serving = r
           THEN SelectIfIdle(queue, callers, None)
           ELSE SelectIfIdle([queue EXCEPT ![caller] = left],
                             IF left # <<>> THEN callers
                             ELSE [callers EXCEPT ![class] = RemoveFirst(@, caller)],
                             serving)
        /\ DecrementDepth(r)
        /\ pc' = [pc EXCEPT ![r] = "idle"]
        /\ notified' = Waiting \ {r}
        /\ NoteTurn
        /\ UNCHANGED <<closed, outcome, granted>>

\* _abandon and what follows it in the except clause.
Abandon(r) ==
    LET caller == CallerOf[r]
        class == ClassOf[caller]
        mine == serving = r
        left == RemoveFirst(queue[caller], r)
    IN  /\ IF mine
           THEN SelectIfIdle(queue, callers, None)
           ELSE SelectIfIdle([queue EXCEPT ![caller] = left],
                             IF left # <<>> THEN callers
                             ELSE [callers EXCEPT ![class] = RemoveFirst(@, caller)],
                             serving)
        /\ DecrementDepth(r)
        /\ pc' = [pc EXCEPT ![r] = "idle"]
        /\ notified' = Waiting \ {r}
        /\ NoteTurn
        /\ UNCHANGED <<closed, outcome, granted>>

LeaveClosed(r) ==
    /\ pc[r] = "waiting"
    /\ r \in notified
    /\ closed
    /\ Abandon(r)

\* The bucket task of the request being admitted comes to its end.
BucketGrants(r) ==
    /\ pc[r] = "admitting"
    /\ r \notin granted
    /\ granted' = granted \cup {r}
    /\ UNCHANGED <<queue, callers, scores, serving, closed, callerDepth,
                   classDepth, pc, outcome, notified, turnsSeen>>

\* asyncio.wait() returns.  After close() the close task may or may not have
\* run yet; if it has, admission fails although the bucket may have granted.
Decided(r, how) ==
    /\ pc[r] = "admitting"
    /\ \/ how = "admitted" /\ r \in granted
       \/ how = "closed" /\ closed
    /\ pc' = [pc EXCEPT ![r] = "settling"]
    /\ outcome' = [outcome EXCEPT ![r] = how]
    /\ UNCHANGED <<queue, callers, scores, serving, closed, callerDepth,
                   classDepth, notified, granted, turnsSeen>>

\* Mutant of Finish: the condition is not notified.
FinishQuietly(r) ==
    /\ pc[r] = "settling"
    /\ SelectIfIdle(queue, callers, IF serving = r THEN None ELSE serving)
    /\ DecrementDepth(r)
    /\ pc' = [pc EXCEPT ![r] = "idle"]
    /\ outcome' = [outcome EXCEPT ![r] = "none"]
    /\ granted' = granted \ {r}
    /\ NoteTurn
    /\ UNCHANGED <<closed, notified>>

\* gather() returns, then _finish.
Finish(r) ==
    /\ pc[r] = "settling"
    /\ SelectIfIdle(queue, callers, IF serving = r THEN None ELSE serving)
    /\ DecrementDepth(r)
    /\ pc' = [pc EXCEPT ![r] = "idle"]
    /\ outcome' = [outcome EXCEPT ![r] = "none"]
    /\ granted' = granted \ {r}
    /\ notified' = Waiting
    /\ NoteTurn
    /\ UNCHANGED closed

MayCancel(r, point) ==
    /\ r \in Cancellable
    /\ point \in CancelPoints
    /\ pc[r] = point
    /\ outcome[r] # "cancelled"

CancelWaiting(r) ==
    /\ MayCancel(r, "waiting")
    /\ Abandon(r)

\* Mutant of CancelAdmitting: the depths are settled here and again by Finish.
CancelAndDecrement(r) ==
    /\ MayCancel(r, "admitting")
    /\ pc' = [pc EXCEPT ![r] = "settling"]
    /\ outcome' = [outcome EXCEPT ![r] = "cancelled"]
    /\ DecrementDepth(r)
    /\ UNCHANGED <<queue, callers, scores, serving, closed, notified, granted, turnsSeen>>

CancelAdmitting(r) ==
    /\ MayCancel(r, "admitting")
    /\ pc' = [pc EXCEPT ![r] = "settling"]
    /\ outcome' = [outcome EXCEPT ![r] = "cancelled"]
    /\ UNCHANGED <<queue, callers, scores, serving, closed, callerDepth,
                   classDepth, notified, granted, turnsSeen>>

\* The cancellation is raised by gather(), so _finish is not reached.  The
\* waiter object is never used again: the call stays "gone".
CancelSettling(r) ==
    /\ MayCancel(r, "settling")
    /\ pc' = [pc EXCEPT ![r] = "gone"]
    /\ outcome' = [outcome EXCEPT ![r] = "cancelled"]
    /\ UNCHANGED <<queue, callers, scores, serving, closed, callerDepth,
                   classDepth, notified, granted, turnsSeen>>

\* Mutant of Close: the waiters are not notified.
CloseQuietly ==
    /\ ~closed
    /\ closed' = TRUE
    /\ UNCHANGED <<queue, callers, scores, serving, callerDepth, classDepth,
                   pc, outcome, notified, granted, turnsSeen>>

\* close(): the flag, the event and the notification are one step.
Close ==
    /\ ~closed
    /\ closed' = TRUE
    /\ notified' = Waiting
    /\ UNCHANGED <<queue, callers, scores, serving, callerDepth, classDepth,
                   pc, outcome, granted, turnsSeen>>

\* What the event loop runs once it is ready, as opposed to what callers,
\* their disconnects and the shutdown decide.
Resumed(r) ==
    \/ TakeTurn(r) \/ WaitAgain(r) \/ LeaveClosed(r)
    \/ BucketGrants(r)
    \/ Decided(r, "admitted") \/ Decided(r, "closed")
    \/ Finish(r)

Cancelled(r) == CancelWaiting(r) \/ CancelAdmitting(r) \/ CancelSettling(r)

Next ==
    \/ \E r \in Requests : Join(r) \/ JoinClosed(r) \/ Resumed(r) \/ Cancelled(r)
    \/ Close

\* The loop runs what is ready in FIFO order, and an admission in progress ends
\* (TokenBucket: a waiter that sleeps is admitted when it wakes).
Fairness == \A r \in Requests : WF_vars(Resumed(r))

Spec == Init /\ [][Next]_vars /\ Fairness
-----------------------------------------------------------------------------
TypeOK ==
    /\ queue \in [Callers -> Seq(Requests)]
    /\ callers \in [Classes -> Seq(Callers)]
    /\ scores \in [Classes -> Int]
    /\ serving \in Requests \cup {None}
    /\ closed \in BOOLEAN
    /\ callerDepth \in [Callers -> Nat]
    /\ classDepth \in [Classes -> Nat]
    /\ pc \in [Requests -> Awaits \cup {"idle", "gone"}]
    /\ outcome \in [Requests -> {"none", "admitted", "closed", "cancelled"}]
    /\ notified \subseteq Requests
    /\ granted \subseteq Requests
    /\ turnsSeen \in [Requests -> [Callers -> Nat]]

\* "Serialize token admission" (fairness.py:50): at most one request at a time
\* is at the bucket, or on its way out of it, and it holds the turn.
AtBucket == {r \in Requests : pc[r] \in {"admitting", "settling"}}
OneAtTheBucket == AtBucket \subseteq {serving}

\* Whoever waits will be served: the turn is never unassigned while somebody is
\* queued; who was given it while in wait() has a notification on its way; and
\* the others are in their caller's queue, where a selection can reach them.
\* Every path that gives the turn up, withdraws or arrives has to see to all
\* three (fairness.py:95, 97-107, 148-155, 200-205).
WaitersServed ==
    /\ serving = None /\ ~closed => \A c \in Callers : queue[c] = <<>>
    /\ serving \in Waiting => serving \in notified
    /\ \A r \in Waiting : serving = r \/ r \in ToSet(queue[CallerOf[r]])

\* A class's deque names exactly its callers with waiters, each once: a caller
\* forgotten here would never be selected, one named twice would take two
\* places in the rotation, and an empty one would break the selection
\* (fairness.py:150-155, 173-179, 185-196).
CallersListed ==
    \A k \in Classes :
        /\ ToSet(callers[k]) = {c \in Callers : ClassOf[c] = k /\ queue[c] # <<>>}
        /\ Cardinality(ToSet(callers[k])) = Len(callers[k])

\* The depths shown by metrics() count the requests that have joined and not
\* left, on every way out; a call that was lost stays counted (fairness.py:
\* 156-157, 197, 203, 207-211).
DepthsCount ==
    LET joined == Outstanding \cup Lost
    IN  /\ \A c \in Callers :
            callerDepth[c] = Cardinality({r \in joined : CallerOf[r] = c})
        /\ \A k \in Classes :
            classDepth[k] = Cardinality({r \in joined : ClassOfRequest(r) = k})

\* Round-robin inside a class (fairness.py:173-179): while a request is queued,
\* no other caller of its class gets more than one turn beyond those its own
\* caller gets, however many requests that caller adds.
RoundRobin ==
    \A r \in Requests : \A c \in Callers \ {CallerOf[r]} :
        turnsSeen[r][c] <= turnsSeen[r][CallerOf[r]] + 1

\* A request that waits gets through to the bucket or leaves, although every
\* other request may come back for ever, and after close() too.
EveryWaitEnds == \A r \in Requests : pc[r] = "waiting" ~> pc[r] # "waiting"

\* README.md:231 "a positive-weight class cannot starve", whatever disconnects.
NoStarvation == EveryWaitEnds

\* close() strands nobody: every call still outstanding ends (fairness.py:98,
\* 101, 116, 128-134).
CloseDrains == closed ~> Outstanding = {}
-----------------------------------------------------------------------------
\* The limiter implements the single turn of AdmissionTurn.
Places == [r \in Requests |->
    IF serving = r THEN "turn" ELSE IF pc[r] = "waiting" THEN "line" ELSE "out"]
Open == ~closed

Turn == INSTANCE AdmissionTurn WITH state <- Places, open <- Open

\* Every step of the limiter is a step of the abstract turn or leaves it alone:
\* in particular no step both frees the turn and leaves it free while somebody
\* is in line, and none hands it to a request that has left (fairness.py:159-179).
ImplementsTurn == Turn!Spec

\* What is true of NoStarvation: as long as no call is lost, that is, no
\* cancellation lands on the gather() of the finally block (fairness.py:124),
\* every wait ends and the line of the abstract turn moves.
NoStarvationUnlessLost == [](Lost = {}) => EveryWaitEnds /\ Turn!LineMoves
=============================================================================

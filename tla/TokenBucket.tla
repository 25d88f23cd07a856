---------------------------- MODULE TokenBucket ----------------------------
(***************************************************************************)
(* TokenBucket (venue_broker/limiter.py): tokens that refill with time, a  *)
(* cap on admissions in any trailing window, and a lock held while the     *)
(* head of the line sleeps.                                                *)
(*                                                                         *)
(* Time is counted in ticks of the monotonic clock, tokens in a unit that  *)
(* makes the refill of a tick whole; "strictly past" an instant is the     *)
(* next tick.  The rounding of floating point is not modelled.             *)
(***************************************************************************)
EXTENDS Integers, Sequences, SequencesExt

CONSTANTS
    Requests,
    Cost,       \* the tokens a request costs
    Capacity,   \* capacity
    Rate,       \* refill_rate, per tick
    Limit,      \* rolling_limit, or NoLimit
    NoLimit,
    Window,     \* the trailing second, in ticks
    Early,      \* how far ahead of its deadline the loop may run a timer
    MaxTime,    \* bound on the clock, see Tick
    MaxNaps     \* where the history counter naps stops counting

HasLimit == Limit # NoLimit

ASSUME BucketAssumption ==
    /\ Cost \in [Requests -> Nat \ {0}]
    /\ Capacity \in Nat \ {0}
    /\ Rate \in Nat \ {0}
    /\ HasLimit => Limit \in Nat \ {0}
    /\ Window \in Nat
    /\ Early \in Nat
    /\ MaxTime \in Nat
    /\ MaxNaps \in Nat

VARIABLES
    now,        \* the clock
    tokens,     \* _tokens
    updatedAt,  \* _updated_at
    admissions, \* _admissions: the times of the admissions still counted
    line,       \* the asyncio.Lock: its owner, then its waiters in order
    pc,         \* "idle", "queued" (ready or waiting for the lock) or "asleep"
    sleepUntil, \* the instant the owner's sleep must pass
    granted,    \* history: when each admission was, and the tokens spent so far
    naps        \* history: sleeps of the request's current acquire(), not
                \* counting those that resume one whose timer ran early

bucket == <<tokens, updatedAt, admissions>>
vars == <<now, bucket, line, pc, sleepUntil, granted, naps>>

Init ==
    /\ now = 0
    /\ tokens = Capacity
    /\ updatedAt = 0
    /\ admissions = <<>>
    /\ line = <<>>
    /\ pc = [r \in Requests |-> "idle"]
    /\ sleepUntil = 0
    /\ granted = <<>>
    /\ naps = [r \in Requests |-> 0]

Larger(a, b) == IF a >= b THEN a ELSE b
Smaller(a, b) == IF a <= b THEN a ELSE b

\* Mutant of Available: the refill is not capped.
AvailableUncapped == tokens + (now - updatedAt) * Rate

\* What _refill leaves at this instant; also available().
Available == Smaller(Capacity, tokens + (now - updatedAt) * Rate)

\* Mutant of Counts: an admission exactly a window old no longer counts.
CountsUntil(at) == now < at + Window

\* The boundary is kept conservatively closed: an admission counts for one
\* window, its last instant included.
Counts(at) == now <= at + Window

\* admissions_in_window(), for a bucket with a limit.
AdmissionsInWindow == Cardinality({i \in DOMAIN admissions : Counts(admissions[i])})

Spent == IF granted = <<>> THEN 0 ELSE granted[Len(granted)].spent
-----------------------------------------------------------------------------
\* One round of acquire()'s loop by r, which owns the lock with rest behind it,
\* after the k oldest admissions were found to have left the window.
Full(kept) == HasLimit /\ Len(kept) >= Limit

\* Mutants of Delay: the two waits one after the other; only the window's.
DelayInTurn(r, kept) ==
    (IF Cost[r] <= Available THEN 0 ELSE (Cost[r] - Available) \div Rate)
        + (IF Full(kept) THEN kept[1] + Window - now ELSE 0)

DelayForWindow(r, kept) == IF Full(kept) THEN kept[1] + Window - now ELSE 0

Delay(r, kept) ==
    Larger(IF Cost[r] <= Available THEN 0 ELSE (Cost[r] - Available) \div Rate,
           IF Full(kept) THEN kept[1] + Window - now ELSE 0)

Admit(r, kept, rest) ==
    /\ Available >= Cost[r]
    /\ ~Full(kept)
    /\ tokens' = Available - Cost[r]
    /\ admissions' = IF HasLimit THEN Append(kept, now) ELSE kept
    /\ line' = rest
    /\ pc' = [pc EXCEPT ![r] = "idle"]
    /\ granted' = Append(granted, [at |-> now, spent |-> Spent + Cost[r]])
    /\ naps' = [naps EXCEPT ![r] = 0]
    /\ UNCHANGED sleepUntil

Sleep(r, kept, rest) ==
    /\ Available < Cost[r] \/ Full(kept)
    /\ tokens' = Available
    /\ admissions' = kept
    /\ line' = <<r>> \o rest
    /\ pc' = [pc EXCEPT ![r] = "asleep"]
    /\ sleepUntil' = now + Delay(r, kept)
    /\ naps' = [naps EXCEPT ![r] =
            IF pc[r] = "asleep" /\ now <= sleepUntil THEN @ ELSE Smaller(@ + 1, MaxNaps)]
    /\ UNCHANGED granted

Round(r, rest) ==
    /\ updatedAt' = now
    /\ UNCHANGED now
    /\ \E k \in 0 .. Len(admissions) :
        LET kept == SubSeq(admissions, k + 1, Len(admissions))
        IN  /\ \A i \in 1 .. k : ~Counts(admissions[i])
            /\ kept # <<>> => Counts(kept[1])
            /\ Admit(r, kept, rest) \/ Sleep(r, kept, rest)
-----------------------------------------------------------------------------
\* acquire() of a cost the bucket can hold: the lock is free, and the first
\* round runs at once, or the request lines up behind it.
Acquire(r) ==
    /\ pc[r] = "idle"
    /\ Cost[r] <= Capacity
    /\ \/ /\ line = <<>>
          /\ Round(r, <<>>)
       \/ /\ line # <<>>
          /\ line' = Append(line, r)
          /\ pc' = [pc EXCEPT ![r] = "queued"]
          /\ UNCHANGED <<now, bucket, sleepUntil, granted, naps>>

\* The lock passes to the first in line.
TakeLock(r) ==
    /\ line # <<>>
    /\ Head(line) = r
    /\ pc[r] = "queued"
    /\ Round(r, Tail(line))

\* The sleep is over; the loop may run the timer a little early.
Wake(r) ==
    /\ line # <<>>
    /\ Head(line) = r
    /\ pc[r] = "asleep"
    /\ now + Early > sleepUntil
    /\ Round(r, Tail(line))

\* Mutant of Cancel: a cancelled owner does not release the lock.
CancelKeepingLock(r) ==
    /\ pc[r] # "idle"
    /\ line' = IF Head(line) = r THEN line ELSE RemoveFirst(line, r)
    /\ pc' = [pc EXCEPT ![r] = "idle"]
    /\ naps' = [naps EXCEPT ![r] = 0]
    /\ UNCHANGED <<now, bucket, sleepUntil, granted>>

\* A cancelled acquire() leaves the line, giving the lock up if it owned it.
Cancel(r) ==
    /\ pc[r] # "idle"
    /\ line' = RemoveFirst(line, r)
    /\ pc' = [pc EXCEPT ![r] = "idle"]
    /\ naps' = [naps EXCEPT ![r] = 0]
    /\ UNCHANGED <<now, bucket, sleepUntil, granted>>

Tick ==
    /\ now < MaxTime
    /\ now' = now + 1
    /\ UNCHANGED <<bucket, line, pc, sleepUntil, granted, naps>>

Next ==
    \/ \E r \in Requests : Acquire(r) \/ TakeLock(r) \/ Wake(r) \/ Cancel(r)
    \/ Tick

\* Time passes, and the event loop runs what is ready or due.
Fairness ==
    /\ WF_vars(Tick)
    /\ \A r \in Requests : WF_vars(TakeLock(r)) /\ WF_vars(Wake(r))

Spec == Init /\ [][Next]_vars /\ Fairness
-----------------------------------------------------------------------------
TypeOK ==
    /\ now \in Nat
    /\ tokens \in 0 .. Capacity
    /\ updatedAt \in 0 .. now
    /\ admissions \in Seq(0 .. now)
    /\ HasLimit => Len(admissions) <= Limit
    /\ line \in Seq(Requests)
    /\ pc \in [Requests -> {"idle", "queued", "asleep"}]
    /\ sleepUntil \in Nat
    /\ granted \in Seq([at : 0 .. now, spent : Nat])
    /\ naps \in [Requests -> 0 .. MaxNaps]

\* No window of a second, wherever it starts, sees more admissions than the
\* limit: an admission is more than a window after the one Limit before it
\* (limiter.py:53-64, on the venue's "20 requests per second").
RollingCeiling ==
    HasLimit => \A i \in DOMAIN granted : i + Limit \in DOMAIN granted =>
        granted[i + Limit].at > granted[i].at + Window

\* The tokens spent from one admission to another, both included, are at most
\* a full bucket and what time refilled in between (limiter.py:34-38, 61-62).
SpentBefore(i) == IF i = 1 THEN 0 ELSE granted[i - 1].spent
RateCeiling ==
    \A i \in DOMAIN granted : \A j \in i .. Len(granted) :
        granted[j].spent - SpentBefore(i)
            <= Capacity + Rate * (granted[j].at - granted[i].at)

\* One sleep is enough: a request that slept past the instant it was to pass is
\* admitted by the round it wakes to (limiter.py:66-69, "The next sleep goes
\* strictly past it").
OneNap == \A r \in Requests : naps[r] <= 1

\* Nor is the sleep too long: before the instant it was to pass, the request
\* could not have been admitted (limiter.py:66-68).
Admissible(r) ==
    /\ Available >= Cost[r]
    /\ HasLimit => AdmissionsInWindow < Limit
NoOversleep ==
    \A r \in Requests : pc[r] = "asleep" /\ now < sleepUntil => ~Admissible(r)

\* The lock's line holds exactly the calls in progress, and only its owner
\* sleeps (limiter.py:48-50).
LineExact ==
    /\ ToSet(line) = {r \in Requests : pc[r] # "idle"}
    /\ Cardinality(ToSet(line)) = Len(line)
    /\ \A r \in Requests : pc[r] = "asleep" => Head(line) = r

\* Nobody is left in the line, cancellations of others included, unless the
\* clock's bound ends the run during the owner's sleep.
BeyondBound == line # <<>> /\ pc[Head(line)] = "asleep" /\ sleepUntil >= MaxTime
NobodyForgotten ==
    \A r \in Requests : pc[r] # "idle" ~> pc[r] = "idle" \/ BeyondBound
=============================================================================

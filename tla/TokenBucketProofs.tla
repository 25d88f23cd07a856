------------------------- MODULE TokenBucketProofs -------------------------
(***************************************************************************)
(* The two ceilings of the bucket, for every rate, capacity, limit, window *)
(* and set of costs, however early timers run and whoever is cancelled.    *)
(***************************************************************************)
EXTENDS TokenBucket, SequenceLemmas, TLAPS

Grant == [at : Nat, spent : Int]

\* The part of the type invariant the ceilings need.
Typed ==
    /\ now \in Nat
    /\ tokens \in 0 .. Capacity
    /\ updatedAt \in 0 .. now
    /\ admissions \in Seq(Nat)
    /\ granted \in Seq(Grant)

\* What one round does to the bucket and the history, told apart from the line.
Dropped(k) ==
    /\ k \in 0 .. Len(admissions)
    /\ \A i \in 1 .. k : admissions[i] + Window < now

Kept(k) == SubSeq(admissions, k + 1, Len(admissions))

AdmitEffect(k, cost) ==
    /\ Dropped(k)
    /\ cost \in Nat \ {0}
    /\ cost <= Available
    /\ tokens' = Available - cost
    /\ updatedAt' = now
    /\ HasLimit => Len(Kept(k)) < Limit
    /\ admissions' = IF HasLimit THEN Append(Kept(k), now) ELSE Kept(k)
    /\ granted' = Append(granted, [at |-> now, spent |-> Spent + cost])
    /\ now' = now

SleepEffect(k) ==
    /\ Dropped(k)
    /\ tokens' = Available
    /\ updatedAt' = now
    /\ admissions' = Kept(k)
    /\ granted' = granted
    /\ now' = now

\* No effect but the passing of time.
TimeEffect ==
    /\ now' \in Nat /\ now' >= now
    /\ UNCHANGED <<bucket, granted>>

Effect ==
    \/ \E k \in Nat, cost \in Nat : AdmitEffect(k, cost)
    \/ \E k \in Nat : SleepEffect(k)
    \/ TimeEffect

LEMMA RoundEffect ==
    ASSUME Typed, NEW r \in Requests, NEW rest, Round(r, rest)
    PROVE  Effect
  <1> USE BucketAssumption
  <1>1. PICK k \in 0 .. Len(admissions) :
            /\ \A i \in 1 .. k : ~Counts(admissions[i])
            /\ Admit(r, Kept(k), rest) \/ Sleep(r, Kept(k), rest)
    BY DEF Round, Kept
  <1>2. k \in Nat /\ Dropped(k)
    BY <1>1 DEF Dropped, Counts, Typed
  <1>3. Kept(k) \in Seq(Nat)
    BY <1>2 DEF Kept, Typed, Dropped
  <1>4. CASE Admit(r, Kept(k), rest)
    <2>1. HasLimit => Len(Kept(k)) < Limit
      BY <1>3, <1>4 DEF Admit, Full
    <2>2. AdmitEffect(k, Cost[r])
      BY <1>2, <1>4, <2>1 DEF Admit, AdmitEffect, Round, Typed, Available, Smaller
    <2> QED BY <1>2, <2>2 DEF Effect
  <1>5. CASE Sleep(r, Kept(k), rest)
    <2>1. SleepEffect(k)
      BY <1>2, <1>5 DEF Sleep, SleepEffect, Round
    <2> QED BY <1>2, <2>1 DEF Effect
  <1> QED BY <1>1, <1>4, <1>5

LEMMA StepEffect ==
    ASSUME Typed, [Next]_vars
    PROVE  Effect
  <1>1. ASSUME NEW r \in Requests, Acquire(r) PROVE Effect
    BY <1>1, RoundEffect DEF Acquire, Effect, TimeEffect, Typed
  <1>2. ASSUME NEW r \in Requests, TakeLock(r) \/ Wake(r) PROVE Effect
    BY <1>2, RoundEffect DEF TakeLock, Wake
  <1>3. ASSUME NEW r \in Requests, Cancel(r) PROVE Effect
    BY <1>3 DEF Cancel, Effect, TimeEffect, Typed
  <1>4. CASE Tick
    BY <1>4 DEF Tick, Effect, TimeEffect, Typed
  <1>5. CASE UNCHANGED vars
    BY <1>5 DEF vars, Effect, TimeEffect, Typed
  <1> QED BY <1>1, <1>2, <1>3, <1>4, <1>5 DEF Next

\* What a refill leaves is a whole number of tokens the bucket can hold.
LEMMA AvailableTyped ==
    ASSUME Typed
    PROVE  /\ Available \in 0 .. Capacity
           /\ Available <= tokens + (now - updatedAt) * Rate
  <1>1. (now - updatedAt) * Rate \in Nat
    BY BucketAssumption DEF Typed
  <1> QED
    BY <1>1, BucketAssumption DEF Typed, Available, Smaller

LEMMA GrantTyped ==
    ASSUME Typed, NEW i \in 1 .. Len(granted)
    PROVE  granted[i].at \in Nat /\ granted[i].spent \in Int
  <1>1. granted[i] \in Grant
    BY DEF Typed
  <1> QED BY <1>1 DEF Grant

LEMMA SpentTyped ==
    ASSUME Typed PROVE Spent \in Int
  <1>1. CASE granted # <<>>
    <2>1. Len(granted) \in 1 .. Len(granted)
      BY <1>1 DEF Typed
    <2> QED BY <1>1, <2>1, GrantTyped DEF Spent
  <1> QED BY <1>1 DEF Spent

LEMMA TypedStep ==
    ASSUME Typed, Effect PROVE Typed'
  <1> USE BucketAssumption
  <1>0. Available \in 0 .. Capacity /\ Spent \in Int
    BY AvailableTyped, SpentTyped
  <1>1. ASSUME NEW k \in Nat, Dropped(k) PROVE Kept(k) \in Seq(Nat)
    BY <1>1 DEF Dropped, Kept, Typed
  <1>2. ASSUME NEW k \in Nat, NEW cost \in Nat, AdmitEffect(k, cost) PROVE Typed'
    <2>1. Kept(k) \in Seq(Nat)
      BY <1>1, <1>2 DEF AdmitEffect
    <2>2. admissions' \in Seq(Nat)
      BY <1>2, <2>1 DEF AdmitEffect, Typed
    <2>3. granted' \in Seq(Grant)
      BY <1>0, <1>2 DEF AdmitEffect, Typed, Grant
    <2> QED BY <1>0, <1>2, <2>2, <2>3 DEF AdmitEffect, Typed
  <1>3. ASSUME NEW k \in Nat, SleepEffect(k) PROVE Typed'
    BY <1>0, <1>1, <1>3 DEF SleepEffect, Typed
  <1>4. CASE TimeEffect
    BY <1>4 DEF TimeEffect, Typed, bucket
  <1> QED BY <1>2, <1>3, <1>4 DEF Effect
-----------------------------------------------------------------------------
(* The rolling ceiling.  The deque holds the latest admissions and every one *)
(* it has dropped is out of the window, so that when it has room the         *)
(* admission Limit before the next one is among the dropped.                 *)

Gone == Len(granted) - Len(admissions)

Deque ==
    /\ Gone \in Nat
    /\ \A i \in 1 .. Len(admissions) : admissions[i] = granted[Gone + i].at
    /\ \A i \in 1 .. Gone : granted[i].at + Window < now

CeilingInv == HasLimit => Deque /\ RollingCeiling

LEMMA KeptSeq ==
    ASSUME Typed, NEW k \in Nat, Dropped(k)
    PROVE  /\ Kept(k) \in Seq(Nat)
           /\ Len(Kept(k)) = Len(admissions) - k
           /\ \A i \in 1 .. Len(Kept(k)) : Kept(k)[i] = admissions[k + i]
  BY DEF Typed, Dropped, Kept

LEMMA CeilingStep ==
    ASSUME Typed, CeilingInv, Effect PROVE CeilingInv'
  <1> USE BucketAssumption
  <1> SUFFICES ASSUME HasLimit PROVE Deque' /\ RollingCeiling'
    BY DEF CeilingInv, HasLimit
  <1>0. Deque /\ RollingCeiling /\ Limit \in Nat \ {0}
    BY DEF CeilingInv
  <1>1. ASSUME NEW k \in Nat, NEW cost \in Nat, AdmitEffect(k, cost)
        PROVE  Deque' /\ RollingCeiling'
    <2> DEFINE n == Len(granted)
               kept == Kept(k)
    <2>0. Dropped(k)
      BY <1>1 DEF AdmitEffect
    <2>1. /\ kept \in Seq(Nat) /\ Len(kept) = Len(admissions) - k
          /\ \A i \in 1 .. Len(kept) : kept[i] = admissions[k + i]
          /\ k <= Len(admissions)
      <3>1. k <= Len(admissions)
        BY <2>0 DEF Dropped
      <3> QED BY <2>0, <3>1, KeptSeq
    <2>2. /\ admissions' = Append(kept, now) /\ Len(admissions') = Len(kept) + 1
          /\ Len(kept) < Limit
      BY <1>1, <2>1, SMTT(30) DEF AdmitEffect, Typed
    <2>3. /\ n \in Nat /\ Len(granted') = n + 1
          /\ \A i \in 1 .. n : granted'[i] = granted[i]
          /\ granted'[n + 1].at = now
          /\ DOMAIN granted' = 1 .. n + 1 /\ DOMAIN granted = 1 .. n
          /\ now' = now
      BY <1>1, SpentTyped DEF AdmitEffect, Typed, Grant
    <2>4. Gone' = Gone + k /\ Gone' \in Nat /\ Gone \in Nat
      BY <1>0, <2>1, <2>2, <2>3 DEF Gone, Deque
    <2>5. \A i \in 1 .. Gone' : granted[i].at + Window < now /\ i <= n
      <3> TAKE i \in 1 .. Gone'
      <3>1. CASE i <= Gone
        BY <1>0, <2>4, <3>1 DEF Deque, Gone, Typed
      <3>2. CASE i > Gone
        <4>1. i - Gone \in 1 .. k
          BY <2>4, <3>2
        <4>2. admissions[i - Gone] + Window < now
          BY <1>1, <4>1 DEF AdmitEffect, Dropped
        <4>3. admissions[i - Gone] = granted[Gone + (i - Gone)].at
          BY <1>0, <2>1, <4>1 DEF Deque, Typed
        <4>4. Gone + (i - Gone) = i
          BY <2>4
        <4>5. i <= n
          BY <2>1, <2>4 DEF Gone, Typed
        <4> QED BY <4>2, <4>3, <4>4, <4>5
      <3> QED BY <2>4, <3>1, <3>2
    <2>6. \A i \in 1 .. Len(admissions') : admissions'[i] = granted'[Gone' + i].at
      <3> TAKE i \in 1 .. Len(admissions')
      <3>1. CASE i = Len(kept) + 1
        <4>1. Gone' + i = n + 1
          BY <2>2, <2>3, <3>1 DEF Gone
        <4> QED BY <2>1, <2>2, <2>3, <3>1, <4>1
      <3>2. CASE i \in 1 .. Len(kept)
        <4>1. admissions'[i] = admissions[k + i]
          BY <2>1, <2>2, <3>2
        <4>2. k + i \in 1 .. Len(admissions)
          BY <2>1, <3>2 DEF Typed
        <4>3. admissions[k + i] = granted[Gone + (k + i)].at
          BY <1>0, <4>2 DEF Deque
        <4>4. Gone + (k + i) = Gone' + i /\ Gone' + i \in 1 .. n
          BY <2>2, <2>3, <2>4, <3>2, <2>1, SMTT(30) DEF Gone
        <4> QED BY <2>3, <4>1, <4>3, <4>4
      <3> QED BY <2>1, <2>2, <3>1, <3>2, SMTT(30)
    <2>7. Deque'
      BY <2>3, <2>4, <2>5, <2>6 DEF Deque
    <2>8. RollingCeiling'
      <3> SUFFICES ASSUME NEW i \in 1 .. n + 1, i + Limit \in 1 .. n + 1
                   PROVE  granted'[i + Limit].at > granted'[i].at + Window
        BY <2>3 DEF RollingCeiling
      <3>1. CASE i + Limit <= n
        BY <1>0, <2>3, <3>1, SMTT(30) DEF RollingCeiling
      <3>2. CASE i + Limit = n + 1
        <4>1. Gone' = n - Len(kept)
          BY <2>2, <2>3, <2>1 DEF Gone
        <4>2. i \in 1 .. Gone'
          BY <1>0, <2>1, <2>2, <2>3, <3>2, <4>1, SMTT(30)
        <4>3. granted[i].at + Window < now /\ i \in 1 .. n
          BY <2>5, <4>2
        <4>4. granted[i].at \in Nat
          BY <4>3, GrantTyped
        <4> QED BY <2>3, <3>2, <4>3, <4>4 DEF Typed
      <3> QED BY <1>0, <2>3, <3>1, <3>2
    <2> QED BY <2>7, <2>8
  <1>2. ASSUME NEW k \in Nat, SleepEffect(k) PROVE Deque' /\ RollingCeiling'
    <2> DEFINE kept == Kept(k)
    <2>1. /\ kept \in Seq(Nat) /\ Len(kept) = Len(admissions) - k
          /\ \A i \in 1 .. Len(kept) : kept[i] = admissions[k + i]
          /\ k <= Len(admissions) /\ Len(admissions) \in Nat
      <3>0. Dropped(k)
        BY <1>2 DEF SleepEffect
      <3>1. k <= Len(admissions) /\ Len(admissions) \in Nat
        BY <3>0 DEF Dropped, Typed
      <3> QED BY <3>0, <3>1, KeptSeq
    <2>2. admissions' = kept /\ granted' = granted /\ now' = now
      BY <1>2 DEF SleepEffect
    <2>3. Gone' = Gone + k /\ Gone' \in Nat /\ Gone \in Nat /\ Len(granted) \in Nat
      <3>1. Len(granted) \in Nat /\ Gone \in Nat
        BY <1>0 DEF Deque, Typed
      <3>2. Gone' = Len(granted) - (Len(admissions) - k)
        BY <2>1, <2>2 DEF Gone
      <3> QED BY <2>1, <3>1, <3>2 DEF Gone
    <2>4. \A i \in 1 .. Gone' : granted[i].at + Window < now
      <3> TAKE i \in 1 .. Gone'
      <3>1. CASE i <= Gone
        BY <1>0, <2>3, <3>1 DEF Deque
      <3>2. CASE i > Gone
        <4>1. i - Gone \in 1 .. k
          BY <2>3, <3>2
        <4>2. admissions[i - Gone] + Window < now
          BY <1>2, <4>1 DEF SleepEffect, Dropped
        <4>3. admissions[i - Gone] = granted[Gone + (i - Gone)].at
          BY <1>0, <2>1, <4>1, SMTT(30) DEF Deque
        <4>4. Gone + (i - Gone) = i
          BY <2>3
        <4> QED BY <4>2, <4>3, <4>4
      <3> QED BY <2>3, <3>1, <3>2
    <2>5. \A i \in 1 .. Len(admissions') : admissions'[i] = granted'[Gone' + i].at
      <3> TAKE i \in 1 .. Len(admissions')
      <3>1. k + i \in 1 .. Len(admissions) /\ Gone + (k + i) = Gone' + i
        BY <2>1, <2>2, <2>3
      <3> QED BY <1>0, <2>1, <2>2, <3>1 DEF Deque
    <2> QED BY <1>0, <2>2, <2>3, <2>4, <2>5 DEF Deque, RollingCeiling
  <1>3. CASE TimeEffect
    <2>1. \A i \in 1 .. Gone : granted[i].at + Window < now'
      <3> TAKE i \in 1 .. Gone
      <3>1. i \in 1 .. Len(granted) /\ granted[i].at + Window < now
        BY <1>0 DEF Deque, Gone, Typed
      <3>2. granted[i].at \in Nat
        BY <3>1, GrantTyped
      <3> QED BY <1>3, <3>1, <3>2 DEF TimeEffect, Typed
    <2> QED BY <1>0, <1>3, <2>1 DEF TimeEffect, Deque, Gone, RollingCeiling, bucket
  <1> QED BY <1>1, <1>2, <1>3 DEF Effect

LEMMA InitTyped == Init => Typed /\ CeilingInv
  BY BucketAssumption DEF Init, Typed, CeilingInv, Deque, Gone, RollingCeiling, Grant

\* No trailing second ever holds more admissions than the rolling limit
\* (limiter.py:53-64): the promise the venue's ceiling rests on.
THEOREM RollingCeilingAlways == Spec => []RollingCeiling
  <1>1. Typed /\ CeilingInv /\ [Next]_vars => (Typed /\ CeilingInv)'
    BY StepEffect, TypedStep, CeilingStep
  <1>2. CeilingInv => RollingCeiling
    BY DEF CeilingInv, RollingCeiling
  <1> QED
    BY <1>1, <1>2, InitTyped, PTL DEF Spec
-----------------------------------------------------------------------------
(* The rate ceiling.  From any admission on, what was spent and what is left *)
(* never exceed a full bucket and the refill since: a refill adds no more    *)
(* than the elapsed time is worth, and an admission only moves tokens from   *)
(* left to spent.                                                            *)

Allowance(i) == Capacity + Rate * (updatedAt - granted[i].at)

Budget ==
    \A i \in 1 .. Len(granted) :
        /\ granted[i].at <= updatedAt
        /\ Spent - SpentBefore(i) + tokens <= Allowance(i)

RateInv == Budget /\ RateCeiling

LEMMA RefillSplit ==
    ASSUME NEW a \in Int, NEW u \in Int, NEW t \in Int, NEW r \in Int
    PROVE  r * (u - a) + (t - u) * r = r * (t - a)
  OBVIOUS

LEMMA SpentBeforeTyped ==
    ASSUME Typed, NEW i \in 1 .. Len(granted)
    PROVE  SpentBefore(i) \in Int
  <1>1. CASE i # 1
    <2>1. i - 1 \in 1 .. Len(granted)
      BY <1>1 DEF Typed
    <2> QED BY <1>1, <2>1, GrantTyped DEF SpentBefore
  <1> QED BY <1>1 DEF SpentBefore

\* A refill alone keeps every allowance.
LEMMA RefilledBudget ==
    ASSUME Typed, Budget, NEW i \in 1 .. Len(granted)
    PROVE  /\ granted[i].at <= now
           /\ Spent - SpentBefore(i) + Available
                <= Capacity + Rate * (now - granted[i].at)
  <1> USE BucketAssumption
  <1> DEFINE a == granted[i].at
             b == SpentBefore(i)
             old == Rate * (updatedAt - a)
             new == (now - updatedAt) * Rate
             all == Rate * (now - a)
  <1>1. a \in Nat /\ b \in Int /\ Spent \in Int /\ Available \in Int
    BY GrantTyped, SpentTyped, SpentBeforeTyped, AvailableTyped
  <1>2. updatedAt \in Int /\ now \in Int /\ tokens \in Int /\ updatedAt <= now
    BY DEF Typed
  <1>3. old + new = all
    BY <1>1, <1>2, RefillSplit
  <1>4. old \in Int /\ new \in Int /\ all \in Int
    BY <1>1, <1>2, SMTT(30)
  <1>5. a <= updatedAt /\ Spent - b + tokens <= Capacity + old
    BY DEF Budget, Allowance
  <1>6. Available <= tokens + new
    BY AvailableTyped
  <1>7. Capacity \in Int
    OBVIOUS
  <1> HIDE DEF a, b, old, new, all
  <1>8. a <= now /\ Spent - b + Available <= Capacity + all
    BY <1>1, <1>2, <1>3, <1>4, <1>5, <1>6, <1>7
  <1> QED BY <1>8 DEF a, b, all

LEMMA RateStep ==
    ASSUME Typed, RateInv, Effect PROVE RateInv'
  <1> USE BucketAssumption
  <1>0. /\ Budget /\ RateCeiling /\ Spent \in Int /\ Available \in 0 .. Capacity
        /\ now \in Nat /\ Len(granted) \in Nat
    BY SpentTyped, AvailableTyped DEF RateInv, Typed
  <1>1. ASSUME NEW k \in Nat, NEW cost \in Nat, AdmitEffect(k, cost)
        PROVE  RateInv'
    <2> DEFINE n == Len(granted)
    <2>1. /\ n \in Nat /\ Len(granted') = n + 1
          /\ \A i \in 1 .. n : granted'[i] = granted[i]
          /\ granted'[n + 1].at = now /\ granted'[n + 1].spent = Spent + cost
          /\ DOMAIN granted' = 1 .. n + 1 /\ DOMAIN granted = 1 .. n
          /\ granted' # <<>>
      <3> DEFINE new == [at |-> now, spent |-> Spent + cost]
      <3>1. new.at = now /\ new.spent = Spent + cost
        OBVIOUS
      <3>2. granted' = Append(granted, new) /\ granted \in Seq(Grant)
        BY <1>1 DEF AdmitEffect, Typed
      <3> HIDE DEF new
      <3> QED BY <3>1, <3>2
    <2>2. /\ tokens' = Available - cost /\ cost \in Nat /\ cost <= Available
          /\ updatedAt' = now
      BY <1>1 DEF AdmitEffect
    <2>3. Spent' = Spent + cost
      BY <2>1 DEF Spent
    <2>4. \A i \in 1 .. n : SpentBefore(i)' = SpentBefore(i) /\ SpentBefore(i) \in Int
      <3> TAKE i \in 1 .. n
      <3>1. i # 1 => i - 1 \in 1 .. n
        BY <2>1
      <3> QED BY <2>1, <3>1, SpentBeforeTyped DEF SpentBefore
    <2>5. ASSUME NEW i \in Nat, i = n + 1 PROVE SpentBefore(i)' = Spent
      <3>1. CASE n = 0
        BY <2>1, <2>5, <3>1 DEF SpentBefore, Spent, Typed
      <3>2. CASE n # 0
        <4>1. n \in 1 .. n /\ i - 1 = n /\ i # 1 /\ granted # <<>>
          BY <2>1, <2>5, <3>2 DEF Typed
        <4> QED BY <2>1, <4>1 DEF SpentBefore, Spent
      <3> QED BY <3>1, <3>2
    <2>6. \A i \in 1 .. n :
            /\ granted[i].at <= now
            /\ Spent - SpentBefore(i) + Available <= Capacity + Rate * (now - granted[i].at)
      BY <1>0, RefilledBudget
    <2>7. Budget'
      <3> SUFFICES ASSUME NEW i \in 1 .. n + 1
                   PROVE  /\ granted'[i].at <= now
                          /\ Spent' - SpentBefore(i)' + tokens'
                                <= Capacity + Rate * (now - granted'[i].at)
        BY <2>1, <2>2 DEF Budget, Allowance
      <3>1. CASE i \in 1 .. n
        <4>1. Spent' - SpentBefore(i)' + tokens' = Spent - SpentBefore(i) + Available
          BY <1>0, <2>2, <2>3, <2>4, <3>1
        <4> QED BY <2>1, <2>6, <3>1, <4>1
      <3>2. CASE i = n + 1
        <4>1. Rate * (now - granted'[i].at) = 0 /\ granted'[i].at = now
          BY <1>0, <2>1, <3>2
        <4>2. Spent' - SpentBefore(i)' + tokens' = Available
          BY <1>0, <2>2, <2>3, <2>5, <3>2
        <4> QED BY <1>0, <4>1, <4>2
      <3> QED BY <2>1, <3>1, <3>2
    <2>8. RateCeiling'
      <3> SUFFICES ASSUME NEW i \in 1 .. n + 1, NEW j \in i .. n + 1
                   PROVE  granted'[j].spent - SpentBefore(i)'
                            <= Capacity + Rate * (granted'[j].at - granted'[i].at)
        BY <2>1 DEF RateCeiling
      <3>1. CASE j \in 1 .. n
        <4>1. i \in 1 .. n /\ j \in i .. n
          BY <2>1, <3>1
        <4> QED BY <1>0, <2>1, <2>4, <4>1, SMTT(30) DEF RateCeiling
      <3>2. CASE j = n + 1
        <4>1. granted'[j].at = now /\ granted'[j].spent = Spent'
          BY <2>1, <2>3, <3>2
        <4>2. Spent' - SpentBefore(i)' + tokens' <= Capacity + Rate * (now - granted'[i].at)
          BY <2>1, <2>2, <2>7 DEF Budget, Allowance
        <4>3. tokens' \in Nat /\ Spent' \in Int /\ SpentBefore(i)' \in Int
          <5>1. SpentBefore(i)' \in Int
            BY <1>0, <2>1, <2>4, <2>5
          <5> QED BY <1>0, <2>2, <2>3, <5>1
        <4>4. granted'[i].at \in Nat
          BY <1>0, <2>1, GrantTyped
        <4>5. Rate * (now - granted'[i].at) \in Int
          BY <1>0, <4>4
        <4> QED BY SMTT(30), <4>1, <4>2, <4>3, <4>5
      <3> QED BY <2>1, <3>1, <3>2
    <2> QED BY <2>7, <2>8 DEF RateInv
  <1>2. ASSUME NEW k \in Nat, SleepEffect(k) PROVE RateInv'
    <2>1. granted' = granted /\ tokens' = Available /\ updatedAt' = now /\ Spent' = Spent
      BY <1>2 DEF SleepEffect, Spent
    <2>2. \A i \in 1 .. Len(granted) : SpentBefore(i)' = SpentBefore(i)
      BY <2>1 DEF SpentBefore
    <2>3. Budget'
      BY <1>0, <2>1, <2>2, RefilledBudget DEF Budget, Allowance
    <2> QED BY <1>0, <2>1, <2>3 DEF RateInv, RateCeiling, SpentBefore
  <1>3. CASE TimeEffect
    BY <1>0, <1>3 DEF TimeEffect, RateInv, Budget, Allowance, RateCeiling, Spent,
        SpentBefore, bucket
  <1> QED BY <1>1, <1>2, <1>3 DEF Effect

\* Between any two admissions, the venue's budget of tokens is respected
\* (limiter.py:34-38, 61-62): at most a full bucket and the refill since.
THEOREM RateCeilingAlways == Spec => []RateCeiling
  <1>1. Init => Typed /\ RateInv
    BY InitTyped DEF Init, RateInv, Budget, RateCeiling
  <1>2. Typed /\ RateInv /\ [Next]_vars => (Typed /\ RateInv)'
    BY StepEffect, TypedStep, RateStep
  <1>3. RateInv => RateCeiling
    BY DEF RateInv
  <1> QED
    BY <1>1, <1>2, <1>3, PTL DEF Spec
-----------------------------------------------------------------------------
(* The line.  It holds the calls in progress, each once, and only its owner  *)
(* sleeps: an owner that goes back to sleep takes its place at the head.     *)

LineInv ==
    /\ line \in Seq(Requests)
    /\ pc \in [Requests -> {"idle", "queued", "asleep"}]
    /\ IsInjective(line)
    /\ ToSet(line) = {r \in Requests : pc[r] # "idle"}
    /\ \A r \in Requests : pc[r] = "asleep" => line # <<>> /\ Head(line) = r

\* Who runs a round: it owns the lock, with rest behind it, and nobody else sleeps.
Owner(r, rest) ==
    /\ rest \in Seq(Requests)
    /\ IsInjective(rest)
    /\ ToSet(rest) = {s \in Requests : pc[s] # "idle"} \ {r}
    /\ \A s \in Requests \ {r} : pc[s] # "asleep"

LEMMA RoundOwner ==
    ASSUME LineInv, NEW r \in Requests
    PROVE  /\ Acquire(r) /\ line = <<>> => Owner(r, <<>>)
           /\ TakeLock(r) \/ Wake(r) => Owner(r, Tail(line))
  <1>1. ASSUME line = <<>>, Acquire(r) PROVE Owner(r, <<>>)
    <2>1. ToSet(line) = {} /\ pc[r] = "idle"
      BY <1>1, Members DEF LineInv, Acquire
    <2> QED BY <1>1, <2>1 DEF LineInv, Owner
  <1>2. ASSUME TakeLock(r) \/ Wake(r) PROVE Owner(r, Tail(line))
    <2>1. line # <<>> /\ Head(line) = r
      BY <1>2 DEF TakeLock, Wake
    <2> DEFINE rest == Tail(line)
    <2>2. /\ rest \in Seq(Requests) /\ IsInjective(rest)
          /\ ToSet(line) = {r} \cup ToSet(rest) /\ r \notin ToSet(rest)
      BY <2>1, TailMembers DEF LineInv
    <2> HIDE DEF rest
    <2>3. ToSet(rest) = {s \in Requests : pc[s] # "idle"} \ {r}
      BY <2>2 DEF LineInv
    <2> QED BY <2>1, <2>2, <2>3 DEF LineInv, Owner, rest
  <1> QED BY <1>1, <1>2

LEMMA RoundLine ==
    ASSUME LineInv, NEW r \in Requests, NEW rest, Owner(r, rest), Round(r, rest)
    PROVE  LineInv'
  <1>1. PICK kept : Admit(r, kept, rest) \/ Sleep(r, kept, rest)
    BY DEF Round
  <1>2. CASE Admit(r, kept, rest)
    <2>1. line' = rest /\ pc' = [pc EXCEPT ![r] = "idle"]
      BY <1>2 DEF Admit
    <2> QED BY <2>1 DEF LineInv, Owner
  <1>3. CASE Sleep(r, kept, rest)
    <2> DEFINE longer == <<r>> \o rest
    <2>1. line' = longer /\ pc' = [pc EXCEPT ![r] = "asleep"]
      BY <1>3 DEF Sleep
    <2>2. /\ longer \in Seq(Requests) /\ longer # <<>> /\ Head(longer) = r
          /\ ToSet(longer) = {r} \cup ToSet(rest) /\ IsInjective(longer)
      BY ConsMembers DEF Owner
    <2> HIDE DEF longer
    <2> QED BY <2>1, <2>2 DEF LineInv, Owner
  <1> QED BY <1>1, <1>2, <1>3

LEMMA LineStep ==
    ASSUME LineInv, [Next]_vars
    PROVE  LineInv'
  <1>1. ASSUME NEW r \in Requests, Acquire(r) PROVE LineInv'
    <2>1. CASE line = <<>>
      BY <1>1, <2>1, RoundOwner, RoundLine DEF Acquire
    <2>2. CASE line # <<>>
      <3> DEFINE longer == Append(line, r)
      <3>1. /\ pc[r] = "idle" /\ line' = longer /\ pc' = [pc EXCEPT ![r] = "queued"]
        BY <1>1, <2>2 DEF Acquire
      <3>2. /\ longer \in Seq(Requests) /\ longer # <<>> /\ IsInjective(longer)
            /\ ToSet(longer) = ToSet(line) \cup {r}
        BY <3>1, AppendMembers DEF LineInv
      <3>3. Head(longer) = Head(line)
        BY <2>2 DEF LineInv
      <3> HIDE DEF longer
      <3> QED BY <2>2, <3>1, <3>2, <3>3 DEF LineInv
    <2> QED BY <2>1, <2>2
  <1>2. ASSUME NEW r \in Requests, TakeLock(r) \/ Wake(r) PROVE LineInv'
    BY <1>2, RoundOwner, RoundLine DEF TakeLock, Wake
  <1>3. ASSUME NEW r \in Requests, Cancel(r) PROVE LineInv'
    <2> DEFINE left == RemoveFirst(line, r)
    <2>1. line' = left /\ pc' = [pc EXCEPT ![r] = "idle"]
      BY <1>3 DEF Cancel
    <2>2. /\ left \in Seq(Requests) /\ IsInjective(left) /\ ToSet(left) = ToSet(line) \ {r}
      BY RemoveFirstMembers DEF LineInv
    <2>3. line # <<>> /\ Head(line) # r => left # <<>> /\ Head(left) = Head(line)
      BY HeadStays DEF LineInv
    <2> HIDE DEF left
    <2> QED BY <2>1, <2>2, <2>3 DEF LineInv
  <1>4. CASE line' = line /\ pc' = pc
    BY <1>4 DEF LineInv
  <1> QED BY <1>1, <1>2, <1>3, <1>4 DEF Next, Tick, vars

LEMMA LineInvAlways == Spec => []LineInv
  <1>1. Init => LineInv
    <2>1. ToSet(<<>>) = {} /\ IsInjective(<<>>)
      BY DEF ToSet, IsInjective
    <2> QED BY <2>1 DEF Init, LineInv
  <1> QED BY <1>1, LineStep, PTL DEF Spec

\* The line of the lock holds exactly the calls in progress, each once, and only
\* its owner sleeps, whoever is cancelled and in whatever order they come
\* (limiter.py:48-50).
THEOREM LineExactAlways == Spec => []LineExact
  <1>1. LineInv => LineExact
    BY DistinctCount DEF LineInv, LineExact
  <1> QED BY <1>1, LineInvAlways, PTL-----------------------------------------------------------------------------
(* The sleep.  While its owner sleeps nobody else touches the bucket, so the *)
(* instant it was told to pass stays right: from the tick after it on there  *)
(* is room and there are tokens, and before it one of the two is missing.    *)

Ascending(times) == \A i, j \in 1 .. Len(times) : i <= j => times[i] <= times[j]

DequeInv ==
    /\ HasLimit => Len(admissions) <= Limit
    /\ Ascending(admissions)
    /\ \A i \in 1 .. Len(admissions) : admissions[i] <= now

\* The instant Delay aims at, in terms of what the round has left in the bucket.
ForTokens(r) == IF Cost[r] <= tokens THEN 0 ELSE (Cost[r] - tokens) \div Rate
ForWindow == IF Full(admissions) THEN admissions[1] + Window - updatedAt ELSE 0
Planned(r) == updatedAt + Larger(ForTokens(r), ForWindow)

SleepInv ==
    /\ naps \in [Requests -> 0 .. 1]
    /\ \A r \in Requests :
        /\ pc[r] # "idle" => Cost[r] <= Capacity
        /\ pc[r] = "asleep" => sleepUntil = Planned(r)
        /\ pc[r] # "asleep" => naps[r] = 0

NapInv == Typed /\ LineInv /\ DequeInv /\ SleepInv

\* The tokens that are missing take the division's ticks and less than one more.
LEMMA MissingTokens ==
    ASSUME NEW x \in Nat, NEW d \in Nat
    PROVE  LET ticks == x \div Rate
           IN  /\ ticks \in Nat
               /\ d > ticks => d * Rate > x
               /\ d < ticks => d * Rate < x
  <1> DEFINE ticks == x \div Rate
  <1>1. Rate \in Nat \ {0}
    BY BucketAssumption
  <1>2. ticks \in Nat /\ ticks * Rate <= x /\ x < ticks * Rate + Rate
    BY <1>1
  <1> HIDE DEF ticks
  <1>3. ASSUME d > ticks PROVE d * Rate > x
    <2>1. d * Rate >= (ticks + 1) * Rate
      BY <1>1, <1>2, <1>3
    <2> QED BY <1>1, <1>2, <2>1
  <1>4. ASSUME d < ticks PROVE d * Rate < x
    <2>1. (d + 1) * Rate <= ticks * Rate
      BY <1>1, <1>2, <1>4
    <2> QED BY <1>1, <1>2, <2>1
  <1> QED BY <1>2, <1>3, <1>4 DEF ticks

LEMMA KeptDeque ==
    ASSUME Typed, DequeInv, NEW k \in 0 .. Len(admissions)
    PROVE  /\ Kept(k) \in Seq(Nat) /\ Len(Kept(k)) = Len(admissions) - k
           /\ \A i \in 1 .. Len(Kept(k)) : Kept(k)[i] = admissions[k + i]
           /\ Ascending(Kept(k))
           /\ \A i \in 1 .. Len(Kept(k)) : Kept(k)[i] <= now
  <1> DEFINE kept == Kept(k)
  <1>1. /\ kept \in Seq(Nat) /\ Len(kept) = Len(admissions) - k
        /\ \A i \in 1 .. Len(kept) : kept[i] = admissions[k + i]
        /\ Len(admissions) \in Nat
    <2> DEFINE n == Len(admissions)
               t == SubSeq(admissions, k + 1, n)
    <2>1. n \in Nat /\ k \in 0 .. n /\ k + 1 \in Int
          /\ \A i \in k + 1 .. n : admissions[i] \in Nat
      BY LenProperties, ElementOfSeq DEF Typed
    <2>2. kept = t
      BY DEF Kept
    <2> HIDE DEF n, kept
    <2>3. /\ t \in Seq(Nat)
          /\ Len(t) = IF k + 1 <= n THEN n - (k + 1) + 1 ELSE 0
          /\ \A i \in 1 .. n - (k + 1) + 1 : t[i] = admissions[k + 1 + i - 1]
      BY <2>1, SubSeqProperties
    <2> HIDE DEF t
    <2>4. Len(t) = n - k
      BY <2>1, <2>3
    <2>5. \A i \in 1 .. Len(t) : t[i] = admissions[k + i]
      BY <2>1, <2>3, <2>4
    <2> QED BY <2>1, <2>2, <2>3, <2>4, <2>5 DEF n
  <1> HIDE DEF kept
  <1>2. \A i \in 1 .. Len(kept) : k + i \in 1 .. Len(admissions)
    <2> DEFINE n == Len(admissions)
               m == Len(kept)
    <2>1. n \in Nat /\ m = n - k /\ k \in 0 .. n
      BY <1>1
    <2> HIDE DEF n, m
    <2>2. \A i \in 1 .. m : k + i \in 1 .. n
      BY <2>1
    <2> QED BY <2>2 DEF n, m
  <1>3. Ascending(kept)
    <2> SUFFICES ASSUME NEW i \in 1 .. Len(kept), NEW j \in 1 .. Len(kept), i <= j
                 PROVE  kept[i] <= kept[j]
      BY DEF Ascending
    <2>1. /\ k + i \in 1 .. Len(admissions) /\ k + j \in 1 .. Len(admissions)
          /\ k + i <= k + j
      BY <1>2
    <2>2. admissions[k + i] <= admissions[k + j]
      BY <2>1 DEF DequeInv, Ascending
    <2> QED BY <1>1, <2>2
  <1> QED BY <1>1, <1>2, <1>3 DEF DequeInv, kept

LEMMA PlannedTyped ==
    ASSUME Typed, NEW r \in Requests
    PROVE  ForTokens(r) \in Int /\ ForWindow \in Int /\ Planned(r) \in Int
  <1> USE BucketAssumption
  <1>1. /\ tokens \in Int /\ updatedAt \in Int /\ Cost[r] \in Nat
        /\ admissions \in Seq(Nat) /\ Len(admissions) \in Nat
    BY DEF Typed
  <1>2. ForTokens(r) \in Int /\ ForWindow \in Int
    <2>1. ASSUME Cost[r] <= tokens PROVE ForTokens(r) \in Int
      BY <2>1 DEF ForTokens
    <2>2. ASSUME ~ (Cost[r] <= tokens) PROVE ForTokens(r) \in Int
      BY <1>1, <2>2 DEF ForTokens
    <2>3. Full(admissions) => admissions[1] \in Nat
      <3>1. Full(admissions) => 1 \in 1 .. Len(admissions)
        BY <1>1 DEF Full
      <3> QED BY <1>1, <3>1
    <2>4. ForWindow \in Int
      BY <1>1, <2>3 DEF ForWindow
    <2> QED BY <2>1, <2>2, <2>4
  <1>3. updatedAt + ForTokens(r) \in Int /\ updatedAt + ForWindow \in Int
    BY <1>1, <1>2
  <1> QED BY <1>1, <1>2, <1>3 DEF Planned, Larger

\* A sleep that has been slept out: the round finds tokens and room.
LEMMA SleptOut ==
    ASSUME NapInv, NEW r \in Requests, pc[r] = "asleep", sleepUntil < now,
           NEW k \in 0 .. Len(admissions), Kept(k) # <<>> => Counts(Kept(k)[1])
    PROVE  Available >= Cost[r] /\ ~Full(Kept(k))
  <1> USE BucketAssumption
  <1> DEFINE d == now - updatedAt
             kept == Kept(k)
             x == Cost[r] - tokens
  <1>1. /\ sleepUntil = Planned(r) /\ Cost[r] <= Capacity
        /\ tokens \in 0 .. Capacity /\ updatedAt \in 0 .. now /\ now \in Nat
        /\ Cost[r] \in Nat \ {0} /\ Capacity \in Nat
        /\ admissions \in Seq(Nat) /\ Len(admissions) \in Nat
    BY DEF NapInv, SleepInv, Typed
  <1>2. ForTokens(r) \in Int /\ ForWindow \in Int
    BY PlannedTyped DEF NapInv
  <1>3. d > ForTokens(r) /\ d > ForWindow /\ d \in Nat
    BY <1>1, <1>2 DEF Planned, Larger
  <1> DEFINE refill == d * Rate
  <1>4. refill \in Nat /\ Available = Smaller(Capacity, tokens + refill)
    BY <1>3 DEF Available
  <1> HIDE DEF refill
  <1>5. Available >= Cost[r]
    <2>1. CASE Cost[r] <= tokens
      BY <1>1, <1>4, <2>1 DEF Smaller
    <2>2. CASE Cost[r] > tokens
      <3>1. x \in Nat /\ ForTokens(r) = x \div Rate
        BY <1>1, <2>2 DEF ForTokens
      <3> HIDE DEF d, x
      <3>2. refill > x
        BY <1>3, <3>1, MissingTokens DEF refill
      <3> QED BY <1>1, <1>4, <3>1, <3>2 DEF Smaller, x
    <2> QED BY <1>1, <2>1, <2>2
  <1>6. ~Full(kept)
    <2>1. /\ kept \in Seq(Nat) /\ Len(kept) = Len(admissions) - k
          /\ \A i \in 1 .. Len(kept) : kept[i] = admissions[k + i]
      BY KeptDeque DEF NapInv
    <2>2. CASE HasLimit /\ Len(admissions) >= Limit /\ k = 0
      <3>1. /\ Full(admissions) /\ 1 \in 1 .. Len(kept) /\ kept # <<>>
            /\ kept[1] = admissions[1] /\ admissions[1] \in Nat
        BY <1>1, <2>1, <2>2 DEF Full
      <3>2. now <= admissions[1] + Window
        BY <3>1 DEF Counts
      <3> QED BY SMTT(30), <1>1, <1>3, <3>1, <3>2 DEF ForWindow
    <2>3. CASE HasLimit /\ (Len(admissions) < Limit \/ k > 0)
      BY <1>1, <2>1, <2>3 DEF NapInv, DequeInv, Full
    <2>4. CASE ~HasLimit
      BY <2>4 DEF Full
    <2> QED BY <1>1, <2>2, <2>3, <2>4
  <1> QED BY <1>5, <1>6

\* What a round leaves: the deque in order and within the limit, and a sleeper
\* with the right instant ahead of it.
LEMMA RoundDeque ==
    ASSUME Typed, DequeInv, NEW r \in Requests, NEW rest, Round(r, rest)
    PROVE  DequeInv'
  <1> USE BucketAssumption
  <1>1. PICK k \in 0 .. Len(admissions) : Admit(r, Kept(k), rest) \/ Sleep(r, Kept(k), rest)
    BY DEF Round, Kept
  <1> DEFINE kept == Kept(k)
  <1>2. /\ kept \in Seq(Nat) /\ Len(kept) = Len(admissions) - k
        /\ Ascending(kept) /\ \A i \in 1 .. Len(kept) : kept[i] <= now
        /\ now \in Nat /\ now' = now /\ Len(admissions) \in Nat
    BY KeptDeque DEF Typed, Round
  <1>3. Admit(r, kept, rest) \/ Sleep(r, kept, rest)
    BY <1>1
  <1> HIDE DEF kept
  <1>4. CASE Admit(r, kept, rest) /\ HasLimit
    <2> DEFINE longer == Append(kept, now)
    <2>1. admissions' = longer /\ Len(kept) < Limit
      BY <1>2, <1>4 DEF Admit, Full
    <2>2. /\ Len(longer) = Len(kept) + 1 /\ longer[Len(kept) + 1] = now
          /\ \A i \in 1 .. Len(kept) : longer[i] = kept[i]
          /\ Len(kept) \in Nat /\ \A i \in 1 .. Len(kept) : kept[i] \in Nat
      BY SMTT(30), <1>2, AppendProperties
    <2> HIDE DEF longer
    <2>3. ASSUME NEW i \in 1 .. Len(longer) PROVE longer[i] <= now
      <3>1. CASE i = Len(kept) + 1
        BY <1>2, <2>2, <3>1
      <3>2. CASE i \in 1 .. Len(kept)
        BY <1>2, <2>2, <3>2
      <3> QED BY <2>2, <3>1, <3>2
    <2>4. ASSUME NEW i \in 1 .. Len(longer), NEW j \in 1 .. Len(longer), i <= j
          PROVE  longer[i] <= longer[j]
      <3>1. CASE j = Len(kept) + 1
        BY <2>2, <2>3, <3>1
      <3>2. CASE j # Len(kept) + 1
        <4>1. i \in 1 .. Len(kept) /\ j \in 1 .. Len(kept)
          BY <2>2, <2>4, <3>2
        <4>2. kept[i] <= kept[j]
          BY <1>2, <2>4, <4>1 DEF Ascending
        <4> QED BY <2>2, <4>1, <4>2
      <3> QED BY <3>1, <3>2
    <2> QED BY <1>2, <1>4, <2>1, <2>2, <2>3, <2>4 DEF DequeInv, HasLimit, Ascending
  <1>5. CASE Sleep(r, kept, rest) \/ ~HasLimit
    <2>1. admissions' = kept
      BY <1>3, <1>5 DEF Admit, Sleep
    <2> QED BY <1>2, <2>1 DEF DequeInv, HasLimit
  <1> QED BY <1>3, <1>4, <1>5

LEMMA RoundSleep ==
    ASSUME NapInv, NEW r \in Requests, Cost[r] <= Capacity,
           NEW rest, Owner(r, rest), Round(r, rest)
    PROVE  SleepInv'
  <1> USE BucketAssumption
  <1>1. PICK k \in 0 .. Len(admissions) :
            /\ Kept(k) # <<>> => Counts(Kept(k)[1])
            /\ Admit(r, Kept(k), rest) \/ Sleep(r, Kept(k), rest)
    BY DEF Round, Kept
  <1> DEFINE kept == Kept(k)
  <1>2. /\ pc \in [Requests -> {"idle", "queued", "asleep"}] /\ SleepInv
        /\ \A s \in Requests \ {r} : pc[s] # "asleep"
    BY DEF NapInv, LineInv, Owner
  <1>3. CASE Admit(r, kept, rest)
    BY <1>2, <1>3 DEF Admit, SleepInv
  <1>4. CASE Sleep(r, kept, rest)
    <2>1. /\ tokens' = Available /\ admissions' = kept /\ updatedAt' = now
          /\ sleepUntil' = now + Delay(r, kept)
          /\ pc' = [pc EXCEPT ![r] = "asleep"]
          /\ Available < Cost[r] \/ Full(kept)
      BY <1>4 DEF Sleep, Round
    <2>2. sleepUntil' = Planned(r)'
      BY <2>1 DEF Planned, ForTokens, ForWindow, Delay, Full, HasLimit
    <2>3. Available \in Int /\ Cost[r] \in Int /\ now \in Int
      BY AvailableTyped DEF NapInv, Typed
    <2>4. ASSUME pc[r] = "asleep" PROVE now <= sleepUntil
      <3>1. sleepUntil \in Int
        BY <1>2, <2>4, PlannedTyped DEF NapInv, SleepInv
      <3> QED BY <1>1, <2>1, <2>3, <2>4, <3>1, SleptOut
    <2>5. naps' \in [Requests -> 0 .. 1] /\ \A s \in Requests \ {r} : naps'[s] = naps[s]
      <3> DEFINE nap == IF pc[r] = "asleep" /\ now <= sleepUntil THEN naps[r]
                        ELSE Smaller(naps[r] + 1, MaxNaps)
      <3>1. nap \in 0 .. 1
        BY <1>2, <2>4 DEF SleepInv, Smaller
      <3>2. naps' = [naps EXCEPT ![r] = nap]
        BY <1>4 DEF Sleep
      <3> HIDE DEF nap
      <3> QED BY <1>2, <3>1, <3>2 DEF SleepInv
    <2> QED BY <1>2, <2>1, <2>2, <2>5 DEF SleepInv
  <1> QED BY <1>1, <1>3, <1>4

\* What the other steps do: nothing to the bucket or a sleeper's instant.
LEMMA RestSleep ==
    ASSUME NapInv, UNCHANGED <<bucket, sleepUntil>>, now' \in Nat, now' >= now,
           naps' \in [Requests -> 0 .. 1],
           \A r \in Requests :
            /\ pc'[r] # "idle" => Cost[r] <= Capacity
            /\ pc'[r] = "asleep" => pc[r] = "asleep"
            /\ pc'[r] # "asleep" => naps'[r] = 0
    PROVE  DequeInv' /\ SleepInv'
  <1>1. /\ tokens' = tokens /\ updatedAt' = updatedAt /\ admissions' = admissions
        /\ sleepUntil' = sleepUntil
    BY DEF bucket
  <1>2. admissions \in Seq(Nat) /\ now \in Nat /\ DequeInv /\ SleepInv
    BY DEF NapInv, Typed
  <1>3. DequeInv'
    <2>1. \A i \in 1 .. Len(admissions) : admissions[i] <= now'
      <3> TAKE i \in 1 .. Len(admissions)
      <3>1. admissions[i] \in Nat /\ admissions[i] <= now
        BY <1>2 DEF DequeInv
      <3> QED BY <1>2, <3>1
    <2> QED BY <1>1, <1>2, <2>1 DEF DequeInv, Ascending, HasLimit
  <1>4. \A r \in Requests : Planned(r)' = Planned(r)
    BY <1>1 DEF Planned, ForTokens, ForWindow, Full, HasLimit
  <1>5. SleepInv'
    BY <1>1, <1>2, <1>4 DEF SleepInv
  <1> QED BY <1>3, <1>5

LEMMA NapStep ==
    ASSUME NapInv, [Next]_vars
    PROVE  NapInv'
  <1>1. Typed' /\ LineInv'
    BY StepEffect, TypedStep, LineStep DEF NapInv
  <1>2. /\ SleepInv /\ now \in Nat /\ LineInv
        /\ pc \in [Requests -> {"idle", "queued", "asleep"}]
    BY DEF NapInv, Typed, LineInv
  <1>3. ASSUME NEW r \in Requests, Cost[r] <= Capacity,
               NEW rest, Owner(r, rest), Round(r, rest)
        PROVE  DequeInv' /\ SleepInv'
    BY <1>3, RoundDeque, RoundSleep DEF NapInv
  <1>4. ASSUME NEW r \in Requests, Acquire(r) PROVE DequeInv' /\ SleepInv'
    <2>1. CASE line = <<>>
      BY <1>2, <1>3, <1>4, <2>1, RoundOwner DEF Acquire
    <2>2. CASE line # <<>>
      <3>1. /\ Cost[r] <= Capacity /\ pc[r] = "idle" /\ pc' = [pc EXCEPT ![r] = "queued"]
            /\ naps' = naps /\ now' = now /\ UNCHANGED <<bucket, sleepUntil>>
        BY <1>4, <2>2 DEF Acquire
      <3> QED BY <1>2, <3>1, RestSleep DEF SleepInv
    <2> QED BY <2>1, <2>2
  <1>5. ASSUME NEW r \in Requests, TakeLock(r) \/ Wake(r) PROVE DequeInv' /\ SleepInv'
    <2>1. pc[r] # "idle" /\ Round(r, Tail(line))
      BY <1>5 DEF TakeLock, Wake
    <2>2. Cost[r] <= Capacity
      BY <1>2, <2>1 DEF SleepInv
    <2> QED BY <1>2, <1>3, <1>5, <2>1, <2>2, RoundOwner
  <1>6. ASSUME NEW r \in Requests, Cancel(r) PROVE DequeInv' /\ SleepInv'
    <2>1. /\ pc' = [pc EXCEPT ![r] = "idle"] /\ naps' = [naps EXCEPT ![r] = 0]
          /\ now' = now /\ UNCHANGED <<bucket, sleepUntil>>
      BY <1>6 DEF Cancel
    <2> QED BY <1>2, <2>1, RestSleep DEF SleepInv
  <1>7. ASSUME Tick \/ UNCHANGED vars PROVE DequeInv' /\ SleepInv'
    <2>1. /\ pc' = pc /\ naps' = naps /\ UNCHANGED <<bucket, sleepUntil>>
          /\ now' \in Nat /\ now' >= now
      BY <1>2, <1>7 DEF Tick, vars
    <2> QED BY <1>2, <2>1, RestSleep DEF SleepInv
  <1> QED BY <1>1, <1>4, <1>5, <1>6, <1>7 DEF Next, NapInv

LEMMA NapInvAlways == Spec => []NapInv
  <1>1. Init => NapInv
    <2> SUFFICES ASSUME Init PROVE NapInv
      OBVIOUS
    <2>1. Typed
      BY InitTyped
    <2>2. LineInv
      <3>1. ToSet(<<>>) = {} /\ IsInjective(<<>>)
        BY DEF ToSet, IsInjective
      <3> QED BY <3>1 DEF Init, LineInv
    <2>3. DequeInv
      BY BucketAssumption DEF Init, DequeInv, Ascending
    <2>4. SleepInv
      BY DEF Init, SleepInv
    <2> QED BY <2>1, <2>2, <2>3, <2>4 DEF NapInv
  <1> QED BY <1>1, NapStep, PTL DEF Spec

\* One sleep is enough, for every rate, capacity, limit and window, and however
\* early timers run: a request that slept past the instant it was to pass is
\* admitted by the round it wakes to (limiter.py:66-69).
THEOREM OneNapAlways == Spec => []OneNap
  <1>1. NapInv => OneNap
    BY DEF NapInv, SleepInv, OneNap
  <1> QED BY <1>1, NapInvAlways, PTL

\* Nor is a sleep too long: up to the instant it was to pass, tokens or room in
\* the window are missing (limiter.py:66-68).
THEOREM NoOversleepAlways == Spec => []NoOversleep
  <1>1. ASSUME NapInv, NEW r \in Requests, pc[r] = "asleep", now < sleepUntil, Admissible(r)
        PROVE  FALSE
    <2> USE BucketAssumption
    <2> DEFINE d == now - updatedAt
               x == Cost[r] - tokens
               n == Len(admissions)
    <2>1. /\ sleepUntil = Planned(r) /\ Cost[r] <= Capacity
          /\ tokens \in 0 .. Capacity /\ updatedAt \in 0 .. now /\ now \in Nat
          /\ Cost[r] \in Nat \ {0} /\ Capacity \in Nat
          /\ admissions \in Seq(Nat) /\ n \in Nat
      BY <1>1 DEF NapInv, SleepInv, Typed
    <2>2. ForTokens(r) \in Int /\ ForWindow \in Int
      BY <1>1, PlannedTyped DEF NapInv
    <2>3. d \in Nat /\ (d < ForTokens(r) \/ d < ForWindow)
      BY <1>1, <2>1, <2>2 DEF Planned, Larger
    <2>4. CASE d < ForTokens(r)
      <3> DEFINE refill == d * Rate
      <3>1. Cost[r] > tokens /\ x \in Nat /\ ForTokens(r) = x \div Rate
        BY <2>1, <2>3, <2>4 DEF ForTokens
      <3>2. refill \in Nat /\ Available = Smaller(Capacity, tokens + refill)
        BY <2>3 DEF Available
      <3> HIDE DEF d, x
      <3>3. refill < x
        BY <2>3, <2>4, <3>1, MissingTokens
      <3> HIDE DEF refill
      <3>4. Available < Cost[r]
        BY <2>1, <3>2, <3>3 DEF Smaller, x
      <3>5. Available \in Int
        BY <1>1, AvailableTyped DEF NapInv
      <3> QED BY <1>1, <2>1, <3>4, <3>5 DEF Admissible
    <2>5. CASE d < ForWindow
      <3>1. HasLimit /\ n >= Limit /\ 1 \in 1 .. n /\ now < admissions[1] + Window
        <4>1. Full(admissions)
          BY <2>3, <2>5 DEF ForWindow
        <4>2. 1 \in 1 .. n /\ admissions[1] \in Nat
          BY <2>1, <4>1 DEF Full
        <4> QED BY <2>1, <2>5, <4>1, <4>2, SMTT(30) DEF ForWindow, Full
      <3>2. ASSUME NEW i \in 1 .. n PROVE Counts(admissions[i])
        <4>1. admissions[1] <= admissions[i] /\ admissions[i] \in Nat /\ admissions[1] \in Nat
          BY <1>1, <2>1, <3>1 DEF NapInv, DequeInv, Ascending
        <4> QED BY <2>1, <3>1, <4>1, SMTT(30) DEF Counts
      <3>3. {i \in DOMAIN admissions : Counts(admissions[i])} = 1 .. n
        BY <2>1, <3>2
      <3>4. n \in Int /\ Limit \in Int /\ n >= 1
        BY <2>1, <3>1
      <3> HIDE DEF n
      <3>5. Cardinality(1 .. n) = IF 1 > n THEN 0 ELSE n - 1 + 1
        BY <3>4, FS_Interval
      <3>6. Cardinality(1 .. n) = n
        BY <3>4, <3>5
      <3>7. AdmissionsInWindow = n
        BY <3>3, <3>6 DEF AdmissionsInWindow
      <3> QED BY <1>1, <3>1, <3>4, <3>7 DEF Admissible
    <2> QED BY <2>3, <2>4, <2>5
  <1>2. NapInv => NoOversleep
    BY <1>1 DEF NoOversleep
  <1> QED BY <1>2, NapInvAlways, PTL
=============================================================================

------------------------- MODULE FairLimiterProofs -------------------------
(***************************************************************************)
(* What holds of the limiter for every policy, every set of requests and   *)
(* every choice of cancellations, the harmful one included.                *)
(***************************************************************************)
EXTENDS FairShare, ClassTurnsProofs, SequenceLemmas, TLAPS

\* The turn is only handed out when nobody has it.
LEMMA TurnKept ==
    ASSUME NEW q, NEW cs, NEW turn, SelectIfIdle(q, cs, turn), turn # None
    PROVE  serving' = turn
  BY DEF SelectIfIdle, StayPut

\* Who is at the bucket holds the turn: OneAtTheBucket is inductive as stated,
\* because a request gets there only in the step that finds it holding the turn,
\* and a turn is passed on only by its holder.
LEMMA AtBucketStep ==
    ASSUME OneAtTheBucket, [Next]_vars,
           pc \in [Requests -> Awaits \cup {"idle", "gone"}]
    PROVE  OneAtTheBucket'
  <1> USE LimiterAssumption
  <1> SUFFICES ASSUME NEW s \in Requests,
                      pc'[s] \in {"admitting", "settling"}
               PROVE  s = serving'
    BY DEF OneAtTheBucket, AtBucket
  <1>0. pc[s] \in {"admitting", "settling"} => s = serving /\ serving # None
    BY DEF OneAtTheBucket, AtBucket
  <1>1. ASSUME NEW r \in Requests, Join(r) PROVE s = serving'
    <2>1. CASE s = r
      BY <1>1, <2>1 DEF Join
    <2>2. CASE s # r
      <3>1. pc[s] \in {"admitting", "settling"}
        BY <1>1, <2>2 DEF Join
      <3>2. serving' = serving
        BY <1>0, <1>1, <3>1, TurnKept DEF Join
      <3> QED BY <1>0, <3>1, <3>2
    <2> QED BY <2>1, <2>2
  <1>2. ASSUME NEW r \in Requests, TakeTurn(r) PROVE s = serving'
    BY <1>0, <1>2 DEF TakeTurn
  <1>3. ASSUME NEW r \in Requests, pc[r] = "waiting", Abandon(r) PROVE s = serving'
    <2>1. s # r /\ pc[s] \in {"admitting", "settling"}
      BY <1>3 DEF Abandon
    <2>2. serving # r /\ serving # None
      BY <1>0, <2>1
    <2>3. serving' = serving
      BY <1>3, <2>2, TurnKept DEF Abandon
    <2> QED BY <1>0, <2>1, <2>3
  <1>4. ASSUME NEW r \in Requests, NEW how, Decided(r, how) PROVE s = serving'
    BY <1>0, <1>4 DEF Decided
  <1>5. ASSUME NEW r \in Requests, Finish(r) PROVE s = serving'
    <2>1. s # r /\ pc[s] \in {"admitting", "settling"}
      BY <1>5 DEF Finish
    <2>2. r = serving
      BY <1>5 DEF Finish, OneAtTheBucket, AtBucket
    <2> QED BY <1>0, <2>1, <2>2
  <1>6. ASSUME NEW r \in Requests, CancelAdmitting(r) PROVE s = serving'
    BY <1>0, <1>6 DEF CancelAdmitting, MayCancel
  <1>7. ASSUME NEW r \in Requests, CancelSettling(r) PROVE s = serving'
    BY <1>0, <1>7 DEF CancelSettling
  <1>8. ASSUME serving' = serving, pc' = pc PROVE s = serving'
    BY <1>0, <1>8
  <1>9. ASSUME NEW r \in Requests, Resumed(r) \/ Cancelled(r) PROVE s = serving'
    BY <1>2, <1>3, <1>4, <1>5, <1>6, <1>7, <1>8, <1>9
       DEF Resumed, Cancelled, WaitAgain, LeaveClosed, BucketGrants,
           CancelWaiting, MayCancel
  <1> QED
    BY <1>1, <1>8, <1>9 DEF Next, vars, JoinClosed, Close

\* The waits a request goes through (the part of TypeOK the proof needs).
LEMMA PhaseStep ==
    ASSUME pc \in [Requests -> Awaits \cup {"idle", "gone"}], [Next]_vars
    PROVE  pc' \in [Requests -> Awaits \cup {"idle", "gone"}]
  BY DEF Next, vars, Join, JoinClosed, Resumed, Cancelled, TakeTurn, WaitAgain,
         LeaveClosed, Abandon, BucketGrants, Decided, Finish, CancelWaiting,
         CancelAdmitting, CancelSettling, Close, Awaits

\* "Serialize token admission" (fairness.py:50): whatever the classes, weights
\* and callers, and wherever a disconnect lands, at most one request is at the
\* venue's bucket, and it is the one that was given the turn.
THEOREM OneAtTheBucketAlways == Spec => []OneAtTheBucket
  <1> DEFINE Phases == pc \in [Requests -> Awaits \cup {"idle", "gone"}]
  <1>1. Init => Phases /\ OneAtTheBucket
    BY DEF Init, OneAtTheBucket, AtBucket, Awaits
  <1>2. Phases /\ OneAtTheBucket /\ [Next]_vars => (Phases /\ OneAtTheBucket)'
    BY AtBucketStep, PhaseStep
  <1> QED
    BY <1>1, <1>2, PTL DEF Spec
-----------------------------------------------------------------------------
\* The callers with waiters of a class, each once: CallersListed, of the queues
\* and deques that an action hands to the selection.
Listed(q, cs) ==
    \A k \in Classes :
        /\ ToSet(cs[k]) = {c \in Callers : ClassOf[c] = k /\ q[c] # <<>>}
        /\ IsInjective(cs[k])

QueuesTyped(q, cs) ==
    /\ q \in [Callers -> Seq(Requests)]
    /\ cs \in [Classes -> Seq(Callers)]

\* A queue holds requests of its caller, each once.
Sorted(q) ==
    \A c \in Callers : IsInjective(q[c]) /\ \A r \in ToSet(q[c]) : CallerOf[r] = c

\* SelectNext, with its choice named: the first caller of a class gives the turn
\* to its first waiter and goes to the end of the rotation, if it has more.
Rotated(q, cs, caller) ==
    /\ q[caller] # <<>>
    /\ cs[ClassOf[caller]] # <<>>
    /\ Head(cs[ClassOf[caller]]) = caller
    /\ serving' = Head(q[caller])
    /\ queue' = [q EXCEPT ![caller] = Tail(@)]
    /\ callers' = [cs EXCEPT ![ClassOf[caller]] =
            IF Tail(q[caller]) = <<>> THEN Tail(@) ELSE Append(Tail(@), caller)]

LEMMA ClassTyped ==
    ASSUME NEW c \in Callers
    PROVE  ClassOf[c] \in Classes
  BY LimiterAssumption

LEMMA Selection ==
    ASSUME NEW q, NEW cs, NEW turn, SelectIfIdle(q, cs, turn),
           QueuesTyped(q, cs), Listed(q, cs), scores \in [Classes -> Int]
    PROVE  /\ scores' \in [Classes -> Int]
           /\ \/ /\ turn # None \/ closed \/ \A c \in Callers : q[c] = <<>>
                 /\ queue' = q /\ callers' = cs /\ serving' = turn
              \/ /\ turn = None /\ ~closed
                 /\ \E caller \in Callers : Rotated(q, cs, caller)
  <1> DEFINE active == {k \in Classes : cs[k] # <<>>}
  <1>1. CASE turn # None \/ closed
    BY <1>1 DEF SelectIfIdle, StayPut
  <1>2. CASE active = {}
    <2>1. ASSUME NEW c \in Callers PROVE q[c] = <<>>
      <3>1. ClassOf[c] \in Classes /\ cs[ClassOf[c]] = <<>>
        BY <1>2, ClassTyped
      <3>2. ToSet(cs[ClassOf[c]]) = {}
        BY <3>1, Members DEF QueuesTyped
      <3> QED BY <3>1, <3>2 DEF Listed
    <2> QED BY <1>2, <2>1 DEF SelectIfIdle, StayPut
  <1>3. CASE ~ (turn # None \/ closed) /\ active # {}
    <2> DEFINE class == Chosen(scores, active)
               caller == Head(cs[class])
    <2>1. SelectNext(q, cs, active)
      BY <1>3 DEF SelectIfIdle
    <2>2. class \in active
      <3> HIDE DEF active
      <3>1. active \in SUBSET Classes
        BY DEF active
      <3> QED BY <1>3, <3>1, ChosenActive
    <2>3. scores' \in [Classes -> Int]
      <3>1. scores' = Settled(scores, active) /\ active \in SUBSET Classes
        BY <2>1 DEF SelectNext
      <3> HIDE DEF active
      <3> QED BY <3>1, SettledTyped
    <2>4. class \in Classes /\ cs[class] # <<>> /\ cs[class] \in Seq(Callers)
      BY <2>2 DEF QueuesTyped
    <2>5. caller \in ToSet(cs[class])
      BY <2>4, TailMembers
    <2>6. caller \in Callers /\ ClassOf[caller] = class /\ q[caller] # <<>>
      BY <2>4, <2>5 DEF Listed
    <2>7. /\ serving' = Head(q[caller])
          /\ queue' = [q EXCEPT ![caller] = Tail(q[caller])]
          /\ callers' = [cs EXCEPT ![class] =
                IF Tail(q[caller]) = <<>> THEN Tail(cs[class])
                ELSE Append(Tail(cs[class]), caller)]
      BY <2>1 DEF SelectNext
    <2> HIDE DEF class, active
    <2>8. Rotated(q, cs, caller)
      BY <2>4, <2>6, <2>7 DEF Rotated
    <2> QED BY <1>3, <2>3, <2>6, <2>8
  <1> QED BY <1>1, <1>2, <1>3

\* What a rotation leaves: the deques still name the callers with waiters, and
\* the one who got the turn is in no queue.
LEMMA RotatedQueues ==
    ASSUME NEW q, NEW cs, NEW caller \in Callers, Rotated(q, cs, caller),
           QueuesTyped(q, cs), Listed(q, cs), Sorted(q)
    PROVE  /\ QueuesTyped(queue', callers') /\ Listed(queue', callers') /\ Sorted(queue')
           /\ serving' \in ToSet(q[caller]) /\ serving' \in Requests
           /\ CallerOf[serving'] = caller
           /\ \A c \in Callers : ToSet(queue'[c]) = ToSet(q[c]) \ {serving'}
  <1> DEFINE class == ClassOf[caller]
             rest == Tail(q[caller])
             order == IF rest = <<>> THEN Tail(cs[class]) ELSE Append(Tail(cs[class]), caller)
  <1>1. /\ class \in Classes /\ q[caller] \in Seq(Requests) /\ q[caller] # <<>>
        /\ cs[class] \in Seq(Callers) /\ cs[class] # <<>> /\ Head(cs[class]) = caller
        /\ IsInjective(cs[class]) /\ IsInjective(q[caller])
    BY ClassTyped DEF Rotated, QueuesTyped, Listed, Sorted
  <1>2. /\ queue' = [q EXCEPT ![caller] = rest]
        /\ callers' = [cs EXCEPT ![class] = order]
        /\ serving' = Head(q[caller])
    BY DEF Rotated
  <1>3. /\ rest \in Seq(Requests) /\ IsInjective(rest)
        /\ serving' \in ToSet(q[caller]) /\ serving' \in Requests
        /\ ToSet(rest) = ToSet(q[caller]) \ {serving'}
    BY <1>1, <1>2, TailMembers, SMTT(30)
  <1>4. CallerOf[serving'] = caller
    BY <1>3 DEF Sorted
  <1> DEFINE tail == Tail(cs[class])
  <1>5. /\ tail \in Seq(Callers) /\ IsInjective(tail)
        /\ ToSet(tail) = ToSet(cs[class]) \ {caller} /\ caller \in ToSet(cs[class])
    BY <1>1, TailMembers
  <1>6. /\ order \in Seq(Callers) /\ IsInjective(order)
        /\ ToSet(order) = IF rest = <<>> THEN ToSet(cs[class]) \ {caller}
                          ELSE ToSet(cs[class])
    <2> HIDE DEF tail, rest
    <2>1. CASE rest = <<>>
      BY <1>5, <2>1 DEF tail
    <2>2. CASE rest # <<>>
      <3>1. order = Append(tail, caller)
        BY <2>2 DEF tail
      <3>2. /\ Append(tail, caller) \in Seq(Callers) /\ IsInjective(Append(tail, caller))
            /\ ToSet(Append(tail, caller)) = ToSet(tail) \cup {caller}
        BY <1>5, AppendMembers
      <3> QED BY <1>5, <2>2, <3>1, <3>2
    <2> QED BY <2>1, <2>2
  <1> HIDE DEF rest, order
  <1>7. QueuesTyped(queue', callers')
    BY <1>2, <1>3, <1>6 DEF QueuesTyped
  <1>8. \A c \in Callers : queue'[c] = IF c = caller THEN rest ELSE q[c]
    BY <1>2 DEF QueuesTyped
  <1>9. \A c \in Callers : ToSet(queue'[c]) = ToSet(q[c]) \ {serving'}
    BY <1>3, <1>4, <1>8 DEF Sorted
  <1>10. Sorted(queue')
    BY <1>3, <1>8, <1>9 DEF Sorted
  <1>11. ASSUME NEW k \in Classes
         PROVE  /\ ToSet(callers'[k]) = {c \in Callers : ClassOf[c] = k /\ queue'[c] # <<>>}
                /\ IsInjective(callers'[k])
    <2>1. CASE k = class
      <3>1. callers'[k] = order
        BY <1>1, <1>2, <2>1 DEF QueuesTyped
      <3>2. ToSet(cs[class]) = {c \in Callers : ClassOf[c] = class /\ q[c] # <<>>}
        BY <1>1 DEF Listed
      <3>3. CASE rest = <<>>
        <4>1. \A c \in Callers : queue'[c] # <<>> <=> (c # caller /\ q[c] # <<>>)
          BY <1>1, <1>8, <3>3
        <4>2. ToSet(order) = ToSet(cs[class]) \ {caller}
          BY <1>6, <3>3
        <4> QED BY <1>6, <2>1, <3>1, <3>2, <4>1, <4>2
      <3>4. CASE rest # <<>>
        <4>1. \A c \in Callers : queue'[c] # <<>> <=> q[c] # <<>>
          BY <1>1, <1>8, <3>4
        <4>2. ToSet(order) = ToSet(cs[class])
          BY <1>6, <3>4
        <4> QED BY <1>6, <2>1, <3>1, <3>2, <4>1, <4>2
      <3> QED BY <3>3, <3>4
    <2>2. CASE k # class
      <3>1. callers'[k] = cs[k]
        BY <1>2, <2>2 DEF QueuesTyped
      <3>2. \A c \in Callers : ClassOf[c] = k => queue'[c] = q[c]
        BY <1>8, <2>2
      <3> QED BY <3>1, <3>2 DEF Listed
    <2> QED BY <2>1, <2>2
  <1> QED BY <1>3, <1>4, <1>7, <1>9, <1>10, <1>11 DEF Listed
-----------------------------------------------------------------------------
Shape ==
    /\ QueuesTyped(queue, callers) /\ Listed(queue, callers) /\ Sorted(queue)
    /\ scores \in [Classes -> Int]
    /\ serving \in Requests \cup {None}
    /\ closed \in BOOLEAN
    /\ pc \in [Requests -> Awaits \cup {"idle", "gone"}]
    /\ notified \subseteq Requests

\* Who is queued is at the condition's wait() and does not have the turn.
QueuedWait ==
    \A c \in Callers : \A r \in ToSet(queue[c]) : pc[r] = "waiting" /\ r # serving

\* The turn is held by a call that has not ended (a lost one included).
TurnHeld == serving # None => pc[serving] # "idle"

LimiterInv ==
    /\ Shape
    /\ QueuedWait
    /\ TurnHeld
    /\ WaitersServed
    /\ OneAtTheBucket

\* What the selection leaves, as sets.
Outcome(q, cs, turn) ==
    /\ QueuesTyped(queue', callers') /\ Listed(queue', callers') /\ Sorted(queue')
    /\ scores' \in [Classes -> Int]
    /\ \/ /\ turn # None \/ closed \/ \A c \in Callers : q[c] = <<>>
          /\ queue' = q /\ callers' = cs /\ serving' = turn
       \/ /\ turn = None /\ ~closed
          /\ serving' \in Requests
          /\ serving' \in ToSet(q[CallerOf[serving']])
          /\ Rotated(q, cs, CallerOf[serving'])
          /\ \A c \in Callers : ToSet(queue'[c]) = ToSet(q[c]) \ {serving'}

LEMMA Selected ==
    ASSUME NEW q, NEW cs, NEW turn, SelectIfIdle(q, cs, turn),
           QueuesTyped(q, cs), Listed(q, cs), Sorted(q), scores \in [Classes -> Int]
    PROVE  Outcome(q, cs, turn)
  <1>0. scores' \in [Classes -> Int]
    BY Selection
  <1>1. CASE /\ turn # None \/ closed \/ \A c \in Callers : q[c] = <<>>
             /\ queue' = q /\ callers' = cs /\ serving' = turn
    BY <1>0, <1>1 DEF Outcome
  <1>2. CASE /\ turn = None /\ ~closed
             /\ \E caller \in Callers : Rotated(q, cs, caller)
    <2>1. PICK caller \in Callers : Rotated(q, cs, caller)
      BY <1>2
    <2>2. /\ QueuesTyped(queue', callers') /\ Listed(queue', callers') /\ Sorted(queue')
          /\ serving' \in ToSet(q[caller]) /\ serving' \in Requests
          /\ CallerOf[serving'] = caller
          /\ \A c \in Callers : ToSet(queue'[c]) = ToSet(q[c]) \ {serving'}
      BY <2>1, RotatedQueues
    <2> QED BY <1>0, <1>2, <2>1, <2>2 DEF Outcome
  <1> QED BY <1>1, <1>2, Selection

JoinQueues(r) == [queue EXCEPT ![CallerOf[r]] = Append(@, r)]
JoinCallers(r) == IF queue[CallerOf[r]] # <<>> THEN callers
                  ELSE [callers EXCEPT ![ClassOf[CallerOf[r]]] = Append(@, CallerOf[r])]

\* _enqueue: a newcomer is queued, and its caller named if it was not.
LEMMA Enqueued ==
    ASSUME Shape, QueuedWait, NEW r \in Requests, pc[r] = "idle"
    PROVE  LET q == JoinQueues(r)
               cs == JoinCallers(r)
           IN  /\ QueuesTyped(q, cs) /\ Listed(q, cs) /\ Sorted(q)
               /\ \A c \in Callers : ToSet(q[c]) =
                    IF c = CallerOf[r] THEN ToSet(queue[c]) \cup {r} ELSE ToSet(queue[c])
  <1> DEFINE caller == CallerOf[r]
             class == ClassOf[caller]
             longer == Append(queue[caller], r)
             q == JoinQueues(r)
             cs == JoinCallers(r)
  <1>1. /\ caller \in Callers /\ class \in Classes
        /\ queue \in [Callers -> Seq(Requests)] /\ callers \in [Classes -> Seq(Callers)]
    BY LimiterAssumption DEF Shape, QueuesTyped
  <1>2. r \notin ToSet(queue[caller])
    BY <1>1 DEF QueuedWait
  <1>3. /\ longer \in Seq(Requests) /\ IsInjective(longer) /\ longer # <<>>
        /\ ToSet(longer) = ToSet(queue[caller]) \cup {r}
    <2>1. queue[caller] \in Seq(Requests) /\ IsInjective(queue[caller])
      BY <1>1 DEF Shape, Sorted
    <2>2. /\ longer \in Seq(Requests) /\ IsInjective(longer)
          /\ ToSet(longer) = ToSet(queue[caller]) \cup {r}
      BY <1>2, <2>1, AppendMembers
    <2> HIDE DEF longer
    <2> QED BY <2>2, Members, SMTT(30)
  <1>4. q = [queue EXCEPT ![caller] = longer]
    BY DEF JoinQueues
  <1> HIDE DEF longer
  <1>5. \A c \in Callers : q[c] = IF c = caller THEN longer ELSE queue[c]
    BY <1>1, <1>4
  <1>6. /\ q \in [Callers -> Seq(Requests)] /\ Sorted(q)
        /\ \A c \in Callers : ToSet(q[c]) =
            IF c = caller THEN ToSet(queue[c]) \cup {r} ELSE ToSet(queue[c])
    BY <1>1, <1>3, <1>4, <1>5 DEF Shape, Sorted
  <1>7. CASE queue[caller] # <<>>
    <2>1. cs = callers
      BY <1>7 DEF JoinCallers
    <2>2. \A c \in Callers : q[c] # <<>> <=> queue[c] # <<>>
      BY <1>3, <1>5, <1>7
    <2>3. Listed(q, cs)
      BY <2>1, <2>2 DEF Shape, Listed
    <2> QED BY <1>1, <1>6, <2>1, <2>3 DEF QueuesTyped
  <1>8. CASE queue[caller] = <<>>
    <2> DEFINE order == Append(callers[class], caller)
    <2>1. cs = [callers EXCEPT ![class] = order]
      BY <1>8 DEF JoinCallers
    <2>2. caller \notin ToSet(callers[class])
      BY <1>1, <1>8 DEF Shape, Listed
    <2>3. callers[class] \in Seq(Callers) /\ IsInjective(callers[class])
      BY <1>1 DEF Shape, Listed
    <2>4. /\ order \in Seq(Callers) /\ IsInjective(order)
          /\ ToSet(order) = ToSet(callers[class]) \cup {caller}
      BY <1>1, <2>2, <2>3, AppendMembers
    <2> HIDE DEF order, q, cs
    <2>5. cs \in [Classes -> Seq(Callers)]
      BY <1>1, <2>1, <2>4
    <2>6. \A c \in Callers : q[c] # <<>> <=> c = caller \/ queue[c] # <<>>
      BY <1>3, <1>5
    <2>7. Listed(q, cs)
      <3> SUFFICES ASSUME NEW k \in Classes
                   PROVE  /\ ToSet(cs[k]) = {c \in Callers : ClassOf[c] = k /\ q[c] # <<>>}
                          /\ IsInjective(cs[k])
        BY DEF Listed
      <3>1. /\ ToSet(callers[k]) = {c \in Callers : ClassOf[c] = k /\ queue[c] # <<>>}
            /\ IsInjective(callers[k])
        BY DEF Shape, Listed
      <3>2. CASE k = class
        BY <1>1, <2>1, <2>4, <2>6, <3>1, <3>2
      <3>3. CASE k # class
        BY <1>1, <2>1, <2>6, <3>1, <3>3
      <3> QED BY <3>2, <3>3
    <2> QED BY <1>6, <2>5, <2>7 DEF QueuesTyped, q, cs
  <1> QED BY <1>7, <1>8

LeftQueue(r) == RemoveFirst(queue[CallerOf[r]], r)
LeftQueues(r) == [queue EXCEPT ![CallerOf[r]] = LeftQueue(r)]
LeftCallers(r) ==
    IF LeftQueue(r) # <<>> THEN callers
    ELSE [callers EXCEPT ![ClassOf[CallerOf[r]]] = RemoveFirst(@, CallerOf[r])]

\* _abandon of a queued waiter: its caller is forgotten with its last waiter.
LEMMA Withdrawn ==
    ASSUME Shape, NEW r \in Requests, r \in ToSet(queue[CallerOf[r]])
    PROVE  LET q == LeftQueues(r)
               cs == LeftCallers(r)
           IN  /\ QueuesTyped(q, cs) /\ Listed(q, cs) /\ Sorted(q)
               /\ \A c \in Callers : ToSet(q[c]) = ToSet(queue[c]) \ {r}
  <1> DEFINE caller == CallerOf[r]
             class == ClassOf[caller]
             left == LeftQueue(r)
             q == LeftQueues(r)
             cs == LeftCallers(r)
  <1>1. /\ caller \in Callers /\ class \in Classes
        /\ queue \in [Callers -> Seq(Requests)] /\ callers \in [Classes -> Seq(Callers)]
    BY LimiterAssumption DEF Shape, QueuesTyped
  <1>2. /\ left \in Seq(Requests) /\ IsInjective(left)
        /\ ToSet(left) = ToSet(queue[caller]) \ {r}
    <2>1. queue[caller] \in Seq(Requests) /\ IsInjective(queue[caller])
      BY <1>1 DEF Shape, Sorted
    <2> QED BY <2>1, RemoveFirstMembers DEF LeftQueue
  <1>3. q = [queue EXCEPT ![caller] = left]
    BY DEF LeftQueues
  <1> HIDE DEF left
  <1>4. \A c \in Callers : q[c] = IF c = caller THEN left ELSE queue[c]
    BY <1>1, <1>3
  <1>5. /\ q \in [Callers -> Seq(Requests)] /\ Sorted(q)
        /\ \A c \in Callers : ToSet(q[c]) = ToSet(queue[c]) \ {r}
    BY <1>1, <1>2, <1>3, <1>4 DEF Shape, Sorted
  <1>6. queue[caller] # <<>>
    BY <1>1, Members
  <1>7. CASE left # <<>>
    <2>1. cs = callers
      BY <1>7 DEF LeftCallers, left
    <2>2. \A c \in Callers : q[c] # <<>> <=> queue[c] # <<>>
      BY <1>4, <1>6, <1>7
    <2>3. Listed(q, cs)
      BY <2>1, <2>2 DEF Shape, Listed
    <2> QED BY <1>1, <1>5, <2>1, <2>3 DEF QueuesTyped
  <1>8. CASE left = <<>>
    <2> DEFINE order == RemoveFirst(callers[class], caller)
    <2>1. cs = [callers EXCEPT ![class] = order]
      BY <1>8 DEF LeftCallers, left
    <2>2. callers[class] \in Seq(Callers) /\ IsInjective(callers[class])
      BY <1>1 DEF Shape, Listed
    <2>3. /\ order \in Seq(Callers) /\ IsInjective(order)
          /\ ToSet(order) = ToSet(callers[class]) \ {caller}
      BY <2>2, RemoveFirstMembers
    <2> HIDE DEF order, q, cs
    <2>4. cs \in [Classes -> Seq(Callers)]
      BY <1>1, <2>1, <2>3
    <2>5. \A c \in Callers : q[c] # <<>> <=> c # caller /\ queue[c] # <<>>
      BY <1>4, <1>8
    <2>6. Listed(q, cs)
      <3> SUFFICES ASSUME NEW k \in Classes
                   PROVE  /\ ToSet(cs[k]) = {c \in Callers : ClassOf[c] = k /\ q[c] # <<>>}
                          /\ IsInjective(cs[k])
        BY DEF Listed
      <3>1. /\ ToSet(callers[k]) = {c \in Callers : ClassOf[c] = k /\ queue[c] # <<>>}
            /\ IsInjective(callers[k])
        BY DEF Shape, Listed
      <3>2. CASE k = class
        BY <1>1, <2>1, <2>3, <2>5, <3>1, <3>2
      <3>3. CASE k # class
        BY <1>1, <2>1, <2>5, <3>1, <3>3
      <3> QED BY <3>2, <3>3
    <2> QED BY <1>5, <2>4, <2>6 DEF QueuesTyped, q, cs
  <1> QED BY <1>7, <1>8
-----------------------------------------------------------------------------
\* What the actions do to the queues and the turn, once the selection they end
\* in has been followed through.  A newcomer queues up behind the turn, or has
\* it at once when nobody holds it.
QueuesUp(r) ==
    /\ serving # None
    /\ serving' = serving
    /\ queue' = JoinQueues(r)
    /\ callers' = JoinCallers(r)
    /\ pc' = [pc EXCEPT ![r] = "waiting"]
    /\ \A c \in Callers : ToSet(queue'[c]) =
            IF c = CallerOf[r] THEN ToSet(queue[c]) \cup {r} ELSE ToSet(queue[c])

GoesOn(r) ==
    /\ serving = None
    /\ serving' = r
    /\ \A c \in Callers : queue[c] = <<>> /\ queue'[c] = <<>>
    /\ pc' = [pc EXCEPT ![r] = "admitting"]

QueuesShape == QueuesTyped(queue, callers) /\ Listed(queue, callers) /\ Sorted(queue)

LEMMA JoinEffect ==
    ASSUME LimiterInv, NEW r \in Requests, Join(r)
    PROVE  /\ QueuesShape' /\ scores' \in [Classes -> Int]
           /\ QueuesUp(r) \/ GoesOn(r)
  <1> DEFINE q == JoinQueues(r)
             cs == JoinCallers(r)
  <1>1. /\ pc[r] = "idle" /\ ~closed /\ SelectIfIdle(q, cs, serving)
        /\ pc' = [pc EXCEPT ![r] = IF serving' = r THEN "admitting" ELSE "waiting"]
    BY DEF Join, JoinQueues, JoinCallers
  <1>2. /\ Shape /\ QueuedWait /\ TurnHeld /\ WaitersServed
        /\ scores \in [Classes -> Int] /\ r # None /\ CallerOf[r] \in Callers
    BY LimiterAssumption DEF LimiterInv, Shape
  <1>3. /\ QueuesTyped(q, cs) /\ Listed(q, cs) /\ Sorted(q)
        /\ \A c \in Callers : ToSet(q[c]) =
                IF c = CallerOf[r] THEN ToSet(queue[c]) \cup {r} ELSE ToSet(queue[c])
    BY <1>1, <1>2, Enqueued
  <1> HIDE DEF q, cs
  <1>4. Outcome(q, cs, serving)
    BY <1>1, <1>2, <1>3, Selected
  <1>5. QueuesShape' /\ scores' \in [Classes -> Int]
    BY <1>4 DEF Outcome, QueuesShape
  <1>6. CASE serving # None
    <2>1. queue' = q /\ callers' = cs /\ serving' = serving
      BY <1>4, <1>6 DEF Outcome
    <2>2. serving # r
      BY <1>1, <1>2, <1>6 DEF TurnHeld
    <2>3. QueuesUp(r)
      BY <1>1, <1>3, <1>6, <2>1, <2>2 DEF QueuesUp, q, cs
    <2> QED BY <1>5, <2>3
  <1>7. CASE serving = None
    <2>1. \A c \in Callers : queue[c] = <<>> /\ ToSet(queue[c]) = {}
      BY <1>1, <1>2, <1>7, Members DEF WaitersServed, Shape, QueuesTyped
    <2>2. q[CallerOf[r]] # <<>>
      <3>1. r \in ToSet(q[CallerOf[r]]) /\ q[CallerOf[r]] \in Seq(Requests)
        BY <1>2, <1>3 DEF QueuesTyped
      <3> QED BY <3>1, Members
    <2>3. /\ serving' \in Requests /\ serving' \in ToSet(q[CallerOf[serving']])
          /\ \A c \in Callers : ToSet(queue'[c]) = ToSet(q[c]) \ {serving'}
      BY <1>1, <1>2, <1>4, <1>7, <2>2 DEF Outcome
    <2>4. serving' = r
      <3>1. CallerOf[serving'] \in Callers
        BY <2>3, LimiterAssumption
      <3> QED BY <1>3, <2>1, <2>3, <3>1, ZenonT(30)
    <2>5. ASSUME NEW c \in Callers PROVE queue'[c] = <<>>
      <3>1. ToSet(queue'[c]) = {}
        BY <1>3, <2>1, <2>3, <2>4
      <3> QED BY <1>5, <3>1, Members DEF QueuesShape, QueuesTyped
    <2>6. GoesOn(r)
      BY <1>1, <1>7, <2>1, <2>4, <2>5 DEF GoesOn
    <2> QED BY <1>5, <2>6
  <1> QED BY <1>6, <1>7

\* The turn given up: it goes on to a waiter, or nobody is left to have it.
PassesOn(r) ==
    /\ serving = r
    /\ ~closed
    /\ serving' \in Waiting \ {r}
    /\ serving' \in ToSet(queue[CallerOf[serving']])
    /\ Rotated(queue, callers, CallerOf[serving'])
    /\ \A c \in Callers : ToSet(queue'[c]) = ToSet(queue[c]) \ {serving'}

Frees(r) ==
    /\ serving = r
    /\ closed \/ \A c \in Callers : queue[c] = <<>>
    /\ serving' = None
    /\ queue' = queue
    /\ callers' = callers

LEMMA GiveUpEffect ==
    ASSUME LimiterInv, NEW r \in Requests, serving = r,
           SelectIfIdle(queue, callers, None)
    PROVE  /\ QueuesShape' /\ scores' \in [Classes -> Int]
           /\ PassesOn(r) \/ Frees(r)
  <1>1. /\ QueuesTyped(queue, callers) /\ Listed(queue, callers) /\ Sorted(queue)
        /\ scores \in [Classes -> Int] /\ QueuedWait
    BY DEF LimiterInv, Shape
  <1>2. Outcome(queue, callers, None)
    BY <1>1, Selected
  <1>3. QueuesShape' /\ scores' \in [Classes -> Int]
    BY <1>2 DEF Outcome, QueuesShape
  <1>4. CASE serving' = None
    <2>1. None \notin Requests
      BY LimiterAssumption
    <2> QED BY <1>2, <1>3, <1>4, <2>1 DEF Outcome, Frees
  <1>5. CASE serving' # None
    <2>1. /\ ~closed /\ serving' \in Requests
          /\ serving' \in ToSet(queue[CallerOf[serving']])
          /\ Rotated(queue, callers, CallerOf[serving'])
          /\ \A c \in Callers : ToSet(queue'[c]) = ToSet(queue[c]) \ {serving'}
      BY <1>2, <1>5 DEF Outcome
    <2>2. CallerOf[serving'] \in Callers
      BY <2>1, LimiterAssumption
    <2>3. pc[serving'] = "waiting" /\ serving' # serving
      BY <1>1, <2>1, <2>2 DEF QueuedWait
    <2> QED BY <1>3, <2>1, <2>3 DEF PassesOn, Waiting
  <1> QED BY <1>4, <1>5

\* A waiter that has not been given the turn leaves its queue, and nobody is
\* selected: somebody holds the turn, or the limiter is closed.
Leaves(r) ==
    /\ serving # r
    /\ r \in ToSet(queue[CallerOf[r]])
    /\ serving # None \/ closed
    /\ serving' = serving
    /\ queue' = LeftQueues(r)
    /\ callers' = LeftCallers(r)
    /\ \A c \in Callers : ToSet(queue'[c]) = ToSet(queue[c]) \ {r}

LEMMA AbandonEffect ==
    ASSUME LimiterInv, NEW r \in Requests, pc[r] = "waiting", Abandon(r)
    PROVE  /\ QueuesShape' /\ scores' \in [Classes -> Int]
           /\ PassesOn(r) \/ Frees(r) \/ Leaves(r)
  <1>1. CASE serving = r
    <2>1. SelectIfIdle(queue, callers, None)
      BY <1>1 DEF Abandon
    <2> QED BY <1>1, <2>1, GiveUpEffect
  <1>2. CASE serving # r
    <2> DEFINE q == LeftQueues(r)
               cs == LeftCallers(r)
    <2>1. SelectIfIdle(q, cs, serving)
      BY <1>2 DEF Abandon, LeftQueues, LeftCallers, LeftQueue
    <2>2. /\ Shape /\ scores \in [Classes -> Int] /\ CallerOf[r] \in Callers
          /\ r \in ToSet(queue[CallerOf[r]])
      BY <1>2, LimiterAssumption DEF LimiterInv, Shape, WaitersServed, Waiting
    <2>3. /\ QueuesTyped(q, cs) /\ Listed(q, cs) /\ Sorted(q)
          /\ \A c \in Callers : ToSet(q[c]) = ToSet(queue[c]) \ {r}
      BY <2>2, Withdrawn
    <2>4. serving # None \/ closed
      <3>1. queue[CallerOf[r]] # <<>>
        BY <2>2, Members DEF Shape, QueuesTyped
      <3> QED BY <2>2, <3>1 DEF LimiterInv, WaitersServed
    <2> HIDE DEF q, cs
    <2>5. Outcome(q, cs, serving)
      BY <2>1, <2>2, <2>3, Selected
    <2>6. queue' = q /\ callers' = cs /\ serving' = serving
      BY <2>4, <2>5 DEF Outcome
    <2>7. Leaves(r)
      BY <1>2, <2>2, <2>3, <2>4, <2>6 DEF Leaves, q, cs
    <2> QED BY <2>5, <2>7 DEF Outcome, QueuesShape
  <1> QED BY <1>1, <1>2

\* _finish: who leaves the bucket holds the turn, so it is given up.
LEMMA FinishEffect ==
    ASSUME LimiterInv, NEW r \in Requests, Finish(r)
    PROVE  /\ QueuesShape' /\ scores' \in [Classes -> Int]
           /\ PassesOn(r) \/ Frees(r)
  <1>1. serving = r
    BY DEF Finish, LimiterInv, OneAtTheBucket, AtBucket
  <1>2. SelectIfIdle(queue, callers, None)
    BY <1>1 DEF Finish
  <1> QED BY <1>1, <1>2, GiveUpEffect
-----------------------------------------------------------------------------
LEMMA InitInv == ASSUME Init PROVE LimiterInv
  <1>1. /\ \A c \in Callers : queue[c] = <<>> /\ ToSet(queue[c]) = {}
        /\ \A k \in Classes : callers[k] = <<>> /\ ToSet(callers[k]) = {}
    BY DEF Init, ToSet
  <1>2. IsInjective(<<>>)
    BY DEF IsInjective
  <1>3. QueuesShape
    BY <1>1, <1>2 DEF Init, QueuesShape, QueuesTyped, Listed, Sorted
  <1>4. Shape
    <2>1. /\ scores \in [Classes -> Int] /\ serving \in Requests \cup {None}
          /\ notified \subseteq Requests
      BY DEF Init
    <2>2. closed \in BOOLEAN
      BY Zenon DEF Init
    <2>3. pc \in [Requests -> Awaits \cup {"idle", "gone"}]
      BY DEF Init, Awaits
    <2> QED BY <1>3, <2>1, <2>2, <2>3 DEF QueuesShape, Shape
  <1>5. QueuedWait /\ TurnHeld
    BY <1>1 DEF Init, QueuedWait, TurnHeld
  <1>6. Waiting = {} /\ AtBucket = {}
    BY DEF Init, Waiting, AtBucket
  <1> QED
    BY <1>1, <1>4, <1>5, <1>6 DEF Init, LimiterInv, WaitersServed, OneAtTheBucket, Waiting

\* The parts of LimiterInv that the queues and the turn make up.
Served == QueuedWait /\ TurnHeld /\ WaitersServed

LEMMA JoinServed ==
    ASSUME LimiterInv, NEW r \in Requests, Join(r)
    PROVE  Served'
  <1>1. /\ QueuesUp(r) \/ GoesOn(r)
        /\ pc[r] = "idle" /\ closed' = closed /\ notified' = notified
        /\ pc \in [Requests -> Awaits \cup {"idle", "gone"}]
        /\ QueuedWait /\ TurnHeld /\ WaitersServed
        /\ r \in Requests /\ r # None /\ CallerOf \in [Requests -> Callers]
        /\ \A c \in Callers : ToSet(queue[c]) \subseteq Requests
    BY JoinEffect, LimiterAssumption, Members, ZenonT(30) DEF Join, LimiterInv, Shape, QueuesTyped
  <1>2. CASE QueuesUp(r)
    <2>0. /\ serving' = serving /\ serving # r
          /\ \A s \in Requests : pc'[s] = IF s = r THEN "waiting" ELSE pc[s]
      BY <1>1, <1>2 DEF QueuesUp, TurnHeld
    <2>1. QueuedWait' /\ TurnHeld'
      <3>1. ASSUME NEW c \in Callers, NEW s \in ToSet(queue'[c])
            PROVE  pc'[s] = "waiting" /\ s # serving'
        <4>1. s \in ToSet(queue[c]) \cup {r}
          BY <1>2 DEF QueuesUp
        <4>2. s \in Requests
          BY <1>1, <4>1
        <4>3. s # r => pc[s] = "waiting" /\ s # serving
          BY <1>1, <4>1 DEF QueuedWait
        <4> QED BY <2>0, <4>2, <4>3
      <3>2. serving # None /\ serving \in Requests
        BY <1>2 DEF QueuesUp, LimiterInv, Shape
      <3> QED BY <1>1, <2>0, <3>1, <3>2 DEF QueuedWait, TurnHeld
    <2>2. serving' \in Waiting' => serving' \in notified'
      BY <1>1, <1>2 DEF QueuesUp, WaitersServed, Waiting, TurnHeld
    <2>3. ASSUME NEW s \in Waiting'
          PROVE  serving' = s \/ s \in ToSet(queue'[CallerOf[s]])
      BY <1>1, <1>2, <2>3 DEF QueuesUp, WaitersServed, Waiting
    <2> QED BY <1>2, <2>1, <2>2, <2>3 DEF QueuesUp, WaitersServed, Served
  <1>3. CASE GoesOn(r)
    <2>1. \A c \in Callers : ToSet(queue[c]) = {} /\ ToSet(queue'[c]) = {}
      BY <1>3 DEF GoesOn, ToSet
    <2>2. Waiting' = {}
      <3>1. \A s \in Requests : pc'[s] = IF s = r THEN "admitting" ELSE pc[s]
        BY <1>1, <1>3 DEF GoesOn
      <3>2. Waiting = {}
        BY <1>1, <1>3, <2>1, LimiterAssumption DEF GoesOn, WaitersServed, Waiting
      <3> QED BY <3>1, <3>2 DEF Waiting
    <2> QED BY <1>1, <1>3, <2>1, <2>2
            DEF GoesOn, QueuedWait, TurnHeld, WaitersServed, Served, Waiting
  <1> QED BY <1>1, <1>2, <1>3

LEMMA GiveUpServed ==
    ASSUME LimiterInv, NEW r \in Requests, PassesOn(r) \/ Frees(r), closed' = closed,
           pc' = [pc EXCEPT ![r] = "idle"], Waiting \ {r} \subseteq notified'
    PROVE  Served'
  <1>1. /\ pc \in [Requests -> Awaits \cup {"idle", "gone"}]
        /\ QueuedWait /\ WaitersServed /\ r # None
        /\ CallerOf \in [Requests -> Callers]
        /\ \A c \in Callers : ToSet(queue[c]) \subseteq Requests
    BY LimiterAssumption, Members DEF LimiterInv, Shape, QueuesTyped
  <1>2. \A s \in Requests : pc'[s] = IF s = r THEN "idle" ELSE pc[s]
    BY <1>1
  <1>3. CASE PassesOn(r)
    <2>1. QueuedWait'
      BY <1>1, <1>2, <1>3 DEF PassesOn, QueuedWait
    <2>2. TurnHeld'
      BY <1>2, <1>3 DEF PassesOn, TurnHeld, Waiting
    <2>3. serving' # None /\ serving' \in notified'
      BY <1>3, LimiterAssumption DEF PassesOn, Waiting
    <2>4. ASSUME NEW s \in Waiting'
          PROVE  serving' = s \/ s \in ToSet(queue'[CallerOf[s]])
      <3>1. s \in Waiting /\ s # serving /\ CallerOf[s] \in Callers
        BY <1>1, <1>2, <1>3, <2>4 DEF PassesOn, Waiting
      <3>2. s \in ToSet(queue[CallerOf[s]])
        BY <1>1, <3>1 DEF WaitersServed
      <3> QED BY <1>3, <3>1, <3>2 DEF PassesOn
    <2> QED BY <2>1, <2>2, <2>3, <2>4 DEF WaitersServed, Served
  <1>4. CASE Frees(r)
    <2>1. QueuedWait'
      <3>1. \A c \in Callers : \A s \in ToSet(queue[c]) : s # r /\ s # None
        BY <1>1, <1>4, LimiterAssumption DEF Frees, QueuedWait
      <3> QED BY <1>1, <1>2, <1>4, <3>1 DEF Frees, QueuedWait
    <2>2. TurnHeld'
      BY <1>4 DEF Frees, TurnHeld
    <2>3. serving' \notin Waiting'
      BY <1>4, LimiterAssumption DEF Frees, Waiting
    <2>4. \A s \in Waiting' : s \in ToSet(queue'[CallerOf[s]])
      BY <1>1, <1>2, <1>4 DEF Frees, WaitersServed, Waiting
    <2>5. ~closed' => \A c \in Callers : queue'[c] = <<>>
      BY <1>4 DEF Frees
    <2> QED BY <2>1, <2>2, <2>3, <2>4, <2>5 DEF WaitersServed, Served
  <1> QED BY <1>3, <1>4

LEMMA LeaveServed ==
    ASSUME LimiterInv, NEW r \in Requests, Leaves(r), closed' = closed,
           pc' = [pc EXCEPT ![r] = "idle"], Waiting \ {r} \subseteq notified'
    PROVE  Served'
  <1>1. /\ pc \in [Requests -> Awaits \cup {"idle", "gone"}]
        /\ QueuedWait /\ WaitersServed /\ TurnHeld
        /\ serving \in Requests \cup {None}
        /\ CallerOf \in [Requests -> Callers]
        /\ \A c \in Callers : ToSet(queue[c]) \subseteq Requests
    BY LimiterAssumption, Members DEF LimiterInv, Shape, QueuesTyped
  <1>2. \A s \in Requests : pc'[s] = IF s = r THEN "idle" ELSE pc[s]
    BY <1>1
  <1>3. QueuedWait'
    BY <1>1, <1>2 DEF Leaves, QueuedWait
  <1>4. TurnHeld'
    BY <1>1, <1>2 DEF Leaves, TurnHeld
  <1>5. serving' \in Waiting' => serving' \in notified'
    BY <1>1, <1>2 DEF Leaves, Waiting
  <1>6. \A s \in Waiting' : serving' = s \/ s \in ToSet(queue'[CallerOf[s]])
    BY <1>1, <1>2 DEF Leaves, Waiting, WaitersServed
  <1>7. ~ (serving' = None /\ ~closed')
    BY DEF Leaves
  <1> QED BY <1>3, <1>4, <1>5, <1>6, <1>7 DEF WaitersServed, Served

\* The steps that leave the queues and the turn alone: only who has the turn may
\* stop waiting, and its notification is not taken from it while it waits.
Unmoved ==
    /\ UNCHANGED <<queue, callers, scores, serving, turnsSeen>>
    /\ closed' = closed \/ closed' = TRUE
    /\ \A s \in Requests :
        /\ pc'[s] = "waiting" => pc[s] = "waiting"
        /\ s # serving => pc'[s] = pc[s]
        /\ pc'[s] = "idle" => pc[s] = "idle"
    /\ serving \in Waiting' /\ serving \in notified => serving \in notified'

LEMMA UnmovedServed ==
    ASSUME LimiterInv, Unmoved
    PROVE  QueuesShape' /\ Served'
  <1>1. /\ QueuedWait /\ TurnHeld /\ WaitersServed
        /\ QueuesTyped(queue, callers) /\ Listed(queue, callers) /\ Sorted(queue)
        /\ serving \in Requests \cup {None}
        /\ \A c \in Callers : ToSet(queue[c]) \subseteq Requests
    BY Members DEF LimiterInv, Shape, QueuesTyped
  <1>2. QueuesShape'
    BY <1>1 DEF Unmoved, QueuesShape
  <1>3. QueuedWait'
    BY <1>1 DEF Unmoved, QueuedWait
  <1>4. TurnHeld'
    BY <1>1 DEF Unmoved, TurnHeld
  <1>5. WaitersServed'
    BY <1>1 DEF Unmoved, WaitersServed, Waiting
  <1> QED BY <1>2, <1>3, <1>4, <1>5 DEF Served

LEMMA UnmovedSteps ==
    ASSUME LimiterInv, NEW r \in Requests,
           \/ TakeTurn(r) \/ WaitAgain(r) \/ BucketGrants(r)
           \/ Decided(r, "admitted") \/ Decided(r, "closed")
           \/ CancelAdmitting(r) \/ CancelSettling(r)
           \/ Close \/ UNCHANGED vars
    PROVE  Unmoved
  <1>1. /\ pc \in [Requests -> Awaits \cup {"idle", "gone"}]
        /\ OneAtTheBucket
    BY DEF LimiterInv, Shape
  <1>2. CASE TakeTurn(r)
    BY <1>1, <1>2 DEF TakeTurn, Unmoved, Waiting
  <1>3. CASE WaitAgain(r)
    BY <1>1, <1>3 DEF WaitAgain, Unmoved
  <1>4. CASE BucketGrants(r)
    BY <1>4 DEF BucketGrants, Unmoved
  <1>5. ASSUME NEW how, Decided(r, how) PROVE Unmoved
    BY <1>1, <1>5 DEF Decided, Unmoved, OneAtTheBucket, AtBucket
  <1>6. CASE CancelAdmitting(r)
    BY <1>1, <1>6 DEF CancelAdmitting, MayCancel, Unmoved, OneAtTheBucket, AtBucket
  <1>7. CASE CancelSettling(r)
    BY <1>1, <1>7 DEF CancelSettling, MayCancel, Unmoved, OneAtTheBucket, AtBucket
  <1>8. CASE Close
    BY <1>8 DEF Close, Unmoved, Waiting
  <1>9. CASE UNCHANGED vars
    BY <1>9 DEF vars, Unmoved
  <1> QED BY <1>2, <1>3, <1>4, <1>5, <1>6, <1>7, <1>8, <1>9

\* A step that gives up a request's place: what it does to the queues.
Departs(r) ==
    /\ \/ PassesOn(r) \/ Frees(r)
       \/ pc[r] = "waiting" /\ Leaves(r)
    /\ pc[r] \in {"waiting", "settling"}
    /\ closed' = closed
    /\ pc' = [pc EXCEPT ![r] = "idle"]
    /\ Waiting \ {r} \subseteq notified'
    /\ notified' \subseteq Requests
    /\ NoteTurn

LEMMA DepartSteps ==
    ASSUME LimiterInv, NEW r \in Requests,
           LeaveClosed(r) \/ CancelWaiting(r) \/ Finish(r)
    PROVE  QueuesShape' /\ scores' \in [Classes -> Int] /\ Departs(r)
  <1>1. CASE LeaveClosed(r) \/ CancelWaiting(r)
    <2>1. pc[r] = "waiting" /\ Abandon(r)
      BY <1>1 DEF LeaveClosed, CancelWaiting, MayCancel
    <2>2. /\ closed' = closed /\ pc' = [pc EXCEPT ![r] = "idle"]
          /\ notified' = Waiting \ {r} /\ NoteTurn
      BY <2>1 DEF Abandon
    <2> QED BY <2>1, <2>2, AbandonEffect DEF Departs, Waiting
  <1>2. CASE Finish(r)
    <2>1. /\ pc[r] = "settling" /\ closed' = closed /\ pc' = [pc EXCEPT ![r] = "idle"]
          /\ notified' = Waiting /\ NoteTurn
      BY <1>2 DEF Finish
    <2> QED BY <1>2, <2>1, FinishEffect DEF Departs, Waiting
  <1> QED BY <1>1, <1>2

\* Every step joins, departs, or leaves the queues and the turn alone.
LEMMA StepKinds ==
    ASSUME LimiterInv, [Next]_vars
    PROVE  \/ \E r \in Requests : Join(r)
           \/ \E r \in Requests : LeaveClosed(r) \/ CancelWaiting(r) \/ Finish(r)
           \/ Unmoved
  <1>1. ASSUME NEW r \in Requests, Resumed(r) \/ Cancelled(r)
        PROVE  LeaveClosed(r) \/ CancelWaiting(r) \/ Finish(r) \/ Unmoved
    BY <1>1, UnmovedSteps DEF Resumed, Cancelled
  <1>2. ASSUME Close \/ UNCHANGED vars PROVE Unmoved
    <2>1. CASE Requests = {}
      BY <1>2, <2>1, LimiterAssumption DEF Close, vars, Unmoved, Waiting
    <2>2. CASE Requests # {}
      BY <1>2, <2>2, UnmovedSteps
    <2> QED BY <2>1, <2>2
  <1>3. ASSUME NEW r \in Requests, JoinClosed(r) PROVE Unmoved
    BY <1>2, <1>3 DEF JoinClosed
  <1> QED BY <1>1, <1>2, <1>3 DEF Next

LEMMA LimiterStep ==
    ASSUME LimiterInv, [Next]_vars
    PROVE  LimiterInv'
  <1>1. /\ OneAtTheBucket' /\ pc' \in [Requests -> Awaits \cup {"idle", "gone"}]
    BY AtBucketStep, PhaseStep DEF LimiterInv, Shape
  <1>2. /\ serving \in Requests \cup {None} /\ notified \subseteq Requests
        /\ closed \in BOOLEAN /\ scores \in [Classes -> Int]
    BY DEF LimiterInv, Shape
  <1> DEFINE Rest == /\ QueuesShape' /\ Served' /\ scores' \in [Classes -> Int]
                     /\ serving' \in Requests \cup {None}
  <1>3. ASSUME NEW r \in Requests, Join(r) PROVE Rest
    BY <1>2, <1>3, JoinEffect, JoinServed DEF QueuesUp, GoesOn
  <1>4. ASSUME NEW r \in Requests, LeaveClosed(r) \/ CancelWaiting(r) \/ Finish(r)
        PROVE  Rest
    <2>1. QueuesShape' /\ scores' \in [Classes -> Int] /\ Departs(r)
      BY <1>4, DepartSteps
    <2>2. Served'
      BY <2>1, GiveUpServed, LeaveServed DEF Departs
    <2>3. serving' \in Requests \cup {None}
      BY <1>2, <2>1 DEF Departs, PassesOn, Frees, Leaves, Waiting
    <2> QED BY <2>1, <2>2, <2>3
  <1>5. ASSUME Unmoved PROVE Rest
    BY <1>2, <1>5, UnmovedServed DEF Unmoved
  <1>6. Rest
    BY <1>3, <1>4, <1>5, StepKinds
  <1>7. notified' \subseteq Requests /\ closed' \in BOOLEAN
    BY <1>2 DEF Next, vars, Join, JoinClosed, Resumed, Cancelled, TakeTurn, WaitAgain,
                LeaveClosed, Abandon, BucketGrants, Decided, Finish, CancelWaiting,
                CancelAdmitting, CancelSettling, Close, Waiting
  <1> QED BY <1>1, <1>6, <1>7 DEF LimiterInv, Shape, QueuesShape, Served

LEMMA LimiterInvAlways == Spec => []LimiterInv
  BY InitInv, LimiterStep, PTL DEF Spec

\* Whoever waits will be served, for every policy, every set of requests and
\* every cancellation: no path through acquire(), _abandon, _finish or close()
\* leaves the turn free with somebody queued, selects a waiter without a
\* notification on its way, or loses a waiter from its queue (fairness.py:95,
\* 97-107, 148-155, 159-179, 200-205).
THEOREM WaitersServedAlways == Spec => []WaitersServed
  <1>1. LimiterInv => WaitersServed
    BY DEF LimiterInv
  <1> QED BY <1>1, LimiterInvAlways, PTL

\* A class's deque names exactly its callers with waiters, each once, however
\* requests arrive, are selected, withdraw or are caught by the shutdown
\* (fairness.py:150-155, 173-179, 185-196).
THEOREM CallersListedAlways == Spec => []CallersListed
  <1>1. LimiterInv => CallersListed
    <2> SUFFICES ASSUME LimiterInv, NEW k \in Classes
                 PROVE  /\ ToSet(callers[k]) = {c \in Callers : ClassOf[c] = k /\ queue[c] # <<>>}
                        /\ Cardinality(ToSet(callers[k])) = Len(callers[k])
      BY DEF CallersListed
    <2>1. callers[k] \in Seq(Callers) /\ IsInjective(callers[k])
      BY DEF LimiterInv, Shape, QueuesTyped, Listed
    <2>2. Cardinality(ToSet(callers[k])) = Len(callers[k])
      BY <2>1, DistinctCount
    <2> QED BY <2>2 DEF LimiterInv, Shape, Listed
  <1> QED BY <1>1, LimiterInvAlways, PTL
-----------------------------------------------------------------------------
\* The depths, of callers and of classes alike: a count of requests by a key.
Joined == {r \in Requests : pc[r] # "idle"}

Counted(depth, keys, keyOf, J) ==
    /\ depth \in [keys -> Nat]
    /\ \A k \in keys : depth[k] = Cardinality({r \in J : keyOf[r] = k})

LEMMA CountedAdd ==
    ASSUME NEW keys, NEW keyOf, NEW J, IsFiniteSet(J), NEW depth,
           Counted(depth, keys, keyOf, J), NEW r, r \notin J, keyOf[r] \in keys
    PROVE  Counted([depth EXCEPT ![keyOf[r]] = @ + 1], keys, keyOf, J \cup {r})
  <1> DEFINE new == [depth EXCEPT ![keyOf[r]] = @ + 1]
             Of(k, K) == {s \in K : keyOf[s] = k}
  <1>1. depth \in [keys -> Nat] /\ \A k \in keys : depth[k] = Cardinality(Of(k, J))
    BY DEF Counted
  <1>2. new \in [keys -> Nat]
    BY <1>1
  <1>3. ASSUME NEW k \in keys PROVE new[k] = Cardinality(Of(k, J \cup {r}))
    <2>1. IsFiniteSet(Of(k, J)) /\ r \notin Of(k, J)
      BY FS_Subset
    <2>2. CASE k = keyOf[r]
      <3>1. Of(k, J \cup {r}) = Of(k, J) \cup {r}
        BY <2>2
      <3>2. Cardinality(Of(k, J) \cup {r}) = Cardinality(Of(k, J)) + 1
        BY <2>1, FS_AddElement
      <3>3. new[k] = depth[k] + 1
        BY <1>1, <2>2
      <3> QED BY <1>1, <3>1, <3>2, <3>3
    <2>3. CASE k # keyOf[r]
      <3>1. Of(k, J \cup {r}) = Of(k, J)
        BY <2>3
      <3>2. new[k] = depth[k]
        BY <1>1, <2>3
      <3> QED BY <1>1, <3>1, <3>2
    <2> QED BY <2>2, <2>3
  <1> HIDE DEF new
  <1> QED BY <1>2, <1>3 DEF Counted, new

LEMMA CountedRemove ==
    ASSUME NEW keys, NEW keyOf, NEW J, IsFiniteSet(J), NEW depth,
           Counted(depth, keys, keyOf, J), NEW r \in J, keyOf[r] \in keys
    PROVE  /\ depth[keyOf[r]] >= 1
           /\ Counted([depth EXCEPT ![keyOf[r]] = @ - 1], keys, keyOf, J \ {r})
  <1> DEFINE new == [depth EXCEPT ![keyOf[r]] = @ - 1]
             Of(k, K) == {s \in K : keyOf[s] = k}
  <1>1. depth \in [keys -> Nat] /\ \A k \in keys : depth[k] = Cardinality(Of(k, J))
    BY DEF Counted
  <1>2. \A k \in keys : IsFiniteSet(Of(k, J))
    BY FS_Subset
  <1>3. /\ Cardinality(Of(keyOf[r], J) \ {r}) = Cardinality(Of(keyOf[r], J)) - 1
        /\ Cardinality(Of(keyOf[r], J) \ {r}) \in Nat
    <2>1. r \in Of(keyOf[r], J) /\ IsFiniteSet(Of(keyOf[r], J))
      BY <1>2
    <2> HIDE DEF Of
    <2> QED BY <2>1, FS_RemoveElement, FS_CardinalityType
  <1>4. depth[keyOf[r]] >= 1
    BY <1>1, <1>3
  <1>5. new \in [keys -> Nat]
    BY <1>1, <1>4
  <1>6. ASSUME NEW k \in keys PROVE new[k] = Cardinality(Of(k, J \ {r}))
    <2>1. CASE k = keyOf[r]
      <3>1. Of(k, J \ {r}) = Of(k, J) \ {r}
        OBVIOUS
      <3>2. new[k] = depth[k] - 1
        BY <1>1, <2>1
      <3> QED BY <1>1, <1>3, <2>1, <3>1, <3>2
    <2>2. CASE k # keyOf[r]
      <3>1. Of(k, J \ {r}) = Of(k, J)
        BY <2>2
      <3>2. new[k] = depth[k]
        BY <1>1, <2>2
      <3> QED BY <1>1, <3>1, <3>2
    <2> QED BY <2>1, <2>2
  <1> HIDE DEF new
  <1> QED BY <1>4, <1>5, <1>6 DEF Counted, new

ClassOfRequests == [r \in Requests |-> ClassOfRequest(r)]

DepthInv ==
    /\ pc \in [Requests -> Awaits \cup {"idle", "gone"}]
    /\ IsFiniteSet(Joined)
    /\ Counted(callerDepth, Callers, CallerOf, Joined)
    /\ Counted(classDepth, Classes, ClassOfRequests, Joined)

LEMMA DepthKeys ==
    ASSUME NEW r \in Requests
    PROVE  /\ CallerOf[r] \in Callers
           /\ ClassOfRequests[r] = ClassOfRequest(r) /\ ClassOfRequests[r] \in Classes
  BY LimiterAssumption DEF ClassOfRequests, ClassOfRequest

LEMMA DepthJoin ==
    ASSUME DepthInv, NEW r \in Requests, Join(r)
    PROVE  (IsFiniteSet(Joined) /\ Counted(callerDepth, Callers, CallerOf, Joined)
            /\ Counted(classDepth, Classes, ClassOfRequests, Joined))'
  <1>1. r \notin Joined /\ Joined' = Joined \cup {r}
    BY DEF Join, DepthInv, Joined
  <1>2. /\ callerDepth' = [callerDepth EXCEPT ![CallerOf[r]] = @ + 1]
        /\ classDepth' = [classDepth EXCEPT ![ClassOfRequests[r]] = @ + 1]
    BY DepthKeys DEF Join, ClassOfRequest
  <1>3. IsFiniteSet(Joined')
    BY <1>1, FS_AddElement DEF DepthInv
  <1>4. Counted(callerDepth', Callers, CallerOf, Joined')
    BY <1>1, <1>2, CountedAdd, DepthKeys DEF DepthInv
  <1>5. Counted(classDepth', Classes, ClassOfRequests, Joined')
    BY <1>1, <1>2, CountedAdd, DepthKeys DEF DepthInv
  <1> QED BY <1>3, <1>4, <1>5 DEF Counted, ClassOfRequests, ClassOfRequest

LEMMA DepthDepart ==
    ASSUME DepthInv, NEW r \in Requests, pc[r] # "idle",
           DecrementDepth(r), pc' = [pc EXCEPT ![r] = "idle"]
    PROVE  (IsFiniteSet(Joined) /\ Counted(callerDepth, Callers, CallerOf, Joined)
            /\ Counted(classDepth, Classes, ClassOfRequests, Joined))'
  <1>1. r \in Joined /\ Joined' = Joined \ {r}
    BY DEF DepthInv, Joined
  <1>2. callerDepth[CallerOf[r]] >= 1 /\ callerDepth \in [Callers -> Nat]
    <2>1. IsFiniteSet(Joined) /\ Counted(callerDepth, Callers, CallerOf, Joined)
      BY DEF DepthInv
    <2>2. CallerOf[r] \in Callers
      BY DepthKeys
    <2>3. callerDepth[CallerOf[r]] >= 1
      BY <1>1, <2>1, <2>2, CountedRemove
    <2> QED BY <2>1, <2>3 DEF Counted
  <1>3. /\ callerDepth' = [callerDepth EXCEPT ![CallerOf[r]] = @ - 1]
        /\ classDepth' = [classDepth EXCEPT ![ClassOfRequests[r]] = @ - 1]
    <2>1. (IF callerDepth[CallerOf[r]] <= 1 THEN 0 ELSE callerDepth[CallerOf[r]] - 1)
            = callerDepth[CallerOf[r]] - 1
      BY <1>2, DepthKeys
    <2> QED BY <2>1, DepthKeys DEF DecrementDepth
  <1>4. IsFiniteSet(Joined')
    BY <1>1, FS_RemoveElement DEF DepthInv
  <1>5. Counted(callerDepth', Callers, CallerOf, Joined')
    BY <1>1, <1>3, CountedRemove, DepthKeys DEF DepthInv
  <1>6. Counted(classDepth', Classes, ClassOfRequests, Joined')
    BY <1>1, <1>3, CountedRemove, DepthKeys DEF DepthInv
  <1> QED BY <1>4, <1>5, <1>6 DEF Counted, ClassOfRequests, ClassOfRequest

LEMMA DepthStep ==
    ASSUME DepthInv, [Next]_vars
    PROVE  DepthInv'
  <1>1. pc' \in [Requests -> Awaits \cup {"idle", "gone"}]
    BY PhaseStep DEF DepthInv
  <1> DEFINE Depths == IsFiniteSet(Joined) /\ Counted(callerDepth, Callers, CallerOf, Joined)
                       /\ Counted(classDepth, Classes, ClassOfRequests, Joined)
  <1>2. ASSUME NEW r \in Requests, Join(r) PROVE Depths'
    BY <1>2, DepthJoin
  <1>3. ASSUME NEW r \in Requests, LeaveClosed(r) \/ CancelWaiting(r) \/ Finish(r)
        PROVE  Depths'
    <2>1. pc[r] # "idle" /\ DecrementDepth(r) /\ pc' = [pc EXCEPT ![r] = "idle"]
      BY <1>3 DEF LeaveClosed, CancelWaiting, MayCancel, Abandon, Finish
    <2> QED BY <2>1, DepthDepart
  <1>4. ASSUME UNCHANGED <<callerDepth, classDepth>>, Joined' = Joined PROVE Depths'
    BY <1>4 DEF DepthInv, Counted, ClassOfRequests, ClassOfRequest
  <1>5. ASSUME NEW r \in Requests,
               \/ JoinClosed(r) \/ TakeTurn(r) \/ WaitAgain(r) \/ BucketGrants(r)
               \/ Decided(r, "admitted") \/ Decided(r, "closed")
               \/ CancelAdmitting(r) \/ CancelSettling(r)
        PROVE  Depths'
    <2>1. UNCHANGED <<callerDepth, classDepth>>
      BY <1>5 DEF JoinClosed, vars, TakeTurn, WaitAgain, BucketGrants, Decided,
                  CancelAdmitting, CancelSettling
    <2>2. \A s \in Requests : pc'[s] = "idle" <=> pc[s] = "idle"
      BY <1>5 DEF JoinClosed, vars, TakeTurn, WaitAgain, BucketGrants, Decided,
                  CancelAdmitting, CancelSettling, MayCancel, DepthInv
    <2> QED BY <1>4, <2>1, <2>2 DEF Joined
  <1>6. ASSUME Close \/ UNCHANGED vars PROVE Depths'
    BY <1>4, <1>6 DEF Close, vars, Joined
  <1>7. Depths'
    BY <1>2, <1>3, <1>5, <1>6 DEF Next, Resumed, Cancelled
  <1> QED BY <1>1, <1>7 DEF DepthInv

\* The depths shown by metrics() count exactly the calls that have joined and not
\* left, for every set of requests and on every way out, the lost calls included
\* (fairness.py:156-157, 197, 203, 207-211).
THEOREM DepthsCountAlways == Spec => []DepthsCount
  <1>1. Init => DepthInv
    <2> SUFFICES ASSUME Init PROVE DepthInv
      OBVIOUS
    <2>1. Joined = {} /\ pc \in [Requests -> Awaits \cup {"idle", "gone"}]
      BY DEF Init, Joined
    <2>2. IsFiniteSet({}) /\ Cardinality({}) = 0
      BY FS_EmptySet
    <2>3. \A keyOf, k : {r \in Joined : keyOf[r] = k} = {}
      BY <2>1
    <2> QED BY <2>1, <2>2, <2>3 DEF Init, DepthInv, Counted
  <1>2. DepthInv /\ [Next]_vars => DepthInv'
    BY DepthStep
  <1>3. DepthInv => DepthsCount
    <2> SUFFICES ASSUME DepthInv PROVE DepthsCount
      OBVIOUS
    <2>1. Outstanding \cup Lost = Joined
      BY DEF Outstanding, Lost, Joined, DepthInv, Awaits
    <2>2. \A c \in Callers :
            callerDepth[c] = Cardinality({r \in Joined : CallerOf[r] = c})
      BY DEF DepthInv, Counted
    <2>3. ASSUME NEW k \in Classes
          PROVE  classDepth[k] = Cardinality({r \in Joined : ClassOfRequest(r) = k})
      <3>1. {r \in Joined : ClassOfRequests[r] = k} = {r \in Joined : ClassOfRequest(r) = k}
        BY DEF ClassOfRequests, Joined
      <3> QED BY <3>1 DEF DepthInv, Counted
    <2> QED BY <2>1, <2>2, <2>3 DEF DepthsCount
  <1> QED BY <1>1, <1>2, <1>3, PTL DEF Spec
-----------------------------------------------------------------------------
\* What RoundRobin rests on: whoever stands before a request's caller in the
\* rotation has had no more turns than that caller since the request queued up.
InTurn(t, cs, c, d) ==
    /\ t[c] <= t[d] + 1
    /\ Before(cs[ClassOf[d]], c, d) => t[c] <= t[d]

Rotation ==
    /\ turnsSeen \in [Requests -> [Callers -> Nat]]
    /\ \A r \in Requests :
        /\ r \notin ToSet(queue[CallerOf[r]]) => turnsSeen[r] = NoTurnsSeen
        /\ \A c \in Callers \ {CallerOf[r]} : InTurn(turnsSeen[r], callers, c, CallerOf[r])

LEMMA NothingSeen ==
    ASSUME NEW cs, NEW c \in Callers, NEW d \in Callers
    PROVE  NoTurnsSeen \in [Callers -> Nat] /\ InTurn(NoTurnsSeen, cs, c, d)
  BY DEF NoTurnsSeen, InTurn

\* What NoteTurn writes, request by request.
LEMMA Noted ==
    ASSUME NoteTurn, Rotation, serving' \in Requests \cup {None}, NEW r \in Requests
    PROVE  /\ turnsSeen' \in [Requests -> [Callers -> Nat]]
           /\ r \notin ToSet(queue'[CallerOf[r]]) => turnsSeen'[r] = NoTurnsSeen
           /\ r \in ToSet(queue'[CallerOf[r]]) =>
                turnsSeen'[r] =
                    IF serving' \in {None, serving} THEN turnsSeen[r]
                    ELSE IF ClassOf[CallerOf[serving']] # ClassOfRequest(r) THEN turnsSeen[r]
                    ELSE [turnsSeen[r] EXCEPT ![CallerOf[serving']] = @ + 1]
  <1> DEFINE new(s) == IF s \notin ToSet(queue'[CallerOf[s]]) THEN NoTurnsSeen
                       ELSE IF serving' \in {None, serving} THEN turnsSeen[s]
                       ELSE IF ClassOf[CallerOf[serving']] # ClassOfRequest(s) THEN turnsSeen[s]
                       ELSE [turnsSeen[s] EXCEPT ![CallerOf[serving']] = @ + 1]
  <1>1. turnsSeen' = [s \in Requests |-> new(s)]
    BY DEF NoteTurn
  <1>2. ASSUME NEW s \in Requests PROVE new(s) \in [Callers -> Nat]
    <2>1. turnsSeen[s] \in [Callers -> Nat] /\ NoTurnsSeen \in [Callers -> Nat]
      BY DEF Rotation, NoTurnsSeen
    <2>2. serving' \notin {None, serving} =>
            [turnsSeen[s] EXCEPT ![CallerOf[serving']] = @ + 1] \in [Callers -> Nat]
      <3>1. ASSUME NEW t \in [Callers -> Nat], NEW c
            PROVE  [t EXCEPT ![c] = @ + 1] \in [Callers -> Nat]
        <4>1. CASE c \in Callers
          BY <4>1
        <4>2. CASE c \notin Callers
          BY <4>2
        <4> QED BY <4>1, <4>2
      <3> QED BY <2>1, <3>1
    <2> QED BY <2>1, <2>2
  <1>3. turnsSeen' \in [Requests -> [Callers -> Nat]]
    <2> HIDE DEF new
    <2> QED BY <1>1, <1>2
  <1>4. turnsSeen'[r] = new(r)
    BY <1>1
  <1> QED BY <1>3, <1>4

\* A step that hands no turn to a waiter and keeps the order of the rotation.
LEMMA RotationKept ==
    ASSUME NoteTurn, Rotation, serving' \in {None, serving},
           serving' \in Requests \cup {None},
           \A r \in Requests : r \in ToSet(queue'[CallerOf[r]]) =>
             \/ turnsSeen[r] = NoTurnsSeen
             \/ \A c \in Callers : Before(callers'[ClassOfRequest(r)], c, CallerOf[r]) =>
                                    Before(callers[ClassOfRequest(r)], c, CallerOf[r])
    PROVE  Rotation'
  <1> SUFFICES ASSUME NEW r \in Requests
               PROVE  /\ turnsSeen' \in [Requests -> [Callers -> Nat]]
                      /\ r \notin ToSet(queue'[CallerOf[r]]) => turnsSeen'[r] = NoTurnsSeen
                      /\ \A c \in Callers \ {CallerOf[r]} :
                            InTurn(turnsSeen'[r], callers', c, CallerOf[r])
    <2>1. CASE Requests = {}
      BY <2>1 DEF NoteTurn, Rotation
    <2> QED BY <2>1 DEF Rotation
  <1>1. CallerOf[r] \in Callers
    BY LimiterAssumption
  <1>2. ASSUME NEW c \in Callers \ {CallerOf[r]}
        PROVE  InTurn(turnsSeen'[r], callers', c, CallerOf[r])
    <2>1. CASE turnsSeen'[r] = NoTurnsSeen
      BY <1>1, <2>1, NothingSeen
    <2>2. CASE turnsSeen'[r] # NoTurnsSeen
      <3>1. r \in ToSet(queue'[CallerOf[r]]) /\ turnsSeen'[r] = turnsSeen[r]
        BY <2>2, Noted
      <3>2. Before(callers'[ClassOf[CallerOf[r]]], c, CallerOf[r]) =>
            Before(callers[ClassOf[CallerOf[r]]], c, CallerOf[r])
        BY <2>2, <3>1 DEF ClassOfRequest
      <3> QED BY <3>1, <3>2 DEF Rotation, InTurn
    <2> QED BY <2>1, <2>2
  <1> QED BY <1>2, Noted

LEMMA RotationPassed ==
    ASSUME LimiterInv, NoteTurn, Rotation, NEW j \in Requests, PassesOn(j)
    PROVE  Rotation'
  <1> DEFINE w == serving'
             x == CallerOf[w]
             k == ClassOf[x]
             s == callers[k]
             rest == Tail(queue[x])
             order == IF rest = <<>> THEN Tail(s) ELSE Append(Tail(s), x)
  <1>1. /\ w \in Requests /\ w # serving /\ w # None /\ x \in Callers /\ k \in Classes
        /\ callers \in [Classes -> Seq(Callers)]
        /\ \A c \in Callers : ToSet(queue'[c]) = ToSet(queue[c]) \ {w}
    BY LimiterAssumption DEF PassesOn, Waiting, LimiterInv, Shape, QueuesTyped
  <1>2. /\ s \in Seq(Callers) /\ s # <<>> /\ Head(s) = x /\ IsInjective(s)
        /\ ToSet(s) = {c \in Callers : ClassOf[c] = k /\ queue[c] # <<>>}
    BY <1>1 DEF PassesOn, Rotated, LimiterInv, Shape, Listed
  <1>3. callers' = [callers EXCEPT ![k] = order]
    BY DEF PassesOn, Rotated
  <1> DEFINE tail == Tail(s)
  <1>4. /\ tail \in Seq(Callers) /\ x \notin ToSet(tail)
        /\ ToSet(s) = {x} \cup ToSet(tail)
    BY <1>2, TailMembers
  <1>5. \A c, d \in Callers : Before(tail, c, d) => Before(s, c, d) /\ c # x
    BY <1>2, <1>4, BeforeTail, BeforeMembers
  <1>6. ASSUME NEW c \in Callers, NEW d \in ToSet(tail), Before(order, c, d)
        PROVE  Before(s, c, d) /\ c # x
    <2>1. CASE rest = <<>>
      BY <1>4, <1>5, <1>6, <2>1, Members
    <2>2. CASE rest # <<>>
      <3> HIDE DEF tail
      <3>1. Before(Append(tail, x), c, d)
        BY <1>6, <2>2 DEF tail
      <3>2. Before(tail, c, d)
        BY <1>1, <1>4, <3>1, BeforeAppend
      <3> QED BY <1>4, <1>5, <3>2, Members
    <2> QED BY <2>1, <2>2
  <1> HIDE DEF order, tail, rest
  <1>7. ASSUME NEW r \in Requests, r \in ToSet(queue'[CallerOf[r]]),
               NEW c \in Callers \ {CallerOf[r]}
        PROVE  InTurn(turnsSeen'[r], callers', c, CallerOf[r])
    <2> DEFINE d == CallerOf[r]
    <2>1. /\ d \in Callers /\ r \in ToSet(queue[d]) /\ queue[d] # <<>>
          /\ turnsSeen[r] \in [Callers -> Nat]
          /\ \A e \in Callers \ {d} : InTurn(turnsSeen[r], callers, e, d)
      <3>1. d \in Callers
        BY LimiterAssumption
      <3>2. r \in ToSet(queue[d]) /\ queue[d] \in Seq(Requests)
        BY <1>1, <1>7, <3>1 DEF LimiterInv, Shape, QueuesTyped
      <3> QED BY <3>1, <3>2, Members DEF Rotation
    <2>2. turnsSeen'[r] = IF k # ClassOf[d] THEN turnsSeen[r]
                          ELSE [turnsSeen[r] EXCEPT ![x] = @ + 1]
      BY <1>1, <1>7, Noted DEF ClassOfRequest
    <2>3. CASE k # ClassOf[d]
      <3>1. callers'[ClassOf[d]] = callers[ClassOf[d]]
        BY <1>1, <1>3, <2>1, <2>3
      <3> QED BY <2>1, <2>2, <2>3, <3>1 DEF InTurn
    <2>4. CASE k = ClassOf[d] /\ x = d
      <3>1. turnsSeen'[r][c] = turnsSeen[r][c] /\ turnsSeen'[r][d] = turnsSeen[r][d] + 1
        BY <1>1, <2>1, <2>2, <2>4
      <3>2. turnsSeen[r][c] <= turnsSeen[r][d] + 1
        BY <2>1 DEF InTurn
      <3> QED BY <2>1, <3>1, <3>2 DEF InTurn
    <2>5. CASE k = ClassOf[d] /\ x # d
      <3>1. d \in ToSet(s) /\ d \in ToSet(tail)
        BY <1>2, <1>4, <2>1, <2>5
      <3>2. callers'[ClassOf[d]] = order /\ callers[ClassOf[d]] = s
        BY <1>1, <1>3, <2>5
      <3>3. turnsSeen[r][x] <= turnsSeen[r][d]
        <4>1. Before(s, x, d)
          BY <1>2, <2>5, <3>1, HeadBefore
        <4> QED BY <1>1, <2>1, <2>5, <3>2, <4>1 DEF InTurn
      <3>4. turnsSeen'[r][d] = turnsSeen[r][d]
        BY <1>1, <2>1, <2>2, <2>5
      <3>5. CASE c = x
        <4>1. turnsSeen'[r][c] = turnsSeen[r][c] + 1
          BY <1>1, <2>1, <2>2, <2>5, <3>5
        <4>2. ~ Before(order, c, d)
          BY <1>6, <3>1, <3>5
        <4> QED BY <2>1, <3>2, <3>3, <3>4, <3>5, <4>1, <4>2 DEF InTurn
      <3>6. CASE c # x
        <4>1. turnsSeen'[r][c] = turnsSeen[r][c]
          BY <1>1, <2>1, <2>2, <2>5, <3>6
        <4>2. Before(order, c, d) => Before(s, c, d)
          BY <1>6, <3>1
        <4> QED BY <2>1, <3>2, <3>4, <4>1, <4>2 DEF InTurn
      <3> QED BY <3>5, <3>6
    <2> QED BY <2>3, <2>4, <2>5
  <1>8. ASSUME NEW r \in Requests, r \notin ToSet(queue'[CallerOf[r]]),
               NEW c \in Callers \ {CallerOf[r]}
        PROVE  InTurn(turnsSeen'[r], callers', c, CallerOf[r])
    <2>1. turnsSeen'[r] = NoTurnsSeen /\ CallerOf[r] \in Callers
      BY <1>1, <1>8, Noted, LimiterAssumption
    <2> QED BY <2>1, NothingSeen
  <1> QED BY <1>1, <1>7, <1>8, Noted DEF Rotation

LEMMA RotationJoined ==
    ASSUME LimiterInv, Rotation, NEW j \in Requests, Join(j)
    PROVE  Rotation'
  <1>0. NoteTurn
    BY DEF Join
  <1>1. /\ pc[j] = "idle"
        /\ QueuesUp(j) \/ GoesOn(j)
        /\ CallerOf[j] \in Callers /\ ClassOf[CallerOf[j]] \in Classes
        /\ serving \in Requests \cup {None}
        /\ queue \in [Callers -> Seq(Requests)] /\ callers \in [Classes -> Seq(Callers)]
    BY JoinEffect, LimiterAssumption DEF Join, LimiterInv, Shape, QueuesTyped
  <1>2. CASE QueuesUp(j)
    <2>1. ASSUME NEW r \in Requests, r \in ToSet(queue'[CallerOf[r]])
          PROVE  \/ turnsSeen[r] = NoTurnsSeen
                 \/ \A c \in Callers : Before(callers'[ClassOfRequest(r)], c, CallerOf[r]) =>
                                        Before(callers[ClassOfRequest(r)], c, CallerOf[r])
      <3> DEFINE d == CallerOf[r]
                 x == CallerOf[j]
                 k == ClassOf[d]
      <3>1. d \in Callers /\ k \in Classes
        BY LimiterAssumption
      <3>2. CASE r \notin ToSet(queue[d])
        BY <3>2 DEF Rotation
      <3>3. CASE queue[x] # <<>> \/ ClassOf[x] # k
        <4>1. callers'[k] = callers[k]
          BY <1>1, <1>2, <3>1, <3>3 DEF QueuesUp, JoinCallers
        <4> QED BY <4>1 DEF ClassOfRequest
      <3>4. CASE r \in ToSet(queue[d]) /\ queue[x] = <<>> /\ ClassOf[x] = k
        <4> DEFINE s == callers[k]
        <4>1. callers'[k] = Append(s, x) /\ s \in Seq(Callers)
          BY <1>1, <1>2, <3>1, <3>4 DEF QueuesUp, JoinCallers
        <4>2. queue[d] # <<>>
          BY <1>1, <3>1, <3>4, Members
        <4>3. d \in ToSet(s) /\ x \notin ToSet(s)
          BY <1>1, <3>1, <3>4, <4>2 DEF LimiterInv, Shape, Listed
        <4> HIDE DEF s
        <4>4. \A c \in Callers : Before(Append(s, x), c, d) => Before(s, c, d)
          BY <1>1, <4>1, <4>3, BeforeAppend
        <4> QED BY <4>1, <4>4 DEF s, ClassOfRequest
      <3> QED BY <3>2, <3>3, <3>4
    <2>2. serving' \in {None, serving} /\ serving' \in Requests \cup {None}
      BY <1>1, <1>2 DEF QueuesUp
    <2> QED BY <1>0, <2>1, <2>2, RotationKept
  <1>3. CASE GoesOn(j)
    <2>1. \A r \in Requests : r \notin ToSet(queue'[CallerOf[r]])
      BY <1>3, LimiterAssumption DEF GoesOn, ToSet
    <2>2. serving' \in Requests \cup {None}
      BY <1>3 DEF GoesOn
    <2>3. /\ turnsSeen' \in [Requests -> [Callers -> Nat]]
          /\ \A r \in Requests : turnsSeen'[r] = NoTurnsSeen
      BY <1>0, <2>1, <2>2, Noted
    <2> QED BY <2>3, NothingSeen, LimiterAssumption DEF Rotation
  <1> QED BY <1>1, <1>2, <1>3

LEMMA RotationLeft ==
    ASSUME LimiterInv, NoteTurn, Rotation, NEW j \in Requests, Leaves(j)
    PROVE  Rotation'
  <1>1. /\ serving' = serving /\ serving \in Requests \cup {None}
        /\ callers \in [Classes -> Seq(Callers)]
        /\ callers' = LeftCallers(j)
        /\ ClassOf[CallerOf[j]] \in Classes
    BY LimiterAssumption DEF Leaves, LimiterInv, Shape, QueuesTyped
  <1>2. ASSUME NEW k \in Classes, NEW c \in Callers, NEW d \in Callers,
               Before(callers'[k], c, d)
        PROVE  Before(callers[k], c, d)
    <2> DEFINE s == callers[k]
               x == CallerOf[j]
    <2>1. s \in Seq(Callers) /\ (callers'[k] = s \/ callers'[k] = RemoveFirst(s, x))
      BY <1>1 DEF LeftCallers
    <2> HIDE DEF s, x
    <2>2. Before(RemoveFirst(s, x), c, d) => Before(s, c, d)
      BY <2>1, BeforeRemoveFirst
    <2> QED BY <1>2, <2>1, <2>2 DEF s
  <1>3. \A r \in Requests : CallerOf[r] \in Callers /\ ClassOfRequest(r) \in Classes
    BY LimiterAssumption DEF ClassOfRequest
  <1> QED BY <1>1, <1>2, <1>3, RotationKept

LEMMA RotationStep ==
    ASSUME LimiterInv, Rotation, [Next]_vars
    PROVE  Rotation'
  <1>1. ASSUME NEW r \in Requests, LeaveClosed(r) \/ CancelWaiting(r) \/ Finish(r)
        PROVE  Rotation'
    <2>1. Departs(r) /\ NoteTurn
      BY <1>1, DepartSteps DEF Departs
    <2>2. CASE PassesOn(r)
      BY <2>1, <2>2, RotationPassed
    <2>3. CASE Frees(r)
      <3>1. serving' \in {None, serving} /\ serving' \in Requests \cup {None}
        BY <2>3 DEF Frees
      <3>2. callers' = callers
        BY <2>3 DEF Frees
      <3> QED BY <2>1, <3>1, <3>2, RotationKept
    <2>4. CASE Leaves(r)
      BY <2>1, <2>4, RotationLeft
    <2> QED BY <2>1, <2>2, <2>3, <2>4 DEF Departs
  <1>2. ASSUME Unmoved PROVE Rotation'
    <2>1. turnsSeen' = turnsSeen /\ queue' = queue /\ callers' = callers
      BY <1>2 DEF Unmoved
    <2> QED BY <2>1 DEF Rotation, InTurn
  <1> QED BY <1>1, <1>2, RotationJoined, StepKinds

\* Round-robin inside a class, for every number of callers and requests: while a
\* request is queued, another caller of its class is at most one turn ahead of
\* its own (fairness.py:173-179).
THEOREM RoundRobinAlways == Spec => []RoundRobin
  <1>1. Init => LimiterInv /\ Rotation
    <2> SUFFICES ASSUME Init PROVE Rotation
      BY InitInv
    <2>1. /\ \A r \in Requests : turnsSeen[r] = NoTurnsSeen /\ CallerOf[r] \in Callers
          /\ NoTurnsSeen \in [Callers -> Nat]
          /\ turnsSeen = [r \in Requests |-> NoTurnsSeen]
      BY LimiterAssumption DEF Init, NoTurnsSeen
    <2>2. turnsSeen \in [Requests -> [Callers -> Nat]]
      BY <2>1
    <2> QED BY <2>1, <2>2, NothingSeen DEF Rotation
  <1>2. (LimiterInv /\ Rotation) /\ [Next]_vars => (LimiterInv /\ Rotation)'
    BY LimiterStep, RotationStep
  <1>3. Rotation => RoundRobin
    BY DEF Rotation, RoundRobin, InTurn
  <1> QED BY <1>1, <1>2, <1>3, PTL DEF Spec
-----------------------------------------------------------------------------
\* The weights, over any number of decisions.
\* A step that gives no turn, and one that gives the turn to a request of the
\* class that the weights choose among the active ones.
NoDecision ==
    /\ scores' = scores
    /\ serving' \in {None, serving}

Decision(active) ==
    /\ active # {}
    /\ scores' = Settled(scores, active)
    /\ serving' \notin {None, serving}
    /\ ClassOfRequest(serving') = Chosen(scores, active)
    /\ \A k \in Classes \ active : callers'[k] = <<>>

\* What _select_if_idle does to the scores, whatever queues it is entered with.
LEMMA SelectionDecides ==
    ASSUME NEW q, NEW cs, NEW turn, SelectIfIdle(q, cs, turn),
           QueuesTyped(q, cs), Listed(q, cs), Sorted(q), scores \in [Classes -> Int],
           turn \in {None, serving},
           turn = None => \A c \in Callers : serving \notin ToSet(q[c])
    PROVE  NoDecision \/ \E active \in SUBSET Classes : Decision(active)
  <1> DEFINE active == {k \in Classes : cs[k] # <<>>}
  <1>1. CASE turn # None \/ closed \/ active = {}
    BY <1>1 DEF SelectIfIdle, StayPut, NoDecision
  <1>2. CASE ~ (turn # None \/ closed \/ active = {})
    <2> DEFINE class == Chosen(scores, active)
               caller == Head(cs[class])
    <2>1. SelectNext(q, cs, active)
      BY <1>2 DEF SelectIfIdle
    <2>2. /\ serving' = Head(q[caller])
          /\ callers' = [cs EXCEPT ![class] =
                IF Tail(q[caller]) = <<>> THEN Tail(cs[class])
                ELSE Append(Tail(cs[class]), caller)]
          /\ scores' = Settled(scores, active)
      BY <2>1 DEF SelectNext
    <2>3. active \in SUBSET Classes /\ active # {}
      BY <1>2
    <2>4. class \in active
      <3> HIDE DEF active
      <3> QED BY <2>3, ChosenActive
    <2>5. class \in Classes /\ cs[class] # <<>> /\ cs[class] \in Seq(Callers)
      BY <2>4 DEF QueuesTyped
    <2>6. \A k \in Classes \ active : cs[k] = <<>> /\ k # class
      BY <2>4
    <2> HIDE DEF active, class
    <2>7. caller \in Callers /\ ClassOf[caller] = class /\ q[caller] # <<>>
      <3>1. caller \in ToSet(cs[class])
        BY <2>5, TailMembers
      <3> QED BY <2>5, <3>1 DEF Listed
    <2>8. q[caller] \in Seq(Requests)
      BY <2>7 DEF QueuesTyped
    <2> HIDE DEF caller
    <2>9. serving' \in ToSet(q[caller]) /\ serving' \in Requests
      BY <2>2, <2>7, <2>8, TailMembers
    <2>10. CallerOf[serving'] = caller
      BY <2>7, <2>9 DEF Sorted
    <2>11. serving' \notin {None, serving}
      BY <1>2, <2>7, <2>9, LimiterAssumption
    <2>12. \A k \in Classes \ active : callers'[k] = <<>>
      BY <2>2, <2>6 DEF QueuesTyped
    <2>13. Decision(active)
      BY <2>2, <2>3, <2>7, <2>10, <2>11, <2>12 DEF Decision, ClassOfRequest, class
    <2> QED BY <2>3, <2>13
  <1> QED BY <1>1, <1>2

\* The scores change in decisions only, and a decision is what a change of the
\* turn to another request shows.
LEMMA ScoreSteps ==
    ASSUME LimiterInv, [Next]_vars
    PROVE  NoDecision \/ \E active \in SUBSET Classes : Decision(active)
  <1> DEFINE Goal == NoDecision \/ \E active \in SUBSET Classes : Decision(active)
  <1>1. /\ Shape /\ QueuedWait /\ WaitersServed
        /\ QueuesTyped(queue, callers) /\ Listed(queue, callers) /\ Sorted(queue)
        /\ scores \in [Classes -> Int]
    BY DEF LimiterInv, Shape
  <1>2. \A c \in Callers : serving \notin ToSet(queue[c])
    BY <1>1 DEF QueuedWait
  <1>3. ASSUME SelectIfIdle(queue, callers, None) PROVE Goal
    BY <1>1, <1>2, <1>3, SelectionDecides
  <1>4. ASSUME NEW r \in Requests, Join(r) PROVE Goal
    <2> DEFINE q == JoinQueues(r)
               cs == JoinCallers(r)
    <2>1. pc[r] = "idle" /\ SelectIfIdle(q, cs, serving)
      BY <1>4 DEF Join, JoinQueues, JoinCallers
    <2>2. QueuesTyped(q, cs) /\ Listed(q, cs) /\ Sorted(q)
      BY <1>1, <2>1, Enqueued
    <2> HIDE DEF q, cs
    <2>3. serving = None => \A c \in Callers : serving \notin ToSet(q[c])
      <3>1. \A c \in Callers : q[c] \in Seq(Requests)
        BY <2>2 DEF QueuesTyped
      <3>2. \A c \in Callers : ToSet(q[c]) \subseteq Requests
        BY <3>1, Members
      <3> QED BY <3>2, LimiterAssumption
    <2> QED BY <1>1, <2>1, <2>2, <2>3, SelectionDecides
  <1>5. ASSUME NEW r \in Requests, pc[r] = "waiting", Abandon(r) PROVE Goal
    <2>1. CASE serving = r
      BY <1>3, <1>5, <2>1 DEF Abandon
    <2>2. CASE serving # r
      <3> DEFINE q == LeftQueues(r)
                 cs == LeftCallers(r)
      <3>1. SelectIfIdle(q, cs, serving)
        BY <1>5, <2>2 DEF Abandon, LeftQueues, LeftCallers, LeftQueue
      <3>2. r \in ToSet(queue[CallerOf[r]])
        BY <1>1, <1>5, <2>2 DEF WaitersServed, Waiting
      <3>3. /\ QueuesTyped(q, cs) /\ Listed(q, cs) /\ Sorted(q)
            /\ \A c \in Callers : ToSet(q[c]) = ToSet(queue[c]) \ {r}
        BY <1>1, <3>2, Withdrawn
      <3>4. \A c \in Callers : serving \notin ToSet(q[c])
        BY <1>2, <3>3
      <3> HIDE DEF q, cs
      <3> QED BY <1>1, <3>1, <3>3, <3>4, SelectionDecides
    <2> QED BY <2>1, <2>2
  <1>6. ASSUME NEW r \in Requests, LeaveClosed(r) \/ CancelWaiting(r) \/ Finish(r)
        PROVE  Goal
    <2>1. CASE LeaveClosed(r) \/ CancelWaiting(r)
      BY <1>5, <2>1 DEF LeaveClosed, CancelWaiting, MayCancel
    <2>2. CASE Finish(r)
      <3>1. serving = r
        BY <2>2 DEF Finish, LimiterInv, OneAtTheBucket, AtBucket
      <3> QED BY <1>3, <2>2, <3>1 DEF Finish
    <2> QED BY <1>6, <2>1, <2>2
  <1>7. ASSUME Unmoved PROVE Goal
    BY <1>7 DEF Unmoved, NoDecision
  <1> QED BY <1>4, <1>6, <1>7, StepKinds

LEMMA InitBalanced ==
    ASSUME Init
    PROVE  Balanced(scores)
  <1> SUFFICES ASSUME NEW s \in SUBSET Classes
               PROVE  /\ -Bound(Cardinality(s)) <= 2 * Sum(scores)[s]
                      /\ 2 * Sum(scores)[s] <= Bound(Cardinality(s))
    BY DEF Balanced
  <1>1. scores \in [Classes -> Int] /\ \A k \in s : scores[k] = 0
    BY DEF Init
  <1>2. Sum(scores)[s] = 0
    BY <1>1, SumNothing
  <1>3. Cardinality(s) \in 0 .. Cardinality(Classes) /\ Cardinality(s) \in 0 .. Cardinality(s)
    BY Sizes
  <1>4. Bound(Cardinality(s)) \in Nat
    BY <1>3, BoundGrows
  <1> QED BY <1>2, <1>4

LEMMA BalancedStep ==
    ASSUME LimiterInv, Balanced(scores), [Next]_vars
    PROVE  Balanced(scores')
  <1>1. CASE NoDecision
    BY <1>1 DEF NoDecision
  <1>2. ASSUME NEW active \in SUBSET Classes, Decision(active) PROVE Balanced(scores')
    <2>1. scores \in [Classes -> Int]
      BY DEF LimiterInv, Shape
    <2> QED BY <1>2, <2>1, SettledBalanced DEF Decision
  <1> QED BY <1>1, <1>2, ScoreSteps

\* The classes, each and together, keep no credit and no debt beyond what Bound
\* says, a class alone n - 1 times the weight of all: no sequence of arrivals,
\* withdrawals and disconnects lets a class bank turns or be charged without end
\* (fairness.py:165-171; README.md:226 "Idle classes do not waste or bank turns").
THEOREM ScoresBalanced == Spec => []Balanced(scores)
  <1>1. LimiterInv /\ Balanced(scores) /\ [Next]_vars => Balanced(scores)'
    BY BalancedStep
  <1> QED BY <1>1, InitBalanced, LimiterInvAlways, PTL DEF Spec

\* The account of a class with a caller waiting, against its score.
Linked ==
    /\ shortfall \in [Classes -> Nat]
    /\ \A k \in Classes :
        shortfall[k] # 0 => 2 * shortfall[k] <= 2 * scores[k] + Bound(1)

\* The bound on one class: a set of one.
LEMMA OneClass ==
    ASSUME NEW f \in [Classes -> Int], Balanced(f), NEW k \in Classes
    PROVE  /\ Bound(1) \in Nat
           /\ Bound(1) = 2 * (Cardinality(Classes) - 1) * ActiveWeight(Classes)
           /\ f[k] \in Int
           /\ -Bound(1) <= 2 * f[k] /\ 2 * f[k] <= Bound(1)
  <1>1. Sum(f)[{k}] = f[k]
    <2>1. {k} \in SUBSET Classes /\ k \in {k} /\ {k} \ {k} = {} /\ f[k] \in Int
      OBVIOUS
    <2>2. Sum(f)[{k}] = f[k] + Sum(f)[{k} \ {k}]
      BY <2>1, SumTake
    <2>3. Sum(f)[{k} \ {k}] = 0
      BY <2>1, SumEmpty
    <2> QED BY <2>1, <2>2, <2>3
  <1>2. Cardinality({k}) = 1
    BY FS_Singleton
  <1>3. Cardinality({k}) \in 0 .. Cardinality(Classes) /\ Cardinality(Classes) \in Nat
    BY Sizes
  <1>4. Bound(1) \in Nat
    BY <1>2, <1>3, BoundGrows
  <1>5. Bound(1) = 2 * (Cardinality(Classes) - 1) * ActiveWeight(Classes)
    <2> DEFINE n == Cardinality(Classes)
               w == ActiveWeight(Classes)
    <2>1. n \in Nat /\ w \in Nat
      BY <1>3, WeightSum
    <2> HIDE DEF n, w
    <2>2. (1 * ((2 * n - 1) - 1)) * w = 2 * (n - 1) * w
      BY <2>1
    <2> QED BY <2>2 DEF Bound, Cap, n, w
  <1> QED BY <1>1, <1>2, <1>4, <1>5 DEF Balanced

ShareInv == LimiterInv /\ Balanced(scores) /\ Linked

\* A decision adds to the score of an active class what it adds to its account,
\* or more: the chosen one pays the weights of the active classes only.
LEMMA LinkedStep ==
    ASSUME LimiterInv, Balanced(scores), Balanced(scores'), Linked,
           scores' \in [Classes -> Int], NoteShare,
           NoDecision \/ \E active \in SUBSET Classes : Decision(active)
    PROVE  Linked'
  <1> DEFINE w == ActiveWeight(Classes)
             b == Bound(1)
             short == shortfall'
  <1>0. /\ scores \in [Classes -> Int] /\ shortfall \in [Classes -> Nat]
        /\ Weight \in [Classes -> Nat] /\ w \in Nat
    BY ClassesAssumption, WeightSum DEF LimiterInv, Shape, Linked
  <1>1. short = [k \in Classes |->
            IF callers'[k] = <<>> THEN 0
            ELSE IF serving' \in {None, serving} THEN shortfall[k]
            ELSE IF Due(k) < 0 THEN 0 ELSE Due(k)]
    BY DEF NoteShare
  <1>2. \A k \in Classes : Due(k) \in Int
    BY <1>0 DEF Due
  <1> SUFFICES ASSUME NEW k \in Classes
               PROVE  short[k] \in Nat /\ (short[k] # 0 => 2 * short[k] <= 2 * scores'[k] + b)
    BY <1>1 DEF Linked
  <1>3. /\ short[k] = IF callers'[k] = <<>> THEN 0
                      ELSE IF serving' \in {None, serving} THEN shortfall[k]
                      ELSE IF Due(k) < 0 THEN 0 ELSE Due(k)
        /\ Due(k) \in Int /\ shortfall[k] \in Nat /\ Weight[k] \in Nat
        /\ scores[k] \in Int /\ scores'[k] \in Int
    BY <1>0, <1>1, <1>2
  <1> HIDE DEF short
  <1>4. b \in Nat /\ -b <= 2 * scores[k]
    BY <1>0, OneClass
  <1>5. shortfall[k] # 0 => 2 * shortfall[k] <= 2 * scores[k] + b
    BY DEF Linked
  <1> HIDE DEF w, b
  <1>6. CASE callers'[k] = <<>>
    BY <1>3, <1>6
  <1>7. CASE NoDecision
    BY <1>3, <1>5, <1>7 DEF NoDecision
  <1>8. ASSUME callers'[k] # <<>>, NEW active \in SUBSET Classes, Decision(active)
        PROVE  short[k] \in Nat /\ (short[k] # 0 => 2 * short[k] <= 2 * scores'[k] + b)
    <2> DEFINE chosen == Chosen(scores, active)
               a == ActiveWeight(active)
    <2>1. k \in active /\ active # {}
      BY <1>8 DEF Decision
    <2>2. ClassOfRequest(serving') = chosen /\ scores' = Settled(scores, active)
          /\ serving' \notin {None, serving}
      BY <1>8 DEF Decision
    <2>3. a \in Nat /\ a <= w
      BY WeightsWithin DEF w
    <2>4. scores'[k] = IF k = chosen THEN scores[k] + Weight[k] - a ELSE scores[k] + Weight[k]
      <3> DEFINE credited == Credited(scores, active)
                 settled == Settled(scores, active)
      <3>1. /\ credited[k] = scores[k] + Weight[k]
            /\ k # chosen => settled[k] = credited[k]
            /\ settled[chosen] = credited[chosen] - a
        BY <1>0, <2>1, SettledScores
      <3>2. scores'[k] = settled[k]
        BY <2>2
      <3> HIDE DEF credited, settled, chosen, a
      <3>3. CASE k = chosen
        <4>1. settled[k] = scores[k] + Weight[k] - a
          BY <1>3, <2>3, <3>1, <3>3
        <4> QED BY <3>2, <3>3, <4>1, Zenon
      <3>4. CASE k # chosen
        <4>1. settled[k] = scores[k] + Weight[k]
          BY <3>1, <3>4, Zenon
        <4> QED BY <3>2, <3>4, <4>1, Zenon
      <3> QED BY <3>3, <3>4
    <2>5. Due(k) = shortfall[k] + Weight[k] - (IF k = chosen THEN w ELSE 0)
      BY <2>2 DEF Due, w
    <2>6. short[k] = IF Due(k) < 0 THEN 0 ELSE Due(k)
      BY <1>3, <1>8, <2>2
    <2> HIDE DEF a, chosen
    <2>7. 2 * shortfall[k] <= 2 * scores[k] + b
      BY <1>3, <1>4, <1>5
    <2>8. 2 * Due(k) <= 2 * scores'[k] + b
      <3> DEFINE owed == shortfall[k]
                 old == scores[k]
                 new == scores'[k]
                 own == Weight[k]
      <3>1. owed \in Nat /\ old \in Int /\ new \in Int /\ own \in Nat /\ w \in Nat /\ b \in Nat
        BY <1>0, <1>3, <1>4
      <3>2. 2 * owed <= 2 * old + b
        BY <2>7
      <3>3. CASE k = chosen
        <4>1. Due(k) = owed + own - w /\ new = old + own - a
          BY <2>4, <2>5, <3>3
        <4> HIDE DEF owed, old, new, own
        <4>2. 2 * (owed + own - w) <= 2 * new + b
          BY <2>3, <3>1, <3>2, <4>1
        <4> QED BY <4>1, <4>2 DEF new
      <3>4. CASE k # chosen
        <4>1. Due(k) = owed + own - 0 /\ new = old + own
          BY <2>4, <2>5, <3>4
        <4> HIDE DEF owed, old, new, own
        <4>2. 2 * (owed + own - 0) <= 2 * new + b
          BY <3>1, <3>2, <4>1
        <4> QED BY <4>1, <4>2 DEF new
      <3> QED BY <3>3, <3>4
    <2> QED BY <1>3, <2>6, <2>8
  <1> QED BY <1>6, <1>7, <1>8

\* Every class gets its weight's share of the turns, for every policy and every
\* set of requests: over any stretch of decisions during which it has a caller
\* waiting it is at most 2 * (n - 1) turns behind (fairness.py:159-171;
\* README.md:222-232).  In particular none starves.
THEOREM ShareKeptAlways == ShareSpec => []ShareKept
  <1>1. ShareInit => ShareInv
    <2> SUFFICES ASSUME ShareInit PROVE Balanced(scores) /\ Linked
      BY InitInv DEF ShareInit, ShareInv
    <2>1. Balanced(scores)
      BY InitBalanced DEF ShareInit
    <2>2. Linked
      BY DEF ShareInit, Linked
    <2> QED BY <2>1, <2>2
  <1>2. ShareInv /\ [ShareNext]_shareVars => ShareInv'
    <2> SUFFICES ASSUME ShareInv, [ShareNext]_shareVars PROVE ShareInv'
      OBVIOUS
    <2>1. [Next]_vars /\ LimiterInv /\ Balanced(scores) /\ Linked
      BY DEF ShareNext, shareVars, ShareInv
    <2>2. LimiterInv' /\ Balanced(scores')
      BY <2>1, LimiterStep, BalancedStep
    <2>3. CASE NoteShare
      <3>1. scores' \in [Classes -> Int]
        BY <2>2 DEF LimiterInv, Shape
      <3> QED BY <2>1, <2>2, <2>3, <3>1, ScoreSteps, LinkedStep DEF ShareInv
    <2>4. CASE UNCHANGED shareVars
      <3>1. Linked'
        BY <2>1, <2>4 DEF shareVars, vars, Linked
      <3> QED BY <2>2, <3>1 DEF ShareInv
    <2> QED BY <2>3, <2>4 DEF ShareNext
  <1>3. ShareInv => ShareKept
    <2> SUFFICES ASSUME ShareInv, NEW k \in Classes
                 PROVE  shortfall[k] <= 2 * (Cardinality(Classes) - 1) * ActiveWeight(Classes)
      BY DEF ShareKept
    <2> DEFINE b == Bound(1)
    <2>1. /\ b \in Nat /\ scores[k] \in Int /\ 2 * scores[k] <= b
          /\ b = 2 * (Cardinality(Classes) - 1) * ActiveWeight(Classes)
      BY OneClass DEF ShareInv, LimiterInv, Shape
    <2>2. shortfall[k] \in Nat /\ (shortfall[k] # 0 => 2 * shortfall[k] <= 2 * scores[k] + b)
      BY DEF ShareInv, Linked
    <2> HIDE DEF b
    <2>3. shortfall[k] <= b
      BY <2>1, <2>2
    <2> QED BY <2>1, <2>3
  <1> QED BY <1>1, <1>2, <1>3, PTL DEF ShareSpec
-----------------------------------------------------------------------------
\* The refinement, move by move: a request enters, gives the turn up, or withdraws.
LEMMA PlaceOf ==
    ASSUME NEW r \in Requests
    PROVE  Places[r] = IF serving = r THEN "turn"
                       ELSE IF pc[r] = "waiting" THEN "line" ELSE "out"
  BY DEF Places

LEMMA InLine ==
    ASSUME LimiterInv
    PROVE  /\ \A s \in Requests : s \in Turn!At("line") <=> pc[s] = "waiting" /\ s # serving
           /\ \A s \in Turn!At("line") : s \in Requests /\ s \in ToSet(queue[CallerOf[s]])
           /\ serving # None => serving \in Turn!At("turn")
           /\ serving = None => Turn!At("turn") = {}
           /\ (\A c \in Callers : queue[c] = <<>>) => Turn!At("line") = {}
  <1>1. \A s \in Requests : s \in Turn!At("line") <=> pc[s] = "waiting" /\ s # serving
    BY PlaceOf DEF Turn!At
  <1>2. \A s \in Turn!At("line") : s \in Requests /\ s \in ToSet(queue[CallerOf[s]])
    BY <1>1 DEF Turn!At, LimiterInv, WaitersServed, Waiting
  <1>3. serving # None => serving \in Turn!At("turn")
    BY PlaceOf DEF Turn!At, LimiterInv, Shape
  <1>4. serving = None => Turn!At("turn") = {}
    BY PlaceOf, LimiterAssumption DEF Turn!At
  <1>5. (\A c \in Callers : queue[c] = <<>>) => Turn!At("line") = {}
    BY <1>2, LimiterAssumption DEF ToSet
  <1> QED BY <1>1, <1>2, <1>3, <1>4, <1>5

\* A change of place, request by request.
LEMMA Moved ==
    ASSUME NEW f \in [Requests -> {"turn", "line", "out"}],
           \A s \in Requests : f[s] = IF serving' = s THEN "turn"
                                     ELSE IF pc'[s] = "waiting" THEN "line" ELSE "out"
    PROVE  Places' = f
  BY DEF Places

LEMMA JoinEnters ==
    ASSUME LimiterInv, NEW r \in Requests, Join(r)
    PROVE  Turn!Enter(r)
  <1>1. /\ pc[r] = "idle" /\ ~closed /\ closed' = closed
        /\ QueuesUp(r) \/ GoesOn(r)
        /\ pc \in [Requests -> Awaits \cup {"idle", "gone"}]
        /\ TurnHeld /\ r # None
    BY JoinEffect, LimiterAssumption DEF Join, LimiterInv, Shape
  <1>2. Open /\ Open' = Open /\ Places[r] = "out" /\ serving # r
    BY <1>1, PlaceOf DEF Open, TurnHeld
  <1>3. Places \in [Requests -> {"turn", "line", "out"}]
    BY DEF Places
  <1>4. CASE QueuesUp(r)
    <2> DEFINE f == [Places EXCEPT ![r] = "line"]
    <2>0. /\ f \in [Requests -> {"turn", "line", "out"}]
          /\ \A s \in Requests : f[s] = IF s = r THEN "line" ELSE Places[s]
      BY <1>3
    <2> HIDE DEF f
    <2>1. Places' = f
      <3>1. /\ serving' = serving
            /\ \A s \in Requests : pc'[s] = IF s = r THEN "waiting" ELSE pc[s]
        BY <1>1, <1>4 DEF QueuesUp
      <3> QED BY <1>2, <2>0, <3>1, PlaceOf, Moved
    <2>2. Turn!At("turn") # {}
      BY <1>4, InLine DEF QueuesUp
    <2> QED BY <1>2, <2>1, <2>2 DEF Turn!Enter, f
  <1>5. CASE GoesOn(r)
    <2> DEFINE f == [Places EXCEPT ![r] = "turn"]
    <2>0. /\ f \in [Requests -> {"turn", "line", "out"}]
          /\ \A s \in Requests : f[s] = IF s = r THEN "turn" ELSE Places[s]
      BY <1>3
    <2> HIDE DEF f
    <2>1. Places' = f
      <3>1. /\ serving' = r /\ serving \notin Requests
            /\ \A s \in Requests : pc'[s] = IF s = r THEN "admitting" ELSE pc[s]
        BY <1>1, <1>5, LimiterAssumption DEF GoesOn
      <3> QED BY <1>2, <2>0, <3>1, PlaceOf, Moved
    <2>2. Turn!At("turn") = {} /\ Turn!At("line") = {}
      BY <1>5, InLine DEF GoesOn
    <2> QED BY <1>2, <2>1, <2>2 DEF Turn!Enter, f
  <1> QED BY <1>1, <1>4, <1>5

LEMMA DepartMaps ==
    ASSUME LimiterInv, NEW r \in Requests, Departs(r)
    PROVE  Turn!GiveUp(r) \/ Turn!Withdraw(r)
  <1>1. /\ closed' = closed /\ pc' = [pc EXCEPT ![r] = "idle"]
        /\ pc \in [Requests -> Awaits \cup {"idle", "gone"}]
        /\ serving \in Requests \cup {None} /\ r # None
    BY LimiterAssumption DEF Departs, LimiterInv, Shape
  <1> DEFINE out == [Places EXCEPT ![r] = "out"]
  <1>2. /\ Open' = Open
        /\ \A s \in Requests : pc'[s] = IF s = r THEN "idle" ELSE pc[s]
    BY <1>1 DEF Open
  <1>6. Places \in [Requests -> {"turn", "line", "out"}]
    BY DEF Places
  <1>7. /\ out \in [Requests -> {"turn", "line", "out"}]
        /\ \A s \in Requests : out[s] = IF s = r THEN "out" ELSE Places[s]
    BY <1>6
  <1> HIDE DEF out
  <1>3. CASE PassesOn(r)
    <2>1. /\ Open /\ Places[r] = "turn" /\ serving' \in Requests /\ serving' # r
          /\ serving' \in Turn!At("line")
      BY <1>3, PlaceOf, InLine DEF PassesOn, Open, Waiting
    <2>2. Places' = [Places EXCEPT ![r] = "out", ![serving'] = "turn"]
      <3> DEFINE f == [out EXCEPT ![serving'] = "turn"]
      <3>1. /\ f \in [Requests -> {"turn", "line", "out"}]
            /\ \A s \in Requests : f[s] = IF s = serving' THEN "turn" ELSE out[s]
        BY <1>7
      <3> HIDE DEF f
      <3>2. serving = r
        BY <1>3 DEF PassesOn
      <3>3. Places' = f
        BY <1>2, <1>7, <2>1, <3>1, <3>2, PlaceOf, Moved
      <3> QED BY <3>3 DEF f, out
    <2> QED BY <1>2, <2>1, <2>2 DEF Turn!GiveUp
  <1>4. CASE Frees(r)
    <2>1. Places[r] = "turn"
      BY <1>4, PlaceOf DEF Frees
    <2>2. Places' = out
      <3>1. serving = r /\ serving' \notin Requests
        BY <1>4, LimiterAssumption DEF Frees
      <3> QED BY <1>2, <1>7, <3>1, PlaceOf, Moved
    <2>3. ~Open \/ Turn!At("line") = {}
      BY <1>4, InLine DEF Frees, Open
    <2> QED BY <1>2, <2>1, <2>2, <2>3 DEF Turn!GiveUp, out
  <1>5. CASE pc[r] = "waiting" /\ Leaves(r)
    <2>1. Places[r] = "line"
      BY <1>5, PlaceOf DEF Leaves
    <2>2. Places' = out
      <3>1. serving' = serving /\ serving # r
        BY <1>5 DEF Leaves
      <3> QED BY <1>2, <1>7, <3>1, PlaceOf, Moved
    <2> QED BY <1>2, <2>1, <2>2 DEF Turn!Withdraw, out
  <1> QED BY <1>3, <1>4, <1>5 DEF Departs

LEMMA UnmovedMaps ==
    ASSUME LimiterInv, Unmoved
    PROVE  Turn!Shut \/ UNCHANGED Turn!vars
  <1>1. Places' = Places
    BY DEF Unmoved, Places
  <1>2. CASE closed' = closed
    BY <1>1, <1>2 DEF Turn!vars, Open
  <1>3. CASE closed' # closed
    <2>1. closed' = TRUE /\ closed = FALSE
      BY <1>3 DEF Unmoved, LimiterInv, Shape
    <2> QED BY <1>1, <2>1 DEF Turn!Shut, Open
  <1> QED BY <1>2, <1>3

\* The limiter, with its queues, classes and scores, its three awaits and its
\* disconnects, implements the single turn of AdmissionTurn for every policy and
\* every set of requests: no step frees the turn while somebody is in line, and
\* none hands it to a request that has left (fairness.py:95-111, 159-179,
\* 181-205).
THEOREM LimiterImplementsTurn == Spec => ImplementsTurn
  <1>1. Init => Turn!Init
    BY LimiterAssumption DEF Init, Turn!Init, Places, Open
  <1>2. LimiterInv /\ [Next]_vars => [Turn!Next]_(Turn!vars)
    BY StepKinds, JoinEnters, DepartSteps, DepartMaps, UnmovedMaps DEF Turn!Next
  <1> QED BY <1>1, <1>2, LimiterInvAlways, PTL DEF Spec, ImplementsTurn, Turn!Spec
=============================================================================

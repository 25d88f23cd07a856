---------------------------- MODULE BrokerProofs ----------------------------
(***************************************************************************)
(* What holds of Broker.get for every set of requests, callers, paths,     *)
(* credentials and times to live, and every bound on the cache and on the  *)
(* retries.                                                                *)
(***************************************************************************)
EXTENDS Broker, SequenceLemmas

OneAKey(s) == \A i, j \in DOMAIN s : s[i].key = s[j].key => i = j

CacheShape ==
    /\ cache \in Seq(Entry)
    /\ Len(cache) <= MaxEntries
    /\ OneAKey(cache)

\* Who has not arrived has no fetch and waits for none; a fetch that has not
\* begun has not called.
NotBegun ==
    \A r \in Requests :
        /\ pc[r] = "idle" => phase[r] = "none" /\ source[r] = None
        /\ phase[r] = "none" => attempts[r] = 0

\* A fetch goes back to the limiter only while it has a retry left.
RetryLeft ==
    \A f \in Requests : phase[f] \in {"queued", "sleeping"} => attempts[f] <= MaxRetries

\* What is true of a cached entry as long as it is cached.
EntrySound(entry) ==
    /\ entry.key = Key(entry.from)
    /\ TtlOf(entry.from) > 0
    /\ phase[entry.from] = "over"
    /\ result[entry.from] = "ok"
    /\ entry.expiresAt = fetchedAt[entry.from] + Ttl[PathOf[entry.from]]
    /\ \A f \in Requests : result[f] = "ok" /\ CanShare(f) /\ Key(f) = entry.key =>
        fetchedAt[f] <= fetchedAt[entry.from]
EntriesSound == \A entry \in ToSet(cache) : EntrySound(entry)

\* Whoever waits or was answered has a fetch; the answer it waits for is not in
\* yet, or came in after it asked.
SourceFollowed ==
    \A r \in Requests :
        /\ pc[r] = "waiting" =>
            /\ source[r] \in Requests
            /\ phase[source[r]] = "over" => askedAt[r] <= fetchedAt[source[r]]
        /\ pc[r] = "answered" => source[r] \in Requests /\ phase[source[r]] = "over"

Inv ==
    /\ TypeOK
    /\ CacheShape
    /\ NotBegun
    /\ RetryLeft
    /\ SingleFlight
    /\ EntriesSound
    /\ KeptApart
    /\ SourceFollowed
    /\ Fresh
-----------------------------------------------------------------------------
\* The two ways on from a 429, and every end of a fetch, as actions.
Sleeps(f) ==
    /\ phase[f] = "calling"
    /\ attempts[f] <= MaxRetries
    /\ phase' = [phase EXCEPT ![f] = "sleeping"]
    /\ UNCHANGED <<now, closing, cache, inflight, attempts, result, fetchedAt, requests>>

Ended(f, how) ==
    /\ phase[f] \in {"queued", "calling"}
    /\ how \in Results
    /\ End(f, how)
    /\ UNCHANGED <<now, closing, attempts, requests>>

StepOf(r) ==
    \/ Refuse(r) \/ ServeCached(r) \/ FetchAlone(r) \/ Lead(r) \/ Coalesce(r)
    \/ CallUpstream(r) \/ Sleeps(r) \/ Retry(r)
    \/ Deliver(r) \/ Disconnect(r)
    \/ \E how \in Results : Ended(r, how)

LEMMA StepCases ==
    ASSUME [Next]_vars
    PROVE  (\E r \in Requests : StepOf(r)) \/ Close \/ Tick \/ UNCHANGED vars
  <1>1. ASSUME NEW f \in Requests, FailBeforeCall(f)
        PROVE  \E how \in Results : Ended(f, how)
    BY <1>1 DEF FailBeforeCall, Ended, Results
  <1>2. ASSUME NEW f \in Requests, NEW how \in Results, Answered(f, how)
        PROVE  Ended(f, how)
    BY <1>2 DEF Answered, Ended
  <1>3. ASSUME NEW f \in Requests, TooManyRequests(f)
        PROVE  Sleeps(f) \/ \E how \in Results : Ended(f, how)
    BY <1>3 DEF TooManyRequests, Sleeps, Ended, Results
  <1>4. ASSUME NEW f \in Requests, Advance(f) PROVE StepOf(f)
    BY <1>1, <1>2, <1>3, <1>4 DEF Advance, StepOf
  <1> QED BY <1>4 DEF Next, StepOf

LEMMA KeyTyped ==
    ASSUME NEW r \in Requests
    PROVE  /\ Key(r) \in Keys
           /\ Ttl[PathOf[r]] \in Nat
           /\ TtlOf(r) \in Nat
           /\ TtlOf(r) > 0 => CanShare(r) /\ TtlOf(r) = Ttl[PathOf[r]]
  BY BrokerAssumption DEF Key, Keys, Paths, Credentials, TtlOf
-----------------------------------------------------------------------------
\* The cache as a sequence.
LEMMA WithoutMembers ==
    ASSUME cache \in Seq(Entry), NEW k
    PROVE  /\ Without(k) \in Seq(Entry)
           /\ Len(Without(k)) <= Len(cache)
           /\ ToSet(Without(k)) \subseteq ToSet(cache)
           /\ OneAKey(cache) =>
                OneAKey(Without(k)) /\ \A e \in ToSet(Without(k)) : e.key # k
           /\ EntryOf(k) # {} => Len(Without(k)) = Len(cache) - 1
  <1> DEFINE I == {i \in 1 .. Len(cache) : cache[i].key = k}
             t == Without(k)
  <1>0. Len(cache) \in Nat /\ DOMAIN cache = 1 .. Len(cache)
    BY LenProperties
  <1>1. CASE I = {}
    <2>1. Without(k) = cache
      BY <1>1, Zenon DEF Without, RemoveFirstMatch
    <2>2. \A e \in ToSet(cache) : e.key # k
      BY <1>1, Members
    <2>3. EntryOf(k) = {}
      BY <2>2 DEF EntryOf
    <2> QED BY <2>1, <2>2, <2>3, <1>0
  <1>2. CASE I # {}
    <2>1. t = RemoveAt(cache, Min(I))
      BY <1>2, Zenon DEF Without, RemoveFirstMatch, SelectInSeq
    <2>2. Min(I) \in I
      <3>1. I \subseteq Nat
        OBVIOUS
      <3> QED BY <3>1, <1>2, MinOfNats, Zenon
    <2>3. PICK i \in 1 .. Len(cache) : cache[i].key = k /\ t = RemoveAt(cache, i)
      BY <2>1, <2>2
    <2> HIDE DEF t, I
    <2>4. /\ t \in Seq(Entry) /\ Len(t) = Len(cache) - 1
          /\ \A j \in 1 .. Len(t) : t[j] = IF j < i THEN cache[j] ELSE cache[j + 1]
          /\ ToSet(t) \subseteq ToSet(cache)
      <3> DEFINE u == RemoveAt(cache, i)
      <3>1. /\ u \in Seq(Entry) /\ Len(u) = Len(cache) - 1
            /\ ToSet(cache) = {cache[i]} \cup ToSet(u)
            /\ \A j \in 1 .. Len(cache) - 1 :
                u[j] = IF j < i THEN cache[j] ELSE cache[j + 1]
        BY RemoveAtMembers
      <3>2. t = u
        BY <2>3
      <3> HIDE DEF u
      <3> QED BY <3>1, <3>2
    <2>5. ASSUME OneAKey(cache)
          PROVE  OneAKey(t) /\ \A e \in ToSet(t) : e.key # k
      <3>1. \A j, m \in 1 .. Len(cache) : cache[j].key = cache[m].key => j = m
        BY <2>5, <1>0 DEF OneAKey
      <3>2. DOMAIN t = 1 .. Len(t)
        BY <2>4, LenProperties
      <3>3. \A j, m \in 1 .. Len(t) : t[j].key = t[m].key => j = m
        <4> DEFINE at(x) == IF x < i THEN x ELSE x + 1
        <4>1. \A x \in 1 .. Len(t) : at(x) \in 1 .. Len(cache) /\ t[x] = cache[at(x)]
          BY <1>0, <2>4
        <4>2. \A x, y \in 1 .. Len(t) : at(x) = at(y) => x = y
          BY <1>0, <2>4
        <4> HIDE DEF at
        <4> QED BY <3>1, <4>1, <4>2
      <3>4. \A j \in 1 .. Len(t) : t[j].key # k
        BY <1>0, <2>3, <2>4, <3>1
      <3>5. \A e \in ToSet(t) : e.key # k
        BY <2>4, <3>4, Members
      <3> QED BY <3>2, <3>3, <3>5 DEF OneAKey
    <2> QED BY <2>4, <2>5, <1>0 DEF t
  <1> QED BY <1>1, <1>2

LEMMA AppendKey ==
    ASSUME NEW s \in Seq(Entry), NEW e \in Entry,
           OneAKey(s), \A x \in ToSet(s) : x.key # e.key
    PROVE  OneAKey(Append(s, e))
  <1> DEFINE t == Append(s, e)
  <1>1. /\ t \in Seq(Entry) /\ Len(t) = Len(s) + 1 /\ t[Len(s) + 1] = e
        /\ \A i \in 1 .. Len(s) : t[i] = s[i]
        /\ Len(s) \in Nat
    BY AppendProperties, LenProperties
  <1>2. DOMAIN s = 1 .. Len(s) /\ DOMAIN t = 1 .. Len(t)
    BY <1>1, LenProperties
  <1>3. \A i \in 1 .. Len(s) : s[i].key # e.key
    BY Members
  <1> HIDE DEF t
  <1>4. \A i, j \in 1 .. Len(s) + 1 : t[i].key = t[j].key => i = j
    <2> TAKE i, j \in 1 .. Len(s) + 1
    <2>1. CASE i \in 1 .. Len(s) /\ j \in 1 .. Len(s)
      BY <2>1, <1>1, <1>2 DEF OneAKey
    <2>2. CASE i = Len(s) + 1 /\ j \in 1 .. Len(s)
      BY <2>2, <1>1, <1>3
    <2>3. CASE j = Len(s) + 1 /\ i \in 1 .. Len(s)
      BY <2>3, <1>1, <1>3
    <2> QED BY <1>1, <2>1, <2>2, <2>3
  <1>5. OneAKey(t)
    BY <1>1, <1>2, <1>4 DEF OneAKey
  <1> QED BY <1>5 DEF t

\* _store_cache keeps the bound and one entry a key, and the new entry takes
\* the place of the one of its key.
LEMMA StoreMembers ==
    ASSUME CacheShape, NEW entry \in Entry, StoreCache(entry)
    PROVE  /\ CacheShape'
           /\ \A e \in ToSet(cache') :
                e = entry \/ (e \in ToSet(cache) /\ e.key # entry.key)
  <1> DEFINE w == Without(entry.key)
             s == Append(w, entry)
             k == Len(s) - MaxEntries
             t == SubSeq(s, k + 1, Len(s))
  <1>0. MaxEntries \in Nat
    BY BrokerAssumption
  <1>1. /\ w \in Seq(Entry) /\ OneAKey(w) /\ ToSet(w) \subseteq ToSet(cache)
        /\ \A e \in ToSet(w) : e.key # entry.key
    BY WithoutMembers DEF CacheShape
  <1>2. cache' = IF k > 0 THEN t ELSE s
    BY DEF StoreCache
  <1> HIDE DEF w
  <1>3. /\ s \in Seq(Entry) /\ OneAKey(s) /\ Len(s) \in Nat /\ Len(s) = Len(w) + 1
        /\ ToSet(s) = ToSet(w) \cup {entry} /\ Len(w) \in Nat
    BY <1>1, AppendKey, AppendMembers, LenProperties
  <1> HIDE DEF s
  <1>4. CASE k <= 0
    <2>1. cache' = s
      BY <1>0, <1>2, <1>3, <1>4
    <2> QED BY <1>0, <1>1, <1>3, <1>4, <2>1 DEF CacheShape, Entry
  <1>5. CASE k > 0
    <2>1. k \in 1 .. Len(s)
      BY <1>0, <1>3, <1>5
    <2>2. cache' = t
      BY <1>2, <1>5
    <2> HIDE DEF k
    <2>3. /\ t \in Seq(Entry) /\ Len(t) = Len(s) - k /\ ToSet(t) \subseteq ToSet(s)
          /\ \A j \in 1 .. Len(t) : t[j] = s[j + k]
      BY <2>1, <1>3, DropMembers
    <2>4. DOMAIN t = 1 .. Len(t) /\ DOMAIN s = 1 .. Len(s)
      BY <1>3, <2>3, LenProperties
    <2> HIDE DEF t
    <2>5. /\ \A j \in 1 .. Len(t) : j + k \in 1 .. Len(s)
          /\ \A i, j \in 1 .. Len(t) : i + k = j + k => i = j
      BY <1>3, <2>1, <2>3
    <2>6. OneAKey(t)
      <3>1. \A i, j \in 1 .. Len(s) : s[i].key = s[j].key => i = j
        BY <1>3, <2>4 DEF OneAKey
      <3>2. \A i, j \in 1 .. Len(t) : t[i].key = t[j].key => i = j
        BY <2>3, <2>5, <3>1
      <3> QED BY <2>4, <3>2 DEF OneAKey
    <2>7. Len(t) = MaxEntries
      BY <1>0, <1>3, <2>3 DEF k
    <2> QED BY <1>0, <1>1, <1>3, <2>2, <2>3, <2>6, <2>7 DEF CacheShape, Entry
  <1> QED BY <1>0, <1>3, <1>4, <1>5

\* A hit makes its entry the most recent, and changes nothing else.
LEMMA RecentMembers ==
    ASSUME CacheShape, NEW k, NEW entry \in EntryOf(k),
           cache' = Append(Without(k), entry)
    PROVE  CacheShape' /\ ToSet(cache') \subseteq ToSet(cache)
  <1> DEFINE w == Without(k)
  <1>1. entry \in ToSet(cache) /\ entry.key = k
    BY DEF EntryOf
  <1>2. entry \in Entry
    BY <1>1, Members DEF CacheShape
  <1>3. /\ w \in Seq(Entry) /\ OneAKey(w) /\ ToSet(w) \subseteq ToSet(cache)
        /\ \A e \in ToSet(w) : e.key # k
        /\ Len(w) = Len(cache) - 1
    BY WithoutMembers DEF CacheShape
  <1>4. Len(cache) \in Nat
    BY LenProperties DEF CacheShape
  <1> HIDE DEF w
  <1>5. /\ Append(w, entry) \in Seq(Entry) /\ OneAKey(Append(w, entry))
        /\ Len(Append(w, entry)) = Len(w) + 1
        /\ ToSet(Append(w, entry)) = ToSet(w) \cup {entry}
    BY <1>1, <1>2, <1>3, AppendKey, AppendMembers
  <1>6. cache' = Append(w, entry)
    BY DEF w
  <1> QED BY <1>1, <1>3, <1>4, <1>5, <1>6 DEF CacheShape, Entry
-----------------------------------------------------------------------------
\* What a step does to the cache: it drops entries or moves one, or a fetch
\* that ends well puts its own there.
Keeps == CacheShape' /\ ToSet(cache') \subseteq ToSet(cache)
EntryFor(f) == [key |-> Key(f), from |-> f, expiresAt |-> now + TtlOf(f)]

LEMMA EndCache ==
    ASSUME CacheShape, now \in Nat, NEW f \in Requests, NEW how, Ended(f, how)
    PROVE  /\ CacheShape'
           /\ how = "ok" /\ TtlOf(f) > 0 => \A e \in ToSet(cache') :
                e = EntryFor(f) \/ (e \in ToSet(cache) /\ e.key # Key(f))
           /\ ~ (how = "ok" /\ TtlOf(f) > 0) => cache' = cache
  <1>1. CASE how = "ok" /\ TtlOf(f) > 0
    <2>1. EntryFor(f) \in Entry /\ EntryFor(f).key = Key(f)
      BY KeyTyped DEF EntryFor, Entry
    <2>2. StoreCache(EntryFor(f))
      BY <1>1 DEF Ended, End, EntryFor
    <2> QED BY <1>1, <2>1, <2>2, StoreMembers
  <1>2. CASE ~ (how = "ok" /\ TtlOf(f) > 0)
    <2>1. cache' = cache
      BY <1>2 DEF Ended, End
    <2> QED BY <1>2, <2>1 DEF CacheShape, Entry
  <1> QED BY <1>1, <1>2

LEMMA MissedKeeps ==
    ASSUME CacheShape, NEW r \in Requests, Missed(r)
    PROVE  Keeps
  <1>1. CASE cache' = cache
    BY <1>1 DEF CacheShape, Entry, Keeps
  <1>2. CASE cache' = Without(Key(r))
    <2>1. /\ Without(Key(r)) \in Seq(Entry) /\ OneAKey(Without(Key(r)))
          /\ ToSet(Without(Key(r))) \subseteq ToSet(cache)
          /\ Len(Without(Key(r))) <= Len(cache)
      BY WithoutMembers DEF CacheShape
    <2>2. Len(cache) \in Nat /\ Len(Without(Key(r))) \in Nat
      BY <2>1, LenProperties DEF CacheShape
    <2> QED BY <1>2, <2>1, <2>2, BrokerAssumption DEF CacheShape, Entry, Keeps
  <1> QED BY <1>1, <1>2 DEF Missed

LEMMA OthersKeep ==
    ASSUME CacheShape, NEW r \in Requests,
           StepOf(r), ~ \E how \in Results : Ended(r, how)
    PROVE  Keeps
  <1>1. CASE cache' = cache
    BY <1>1 DEF CacheShape, Entry, Keeps
  <1>2. CASE ServeCached(r)
    <2>1. PICK entry \in Hits(r) : cache' = Append(Without(Key(r)), entry)
      BY <1>2 DEF ServeCached
    <2>2. entry \in EntryOf(Key(r))
      BY DEF Hits
    <2> QED BY <2>1, <2>2, RecentMembers DEF Keeps
  <1>3. CASE FetchAlone(r) \/ Lead(r) \/ Coalesce(r)
    BY <1>3, MissedKeeps DEF FetchAlone, Lead, Coalesce
  <1> QED
    BY <1>1, <1>2, <1>3
       DEF StepOf, Refuse, CallUpstream, Sleeps, Retry, Deliver, Disconnect

LEMMA ShapeStep ==
    ASSUME CacheShape, now \in Nat, [Next]_vars
    PROVE  CacheShape'
  <1>1. ASSUME NEW r \in Requests, StepOf(r) PROVE CacheShape'
    BY <1>1, OthersKeep, EndCache DEF Keeps
  <1>2. CASE cache' = cache
    BY <1>2 DEF CacheShape, Entry
  <1> QED BY <1>1, <1>2, StepCases DEF Close, Tick, vars
-----------------------------------------------------------------------------
LEMMA HitTyped ==
    ASSUME cache \in Seq(Entry), NEW r \in Requests, NEW entry \in Hits(r)
    PROVE  /\ entry \in Entry /\ entry \in ToSet(cache)
           /\ entry.key = Key(r) /\ TtlOf(r) > 0 /\ entry.expiresAt > now
  BY Members DEF Hits, EntryOf

LEMMA TypeStep ==
    ASSUME TypeOK, CacheShape, RetryLeft, [Next]_vars
    PROVE  TypeOK'
  <1>0. now \in Nat /\ MaxTime \in Nat /\ MaxRetries \in Nat
    BY BrokerAssumption DEF TypeOK
  <1>1. cache' \in Seq(Entry)
    BY <1>0, ShapeStep DEF CacheShape, Entry
  <1>2. now' \in 0 .. MaxTime /\ now <= now' /\ now' \in Nat
    <2>1. now' = now \/ Tick
      BY StepCases DEF StepOf, Refuse, ServeCached, FetchAlone, Lead, Coalesce,
         Arrive, CallUpstream, Sleeps, Retry, Deliver, Disconnect, Ended, Close, vars
    <2> QED BY <1>0, <2>1 DEF TypeOK, Tick
  <1> DEFINE Rest ==
        /\ closing' \in BOOLEAN
        /\ inflight' \in [Keys -> Requests \cup {None}]
        /\ phase' \in [Requests -> Phases]
        /\ attempts' \in [Requests -> 0 .. MaxRetries + 1]
        /\ result' \in [Requests -> Results]
        /\ pc' \in [Requests -> {"idle", "waiting", "answered", "left"}]
        /\ source' \in [Requests -> Requests \cup {None}]
        /\ askedAt' \in [Requests -> 0 .. now]
        /\ fetchedAt' \in [Requests -> 0 .. now]
  <1>3. ASSUME NEW r \in Requests, Refuse(r) PROVE Rest
    BY <1>3 DEF Refuse, TypeOK, fetches
  <1>4. ASSUME NEW r \in Requests, ServeCached(r) PROVE Rest
    <2>1. PICK entry \in Hits(r) : Arrive(r, "answered", entry.from)
      BY <1>4 DEF ServeCached
    <2>2. entry.from \in Requests
      BY HitTyped DEF TypeOK, Entry
    <2> QED BY <1>0, <1>4, <2>1, <2>2, SMTT(30) DEF ServeCached, Arrive, TypeOK, fetches
  <1>5. ASSUME NEW r \in Requests, FetchAlone(r) PROVE Rest
    BY <1>0, <1>5 DEF FetchAlone, Arrive, StartFetch, TypeOK, Phases
  <1>6. ASSUME NEW r \in Requests, Lead(r) PROVE Rest
    BY <1>0, <1>6, KeyTyped DEF Lead, Arrive, StartFetch, TypeOK, Phases
  <1>7. ASSUME NEW r \in Requests, Coalesce(r) PROVE Rest
    BY <1>0, <1>7, KeyTyped, SMTT(30) DEF Coalesce, Arrive, TypeOK, fetches
  <1>8. ASSUME NEW r \in Requests, CallUpstream(r) PROVE Rest
    BY <1>0, <1>8 DEF CallUpstream, TypeOK, RetryLeft, Phases, requests
  <1>9. ASSUME NEW r \in Requests, Sleeps(r) PROVE Rest
    BY <1>9 DEF Sleeps, TypeOK, Phases, requests
  <1>10. ASSUME NEW r \in Requests, Retry(r) PROVE Rest
    BY <1>10 DEF Retry, TypeOK, Phases, requests
  <1>11. ASSUME NEW r \in Requests, Deliver(r) PROVE Rest
    BY <1>11 DEF Deliver, TypeOK, fetches
  <1>12. ASSUME NEW r \in Requests, Disconnect(r) PROVE Rest
    BY <1>0, <1>12 DEF Disconnect, TypeOK, Phases
  <1>13. ASSUME NEW r \in Requests, NEW how \in Results, Ended(r, how) PROVE Rest
    BY <1>0, <1>13, KeyTyped DEF Ended, End, TypeOK, Phases, requests
  <1>14. ASSUME Close PROVE Rest
    BY <1>14 DEF Close, TypeOK, fetches, requests
  <1>15. ASSUME Tick \/ UNCHANGED vars PROVE Rest
    BY <1>15 DEF Tick, vars, TypeOK, fetches, requests
  <1> HIDE DEF Rest
  <1>16. Rest
    BY <1>3, <1>4, <1>5, <1>6, <1>7, <1>8, <1>9, <1>10, <1>11, <1>12, <1>13,
       <1>14, <1>15, StepCases DEF StepOf
  <1>17. [Requests -> 0 .. now] \subseteq [Requests -> 0 .. now']
    BY <1>0, <1>2
  <1> QED BY <1>1, <1>2, <1>16, <1>17 DEF TypeOK, Entry, Rest
-----------------------------------------------------------------------------
LEMMA NotBegunStep ==
    ASSUME TypeOK, NotBegun, [Next]_vars
    PROVE  NotBegun'
  <1> SUFFICES ASSUME NEW s \in Requests
               PROVE  /\ pc'[s] = "idle" => phase'[s] = "none" /\ source'[s] = None
                      /\ phase'[s] = "none" => attempts'[s] = 0
    BY DEF NotBegun
  <1>0. /\ pc[s] = "idle" => phase[s] = "none" /\ source[s] = None
        /\ phase[s] = "none" => attempts[s] = 0
    BY DEF NotBegun
  <1> DEFINE Kept == /\ pc'[s] = "idle" => phase'[s] = "none" /\ source'[s] = None
                     /\ phase'[s] = "none" => attempts'[s] = 0
  <1>1. ASSUME NEW r \in Requests, StepOf(r), ~ \E how \in Results : Ended(r, how)
        PROVE  Kept
    BY <1>0, <1>1
       DEF TypeOK, fetches, requests, StepOf, Refuse, ServeCached, FetchAlone, Lead,
           Coalesce, Arrive, StartFetch, CallUpstream, Sleeps, Retry, Deliver, Disconnect
  <1>2. ASSUME NEW r \in Requests, NEW how \in Results, Ended(r, how) PROVE Kept
    <2>1. pc[r] # "idle"
      BY <1>2 DEF Ended, NotBegun
    <2> QED BY <1>0, <1>2, <2>1 DEF Ended, End, TypeOK, requests
  <1>3. ASSUME Close \/ Tick \/ UNCHANGED vars PROVE Kept
    BY <1>0, <1>3 DEF Close, Tick, vars, fetches, requests
  <1> QED BY <1>1, <1>2, <1>3, StepCases DEF StepOf

LEMMA RetryStep ==
    ASSUME TypeOK, NotBegun, RetryLeft, [Next]_vars
    PROVE  RetryLeft'
  <1> SUFFICES ASSUME NEW f \in Requests, phase'[f] \in {"queued", "sleeping"}
               PROVE  attempts'[f] <= MaxRetries
    BY DEF RetryLeft
  <1>0. /\ phase[f] \in {"queued", "sleeping"} => attempts[f] <= MaxRetries
        /\ MaxRetries \in Nat
    BY BrokerAssumption DEF RetryLeft
  <1>1. ASSUME NEW r \in Requests, FetchAlone(r) \/ Lead(r)
        PROVE  attempts'[f] <= MaxRetries
    <2>1. attempts[r] = 0 /\ attempts' = attempts
      BY <1>1 DEF FetchAlone, Lead, Arrive, StartFetch, NotBegun
    <2>2. CASE f = r
      BY <1>0, <2>1, <2>2
    <2>3. CASE f # r
      BY <1>0, <1>1, <2>1, <2>3 DEF FetchAlone, Lead, StartFetch, TypeOK
    <2> QED BY <2>2, <2>3
  <1>2. ASSUME NEW r \in Requests,
               CallUpstream(r) \/ Sleeps(r) \/ Retry(r) \/ Disconnect(r)
        PROVE  attempts'[f] <= MaxRetries
    BY <1>0, <1>2 DEF CallUpstream, Sleeps, Retry, Disconnect, TypeOK, requests
  <1>3. ASSUME NEW r \in Requests, NEW how \in Results, Ended(r, how)
        PROVE  attempts'[f] <= MaxRetries
    BY <1>0, <1>3 DEF Ended, End, TypeOK
  <1>4. ASSUME UNCHANGED fetches PROVE attempts'[f] <= MaxRetries
    BY <1>0, <1>4 DEF fetches
  <1> QED
    BY <1>1, <1>2, <1>3, <1>4, StepCases
       DEF StepOf, Refuse, ServeCached, Coalesce, Deliver, Close, Tick, vars, fetches

\* A leader is put in _inflight and its fetch begins in one step; its end and its
\* leaving _inflight are one step; and nothing else ends a shared fetch.
LEMMA FlightStep ==
    ASSUME TypeOK, NotBegun, SingleFlight, [Next]_vars
    PROVE  SingleFlight'
  <1> SUFFICES ASSUME NEW k \in Keys, NEW f \in Requests
               PROVE  inflight'[k] = f <=> f \in Live' /\ CanShare(f) /\ Key(f) = k
    BY DEF SingleFlight, CanShare, Key
  <1>0. /\ inflight[k] = f <=> f \in Live /\ CanShare(f) /\ Key(f) = k
        /\ f # None
    BY BrokerAssumption DEF SingleFlight
  <1> DEFINE Kept == inflight'[k] = f <=> f \in Live' /\ CanShare(f) /\ Key(f) = k
  <1>1. ASSUME inflight' = inflight, f \in Live' <=> f \in Live PROVE Kept
    BY <1>0, <1>1
  <1>2. ASSUME NEW r \in Requests, Refuse(r) \/ ServeCached(r) \/ Coalesce(r) \/ Deliver(r)
        PROVE  Kept
    BY <1>0, <1>2 DEF Refuse, ServeCached, Coalesce, Deliver, fetches, Live
  <1>3. ASSUME NEW r \in Requests, FetchAlone(r) PROVE Kept
    <2>1. inflight' = inflight /\ ~ CanShare(r)
      BY <1>3 DEF FetchAlone
    <2>2. f # r => (f \in Live' <=> f \in Live)
      BY <1>3 DEF FetchAlone, StartFetch, TypeOK, Live
    <2> QED BY <1>0, <2>1, <2>2
  <1>4. ASSUME NEW r \in Requests, Lead(r) PROVE Kept
    <2>1. r \notin Live /\ r \in Live' /\ CanShare(r) /\ inflight[Key(r)] = None
      BY <1>4 DEF Lead, Arrive, StartFetch, NotBegun, Live, TypeOK
    <2>2. f # r => (f \in Live' <=> f \in Live)
      BY <1>4 DEF Lead, StartFetch, TypeOK, Live
    <2>3. /\ inflight'[Key(r)] = r
          /\ k # Key(r) => inflight'[k] = inflight[k]
      BY <1>4, KeyTyped DEF Lead, TypeOK
    <2> QED BY <1>0, <2>1, <2>2, <2>3
  <1>5. ASSUME NEW r \in Requests, CallUpstream(r) \/ Sleeps(r) \/ Retry(r) PROVE Kept
    BY <1>0, <1>5 DEF CallUpstream, Sleeps, Retry, TypeOK, Live
  <1>6. ASSUME NEW r \in Requests, Disconnect(r) PROVE Kept
    <2>1. inflight' = inflight
      BY <1>6 DEF Disconnect
    <2>2. CanShare(f) \/ f # r => (f \in Live' <=> f \in Live)
      BY <1>6 DEF Disconnect, TypeOK, Live
    <2>3. inflight[k] = f => CanShare(f)
      BY <1>0
    <2> QED BY <1>0, <2>1, <2>2, <2>3
  <1>7. ASSUME NEW r \in Requests, NEW how \in Results, Ended(r, how) PROVE Kept
    <2>1. r \in Live /\ r \notin Live'
      BY <1>7 DEF Ended, End, TypeOK, Live
    <2>2. f # r => (f \in Live' <=> f \in Live)
      BY <1>7 DEF Ended, End, TypeOK, Live
    <2>3. /\ k # Key(r) => inflight'[k] = inflight[k]
          /\ inflight[Key(r)] = r => inflight'[Key(r)] = None
          /\ inflight[Key(r)] # r => inflight'[Key(r)] = inflight[Key(r)]
      BY <1>7, KeyTyped DEF Ended, End, TypeOK
    <2> QED BY <1>0, <2>1, <2>2, <2>3
  <1>8. ASSUME Close \/ Tick \/ UNCHANGED vars PROVE Kept
    BY <1>0, <1>8 DEF Close, Tick, vars, fetches, Live
  <1> QED BY <1>2, <1>3, <1>4, <1>5, <1>6, <1>7, <1>8, StepCases DEF StepOf
-----------------------------------------------------------------------------
\* What is fixed about a fetch once it is over.
LEMMA OverKept ==
    ASSUME TypeOK, NotBegun, [Next]_vars, NEW f \in Requests, phase[f] = "over"
    PROVE  phase'[f] = "over" /\ result'[f] = result[f] /\ fetchedAt'[f] = fetchedAt[f]
  <1> DEFINE Kept ==
        phase'[f] = "over" /\ result'[f] = result[f] /\ fetchedAt'[f] = fetchedAt[f]
  <1>1. ASSUME NEW r \in Requests, FetchAlone(r) \/ Lead(r) PROVE Kept
    <2>1. f # r
      BY <1>1 DEF FetchAlone, Lead, Arrive, NotBegun
    <2> QED BY <1>1, <2>1 DEF FetchAlone, Lead, StartFetch, TypeOK
  <1>2. ASSUME NEW r \in Requests, StepOf(r), ~ (FetchAlone(r) \/ Lead(r)) PROVE Kept
    BY <1>2 DEF StepOf, Refuse, ServeCached, Coalesce, CallUpstream, Sleeps, Retry,
                Deliver, Disconnect, Ended, End, TypeOK, fetches, Live
  <1>3. ASSUME Close \/ Tick \/ UNCHANGED vars PROVE Kept
    BY <1>3 DEF Close, Tick, vars, fetches
  <1> QED BY <1>1, <1>2, <1>3, StepCases

\* Only the end of a fetch changes how one ended.
LEMMA ResultKept ==
    ASSUME NEW r \in Requests, StepOf(r), ~ \E how \in Results : Ended(r, how)
    PROVE  result' = result /\ fetchedAt' = fetchedAt
  BY DEF StepOf, Refuse, ServeCached, FetchAlone, Lead, Coalesce, StartFetch,
         CallUpstream, Sleeps, Retry, Deliver, Disconnect, fetches

LEMMA EntriesStep ==
    ASSUME TypeOK, CacheShape, NotBegun, EntriesSound, [Next]_vars
    PROVE  EntriesSound'
  <1> DEFINE Good(e) ==
        /\ e.key = Key(e.from)
        /\ TtlOf(e.from) > 0
        /\ phase'[e.from] = "over"
        /\ result'[e.from] = "ok"
        /\ e.expiresAt = fetchedAt'[e.from] + Ttl[PathOf[e.from]]
        /\ \A f \in Requests : result'[f] = "ok" /\ CanShare(f) /\ Key(f) = e.key =>
            fetchedAt'[f] <= fetchedAt'[e.from]
  <1> SUFFICES ASSUME NEW e \in ToSet(cache') PROVE Good(e)
    BY DEF EntriesSound, EntrySound, Key, TtlOf, CanShare
  <1>0. ToSet(cache) \subseteq Entry
    BY Members DEF TypeOK
  <1>1. ASSUME e \in ToSet(cache),
               \A f \in Requests : CanShare(f) /\ Key(f) = e.key /\ result'[f] = "ok" =>
                    result[f] = "ok" /\ fetchedAt'[f] = fetchedAt[f]
        PROVE  Good(e)
    <2>1. EntrySound(e) /\ e.from \in Requests
      BY <1>0, <1>1 DEF EntriesSound, Entry
    <2>2. /\ phase'[e.from] = "over" /\ result'[e.from] = result[e.from]
          /\ fetchedAt'[e.from] = fetchedAt[e.from]
      BY <2>1, OverKept DEF EntrySound
    <2> QED BY <1>1, <2>1, <2>2 DEF EntrySound
  <1>2. ASSUME NEW r \in Requests, StepOf(r), ~ \E how \in Results : Ended(r, how)
        PROVE  Good(e)
    BY <1>1, <1>2, OthersKeep, ResultKept DEF Keeps
  <1>3. ASSUME NEW r \in Requests, NEW how \in Results, Ended(r, how)
        PROVE  Good(e)
    <2>1. /\ phase'[r] = "over" /\ result'[r] = how /\ fetchedAt'[r] = now
          /\ \A f \in Requests : f # r =>
                result'[f] = result[f] /\ fetchedAt'[f] = fetchedAt[f]
      BY <1>3 DEF Ended, End, TypeOK
    <2>2. now \in Nat
      BY BrokerAssumption DEF TypeOK
    <2>3. CASE how = "ok" /\ TtlOf(r) > 0
      <3>1. e = EntryFor(r) \/ (e \in ToSet(cache) /\ e.key # Key(r))
        BY <1>3, <2>2, <2>3, EndCache
      <3>2. CASE e = EntryFor(r)
        <4>1. e.from = r /\ e.key = Key(r) /\ e.expiresAt = now + Ttl[PathOf[r]]
          BY <2>3, <3>2, KeyTyped DEF EntryFor
        <4>2. \A f \in Requests : fetchedAt'[f] <= now
          <5> TAKE f \in Requests
          <5>1. fetchedAt[f] \in 0 .. now
            BY DEF TypeOK
          <5> QED BY <2>1, <2>2, <5>1
        <4> QED BY <2>1, <2>3, <4>1, <4>2
      <3>3. CASE e \in ToSet(cache) /\ e.key # Key(r)
        BY <1>1, <2>1, <3>3
      <3> QED BY <3>1, <3>2, <3>3
    <2>4. CASE ~ (how = "ok" /\ TtlOf(r) > 0)
      <3>1. e \in ToSet(cache)
        BY <1>3, <2>2, <2>4, EndCache
      <3>2. EntrySound(e) /\ e.from \in Requests
        BY <1>0, <3>1 DEF EntriesSound, Entry
      <3>3. ASSUME CanShare(r), Key(r) = e.key PROVE how # "ok"
        <4>1. PathOf[r] = PathOf[e.from]
          BY <3>2, <3>3 DEF EntrySound, Key
        <4>2. TtlOf(r) > 0
          BY <3>2, <3>3, <4>1, KeyTyped DEF EntrySound, TtlOf
        <4> QED BY <2>4, <4>2
      <3> QED BY <1>1, <2>1, <3>1, <3>3
    <2> QED BY <2>3, <2>4
  <1>4. ASSUME Close \/ Tick \/ UNCHANGED vars PROVE Good(e)
    BY <1>1, <1>4 DEF Close, Tick, vars, fetches
  <1> QED BY <1>2, <1>3, <1>4, StepCases
-----------------------------------------------------------------------------
\* The answer a request waits for, or has got, was fetched for its key, and is
\* shared only if both may share.
Related(r, f) ==
    /\ PathOf[f] = PathOf[r]
    /\ CredentialOf[f] = CredentialOf[r]
    /\ CredentialOf[r] = Public \/ {r, f} \subseteq Named \/ f = r

LEMMA SameKey ==
    ASSUME NEW r \in Requests, NEW f \in Requests,
           Key(f) = Key(r), CanShare(f), CanShare(r)
    PROVE  Related(r, f)
  BY DEF Related, Key, CanShare

LEMMA ApartStep ==
    ASSUME TypeOK, CacheShape, SingleFlight, EntriesSound, KeptApart, [Next]_vars
    PROVE  KeptApart'
  <1> SUFFICES ASSUME NEW s \in Requests, source'[s] # None
               PROVE  Related(s, source'[s])
    BY DEF KeptApart, Related
  <1>0. source[s] # None => Related(s, source[s])
    BY DEF KeptApart, Related
  <1>1. ASSUME NEW r \in Requests, ServeCached(r) PROVE Related(s, source'[s])
    <2>1. PICK entry \in Hits(r) : Arrive(r, "answered", entry.from)
      BY <1>1 DEF ServeCached
    <2>2. entry \in ToSet(cache) /\ entry.key = Key(r) /\ TtlOf(r) > 0 /\ entry.from \in Requests
      BY HitTyped DEF TypeOK, Entry
    <2>3. Key(entry.from) = Key(r) /\ CanShare(entry.from) /\ CanShare(r)
      BY <2>2, KeyTyped DEF EntriesSound, EntrySound
    <2>4. Related(r, entry.from)
      BY <2>2, <2>3, SameKey
    <2> QED BY <1>0, <2>1, <2>4 DEF Arrive, TypeOK
  <1>2. ASSUME NEW r \in Requests, FetchAlone(r) \/ Lead(r) PROVE Related(s, source'[s])
    BY <1>0, <1>2 DEF FetchAlone, Lead, Arrive, TypeOK, Related
  <1>3. ASSUME NEW r \in Requests, Coalesce(r) PROVE Related(s, source'[s])
    <2>1. inflight[Key(r)] \in Requests /\ CanShare(r)
      BY <1>3, KeyTyped DEF Coalesce, TypeOK
    <2>2. CanShare(inflight[Key(r)]) /\ Key(inflight[Key(r)]) = Key(r)
      BY <2>1, KeyTyped DEF SingleFlight
    <2>3. Related(r, inflight[Key(r)])
      BY <2>1, <2>2, SameKey
    <2> QED BY <1>0, <1>3, <2>3 DEF Coalesce, Arrive, TypeOK
  <1>4. ASSUME NEW r \in Requests, Disconnect(r) PROVE Related(s, source'[s])
    BY <1>0, <1>4 DEF Disconnect, TypeOK
  <1>5. ASSUME source' = source PROVE Related(s, source'[s])
    BY <1>0, <1>5
  <1> QED
    BY <1>1, <1>2, <1>3, <1>4, <1>5, StepCases
       DEF StepOf, Refuse, CallUpstream, Sleeps, Retry, Deliver, Ended, Close, Tick,
           vars, requests
-----------------------------------------------------------------------------
LEMMA SourceStep ==
    ASSUME TypeOK, CacheShape, NotBegun, SingleFlight, EntriesSound, SourceFollowed,
           [Next]_vars
    PROVE  SourceFollowed'
  <1> DEFINE Followed(s) ==
        /\ pc'[s] = "waiting" =>
            /\ source'[s] \in Requests
            /\ phase'[source'[s]] = "over" => askedAt'[s] <= fetchedAt'[source'[s]]
        /\ pc'[s] = "answered" => source'[s] \in Requests /\ phase'[source'[s]] = "over"
  <1> SUFFICES ASSUME NEW s \in Requests PROVE Followed(s)
    BY DEF SourceFollowed
  <1>0. /\ pc[s] = "waiting" =>
            /\ source[s] \in Requests
            /\ phase[source[s]] = "over" => askedAt[s] <= fetchedAt[source[s]]
        /\ pc[s] = "answered" => source[s] \in Requests /\ phase[source[s]] = "over"
        /\ askedAt[s] \in 0 .. now /\ now \in Nat
    BY DEF SourceFollowed, TypeOK
  \* What the sources of others do not disturb.
  <1>1. ASSUME pc'[s] = pc[s], source'[s] = source[s], askedAt'[s] = askedAt[s],
               \A f \in Requests : phase'[f] = "over" /\ phase[f] # "over" =>
                    fetchedAt'[f] = now
        PROVE  Followed(s)
    <2>1. CASE pc[s] = "waiting"
      <3>1. source[s] \in Requests
        BY <1>0, <2>1
      <3>2. CASE phase[source[s]] = "over"
        BY <1>0, <1>1, <2>1, <3>1, <3>2, OverKept
      <3>3. CASE phase[source[s]] # "over"
        BY <1>0, <1>1, <2>1, <3>1, <3>3
      <3> QED BY <3>2, <3>3
    <2>2. CASE pc[s] = "answered"
      BY <1>0, <1>1, <2>2, OverKept
    <2> QED BY <1>1, <2>1, <2>2
  <1>2. ASSUME NEW r \in Requests, Refuse(r) \/ Disconnect(r) PROVE Followed(s)
    <2>1. CASE s = r
      BY <1>2, <2>1 DEF Refuse, Disconnect, TypeOK
    <2>2. CASE s # r
      BY <1>1, <1>2, <2>2 DEF Refuse, Disconnect, TypeOK, fetches
    <2> QED BY <2>1, <2>2
  <1>3. ASSUME NEW r \in Requests, ServeCached(r) PROVE Followed(s)
    <2>1. PICK entry \in Hits(r) : Arrive(r, "answered", entry.from)
      BY <1>3 DEF ServeCached
    <2>2. entry.from \in Requests /\ phase[entry.from] = "over"
      BY HitTyped DEF TypeOK, Entry, EntriesSound, EntrySound
    <2>3. phase' = phase /\ fetchedAt' = fetchedAt
      BY <1>3 DEF ServeCached, fetches
    <2>4. CASE s = r
      BY <2>1, <2>2, <2>3, <2>4 DEF Arrive, TypeOK
    <2>5. CASE s # r
      BY <1>1, <2>1, <2>3, <2>5 DEF Arrive, TypeOK
    <2> QED BY <2>4, <2>5
  <1>4. ASSUME NEW r \in Requests, FetchAlone(r) \/ Lead(r) PROVE Followed(s)
    <2>1. /\ phase'[r] = "queued" /\ Arrive(r, "waiting", r)
          /\ \A f \in Requests : f # r => phase'[f] = phase[f]
      BY <1>4 DEF FetchAlone, Lead, StartFetch, TypeOK
    <2>2. CASE s = r
      BY <2>1, <2>2 DEF Arrive, TypeOK
    <2>3. CASE s # r
      BY <1>1, <2>1, <2>3 DEF Arrive, TypeOK
    <2> QED BY <2>2, <2>3
  <1>5. ASSUME NEW r \in Requests, Coalesce(r) PROVE Followed(s)
    <2>1. /\ phase' = phase /\ Arrive(r, "waiting", inflight[Key(r)])
          /\ inflight[Key(r)] \in Requests
      BY <1>5, KeyTyped DEF Coalesce, fetches, TypeOK
    <2>2. phase[inflight[Key(r)]] # "over"
      BY <2>1, KeyTyped DEF SingleFlight, Live
    <2>3. CASE s = r
      BY <2>1, <2>2, <2>3 DEF Arrive, TypeOK
    <2>4. CASE s # r
      BY <1>1, <2>1, <2>4 DEF Arrive, TypeOK
    <2> QED BY <2>3, <2>4
  <1>6. ASSUME NEW r \in Requests, CallUpstream(r) \/ Sleeps(r) \/ Retry(r)
        PROVE  Followed(s)
    BY <1>1, <1>6 DEF CallUpstream, Sleeps, Retry, TypeOK, requests
  <1>7. ASSUME NEW r \in Requests, NEW how \in Results, Ended(r, how) PROVE Followed(s)
    BY <1>1, <1>7 DEF Ended, End, TypeOK, requests
  <1>8. ASSUME NEW r \in Requests, Deliver(r) PROVE Followed(s)
    <2>1. /\ pc[r] = "waiting" /\ phase[source[r]] = "over"
          /\ phase' = phase /\ source' = source
      BY <1>8 DEF Deliver, fetches
    <2>2. CASE s = r
      BY <1>0, <1>8, <2>1, <2>2 DEF Deliver, TypeOK
    <2>3. CASE s # r
      BY <1>1, <1>8, <2>1, <2>3 DEF Deliver, TypeOK
    <2> QED BY <2>2, <2>3
  <1>9. ASSUME Close \/ Tick \/ UNCHANGED vars PROVE Followed(s)
    BY <1>1, <1>9 DEF Close, Tick, vars, fetches, requests
  <1> QED
    BY <1>2, <1>3, <1>4, <1>5, <1>6, <1>7, <1>8, <1>9, StepCases DEF StepOf

\* A request is answered in one of two ways: from the cache, by an entry that
\* has not expired, or by a fetch that ended after the request came.
LEMMA FreshStep ==
    ASSUME TypeOK, CacheShape, NotBegun, EntriesSound, SourceFollowed, Fresh, [Next]_vars
    PROVE  Fresh'
  <1> DEFINE Good(s) == fetchedAt'[source'[s]] < askedAt'[s] =>
        /\ askedAt'[s] < fetchedAt'[source'[s]] + Ttl[PathOf[s]]
        /\ result'[source'[s]] = "ok"
  <1> SUFFICES ASSUME NEW s \in Requests, pc'[s] = "answered" PROVE Good(s)
    BY DEF Fresh
  <1>1. ASSUME pc[s] = "answered", source'[s] = source[s], askedAt'[s] = askedAt[s]
        PROVE  Good(s)
    <2>1. source[s] \in Requests /\ phase[source[s]] = "over"
      BY <1>1 DEF SourceFollowed
    <2> QED BY <1>1, <2>1, OverKept DEF Fresh
  <1>2. ASSUME NEW r \in Requests, ServeCached(r) PROVE Good(s)
    <2>1. PICK entry \in Hits(r) : Arrive(r, "answered", entry.from)
      BY <1>2 DEF ServeCached
    <2>2. entry \in ToSet(cache) /\ entry.key = Key(r) /\ entry.expiresAt > now
      BY HitTyped DEF TypeOK
    <2>3. /\ entry.expiresAt = fetchedAt[entry.from] + Ttl[PathOf[entry.from]]
          /\ result[entry.from] = "ok" /\ PathOf[entry.from] = PathOf[r]
      BY <2>2 DEF EntriesSound, EntrySound, Key
    <2>4. fetchedAt' = fetchedAt /\ result' = result
      BY <1>2 DEF ServeCached, fetches
    <2>5. CASE s = r
      <3>1. source'[s] = entry.from /\ askedAt'[s] = now
        BY <2>1, <2>5 DEF Arrive, TypeOK
      <3>2. now < fetchedAt[entry.from] + Ttl[PathOf[s]]
        BY <2>2, <2>3, <2>5
      <3> QED BY <2>3, <2>4, <3>1, <3>2
    <2>6. CASE s # r
      BY <1>1, <2>1, <2>6 DEF Arrive, TypeOK
    <2> QED BY <2>5, <2>6
  <1>3. ASSUME NEW r \in Requests, Deliver(r) PROVE Good(s)
    <2>1. CASE s = r
      <3>1. /\ source[r] \in Requests /\ askedAt[r] <= fetchedAt[source[r]]
            /\ source' = source /\ askedAt' = askedAt /\ fetchedAt' = fetchedAt
        BY <1>3 DEF Deliver, SourceFollowed, fetches
      <3>2. askedAt[r] \in Nat /\ fetchedAt[source[r]] \in Nat
        BY <3>1 DEF TypeOK
      <3> QED BY <2>1, <3>1, <3>2
    <2>2. CASE s # r
      BY <1>1, <1>3, <2>2 DEF Deliver, TypeOK
    <2> QED BY <2>1, <2>2
  <1>4. ASSUME NEW r \in Requests,
               Refuse(r) \/ FetchAlone(r) \/ Lead(r) \/ Coalesce(r) \/ Disconnect(r)
        PROVE  Good(s)
    BY <1>1, <1>4
       DEF Refuse, FetchAlone, Lead, Coalesce, Arrive, Disconnect, TypeOK
  <1>5. ASSUME UNCHANGED requests PROVE Good(s)
    BY <1>1, <1>5 DEF requests
  <1> QED
    BY <1>2, <1>3, <1>4, <1>5, StepCases
       DEF StepOf, CallUpstream, Sleeps, Retry, Ended, Close, Tick, vars
-----------------------------------------------------------------------------
LEMMA InvInit == Init => Inv
  <1> SUFFICES ASSUME Init PROVE Inv
    OBVIOUS
  <1> USE BrokerAssumption
  <1>1. TypeOK
    <2>1. 0 \in 0 .. MaxTime /\ 0 \in 0 .. MaxRetries + 1 /\ 0 \in 0 .. 0
      OBVIOUS
    <2>2. <<>> \in Seq(Entry)
      OBVIOUS
    <2> QED BY <2>1, <2>2 DEF Init, TypeOK, Phases, Results
  <1>2. CacheShape
    BY EmptySeq DEF Init, CacheShape, OneAKey
  <1>3. ToSet(cache) = {}
    BY <1>1, Members DEF Init, TypeOK
  <1>4. NotBegun /\ RetryLeft /\ SourceFollowed /\ Fresh /\ KeptApart
    BY DEF Init, NotBegun, RetryLeft, SourceFollowed, Fresh, KeptApart
  <1>5. SingleFlight
    BY DEF Init, SingleFlight, Live
  <1> QED BY <1>1, <1>2, <1>3, <1>4, <1>5 DEF Inv, EntriesSound

LEMMA InvStep == Inv /\ [Next]_vars => Inv'
  <1> SUFFICES ASSUME Inv, [Next]_vars PROVE Inv'
    OBVIOUS
  <1>1. TypeOK' /\ CacheShape' /\ RetryLeft' /\ NotBegun'
    BY TypeStep, ShapeStep, RetryStep, NotBegunStep, SMTT(30) DEF Inv, TypeOK
  <1>2. SingleFlight' /\ EntriesSound' /\ KeptApart'
    BY FlightStep, EntriesStep, ApartStep DEF Inv
  <1>3. SourceFollowed' /\ Fresh'
    BY SourceStep, FreshStep DEF Inv
  <1> QED BY <1>1, <1>2, <1>3 DEF Inv

LEMMA InvAlways == Spec => []Inv
  BY InvInit, InvStep, PTL DEF Spec

\* Single flight (broker.py:373-390, 432-436): whoever arrives, disconnects or
\* is refused, equal shareable requests have one fetch, and _inflight names it
\* exactly as long as it lives.
THEOREM SingleFlightAlways == Spec => []SingleFlight
  <1>1. Inv => SingleFlight
    BY DEF Inv
  <1> QED BY <1>1, InvAlways, PTL

\* Nobody is answered with what other credentials, or an unnamed caller with the
\* same ones, fetched (broker.py:344-356): by the cache, by coalescing or after
\* the one who asked has left.
THEOREM KeptApartAlways == Spec => []KeptApart
  <1>1. Inv => KeptApart
    BY DEF Inv
  <1> QED BY <1>1, InvAlways, PTL

\* No stale answer (broker.py:357-366, 429-430): one that is older than the
\* request is a success that was within its time to live when the request came.
THEOREM FreshAlways == Spec => []Fresh
  <1>1. Inv => Fresh
    BY DEF Inv
  <1> QED BY <1>1, InvAlways, PTL

\* The cache stays within its bound, with one entry a key, each the latest
\* success of its key, under every order of hits, misses, expiries, evictions and
\* ends of fetches (broker.py:357-366, 438-446).
THEOREM CacheSoundAlways == Spec => []CacheSound
  <1>1. Inv => CacheSound
    BY DEF Inv, CacheShape, OneAKey, EntriesSound, EntrySound, CacheSound
  <1> QED BY <1>1, InvAlways, PTL

\* One upstream request and at most MaxRetries more (broker.py:575-621),
\* whatever comes between them.
THEOREM RetriesBoundedAlways == Spec => []RetriesBounded
  <1>1. Inv => RetriesBounded
    <2> SUFFICES ASSUME Inv, NEW f \in Requests PROVE attempts[f] <= MaxRetries + 1
      BY DEF RetriesBounded
    <2>1. attempts[f] \in 0 .. MaxRetries + 1 /\ MaxRetries \in Nat
      BY BrokerAssumption DEF Inv, TypeOK
    <2> QED BY <2>1
  <1> QED BY <1>1, InvAlways, PTL

\* Once the broker is closing no fetch calls upstream (broker.py:504-516): the
\* flag is read again after the last await before the call.
THEOREM QuietAfterCloseAlways == Spec => QuietAfterClose
  <1>1. [Next]_vars => [closing => \A f \in Requests : attempts'[f] = attempts[f]]_vars
    <2> SUFFICES ASSUME Next, closing PROVE attempts' = attempts
      OBVIOUS
    <2> QED
      BY StepCases
         DEF StepOf, Refuse, ServeCached, FetchAlone, Lead, Coalesce, StartFetch,
             CallUpstream, Sleeps, Retry, Deliver, Disconnect, Ended, Close, Tick,
             vars, fetches
  <1> QED BY <1>1, PTL DEF Spec, QuietAfterClose
=============================================================================

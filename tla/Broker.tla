------------------------------- MODULE Broker -------------------------------
(***************************************************************************)
(* Broker.get (venue_broker/broker.py) for one venue, and the request task *)
(* around it (venue_broker/app.py): the cache, the single flight of equal  *)
(* requests, the retries after a 429, disconnects and close().             *)
(*                                                                         *)
(* A request is one call of get().  What it does up to its first await is  *)
(* one step: the coordination lock is only ever held between awaits.  A    *)
(* fetch has the name of the request that began it, and may outlive it.    *)
(* The limiter is what FairLimiter and TokenBucket model: it admits a      *)
(* fetch that queues sooner or later, or is closed.  A fetch that cannot   *)
(* be priced fails at once, like one whose limiter is closed.              *)
(***************************************************************************)
EXTENDS Integers, Sequences, FiniteSets, SequencesExt

CONSTANTS
    Requests,
    PathOf,         \* the path, query and Accept header of a request
    CredentialOf,   \* its authentication headers, or Public
    Public,
    Named,          \* the requests with a valid caller name
    Ttl,            \* cache_ttl, by path
    MaxEntries,     \* max_cache_entries
    MaxRetries,     \* max_retries
    MaxTime,        \* bound on the clock
    None

Paths == {PathOf[r] : r \in Requests}
Credentials == {CredentialOf[r] : r \in Requests}

ASSUME BrokerAssumption ==
    /\ Named \subseteq Requests
    /\ Ttl \in [Paths -> Nat]
    /\ {MaxEntries, MaxRetries, MaxTime} \subseteq Nat
    /\ None \notin Requests

VARIABLES
    now,        \* the clock
    closing,    \* _closing
    cache,      \* _cache, the least recently used entry first
    inflight,   \* _inflight
    phase,      \* where a fetch is
    attempts,   \* the upstream requests it has made
    result,     \* how it ended
    pc,         \* where a request is
    source,     \* the fetch a request waits for, or was answered from
    askedAt,    \* history: when a request arrived
    fetchedAt   \* history: when a fetch got its answer

fetches == <<phase, attempts, result, fetchedAt>>
requests == <<pc, source, askedAt>>
vars == <<now, closing, cache, inflight, fetches, requests>>

Phases == {"none", "queued", "calling", "sleeping", "over", "cancelled"}
Results == {"none", "ok", "refused", "failed"}
Live == {f \in Requests : phase[f] \in {"queued", "calling", "sleeping"}}

\* Mutant of CanShare: having a caller name makes no difference.
CanShareUnnamed(r) == r \in Requests

\* can_share: an unnamed caller's credentials are never shared.
CanShare(r) == CredentialOf[r] = Public \/ r \in Named

\* Mutant of Key: the credentials are left out.
KeyForAll(r) == <<PathOf[r], Public>>

\* The cache key; the credential scope is a fingerprint of all the headers.
Key(r) == <<PathOf[r], CredentialOf[r]>>
Keys == Paths \X Credentials

TtlOf(r) == IF CanShare(r) THEN Ttl[PathOf[r]] ELSE 0

Init ==
    /\ now = 0
    /\ closing = FALSE
    /\ cache = <<>>
    /\ inflight = [k \in Keys |-> None]
    /\ phase = [r \in Requests |-> "none"]
    /\ attempts = [r \in Requests |-> 0]
    /\ result = [r \in Requests |-> "none"]
    /\ pc = [r \in Requests |-> "idle"]
    /\ source = [r \in Requests |-> None]
    /\ askedAt = [r \in Requests |-> 0]
    /\ fetchedAt = [r \in Requests |-> 0]
-----------------------------------------------------------------------------
\* A key has at most one entry: CacheSound.
Without(k) == RemoveFirstMatch(cache, LAMBDA entry : entry.key = k)
EntryOf(k) == {entry \in ToSet(cache) : entry.key = k}

\* Mutant of Hits: an entry is good at its expiry too.
HitsAtExpiry(r) ==
    {entry \in EntryOf(Key(r)) : TtlOf(r) > 0 /\ entry.expiresAt >= now}

\* An entry is good until its expiry, not at it.
Hits(r) ==
    {entry \in EntryOf(Key(r)) : TtlOf(r) > 0 /\ entry.expiresAt > now}

\* Mutant of StoreCache: one entry too many is kept.
StoreOneMore(entry) ==
    LET stored == Append(Without(entry.key), entry)
        excess == Len(stored) - MaxEntries - 1
    IN  cache' = IF excess > 0 THEN SubSeq(stored, excess + 1, Len(stored)) ELSE stored

\* _store_cache: the new entry is the most recent; the oldest ones go.
StoreCache(entry) ==
    LET stored == Append(Without(entry.key), entry)
        excess == Len(stored) - MaxEntries
    IN  cache' = IF excess > 0 THEN SubSeq(stored, excess + 1, Len(stored)) ELSE stored

Arrive(r, where, from) ==
    /\ pc[r] = "idle"
    /\ pc' = [pc EXCEPT ![r] = where]
    /\ source' = [source EXCEPT ![r] = from]
    /\ askedAt' = [askedAt EXCEPT ![r] = now]
    /\ UNCHANGED <<now, closing>>

\* The policy stops the caller, or the broker is closing.
Refuse(r) ==
    /\ pc[r] = "idle"
    /\ pc' = [pc EXCEPT ![r] = "left"]
    /\ UNCHANGED <<now, closing, cache, inflight, fetches, source, askedAt>>

ServeCached(r) ==
    /\ ~closing
    /\ \E entry \in Hits(r) :
        /\ Arrive(r, "answered", entry.from)
        /\ cache' = Append(Without(Key(r)), entry)
    /\ UNCHANGED <<inflight, fetches>>

\* On a miss an expired entry is dropped.
Missed(r) ==
    /\ ~closing
    /\ Hits(r) = {}
    /\ cache' = IF TtlOf(r) > 0 THEN Without(Key(r)) ELSE cache

StartFetch(r) ==
    /\ phase' = [phase EXCEPT ![r] = "queued"]
    /\ UNCHANGED <<attempts, result, fetchedAt>>

\* A request that cannot be shared is fetched by its own task.
FetchAlone(r) ==
    /\ Missed(r)
    /\ ~CanShare(r)
    /\ Arrive(r, "waiting", r)
    /\ StartFetch(r)
    /\ UNCHANGED inflight

Lead(r) ==
    /\ Missed(r)
    /\ CanShare(r)
    /\ inflight[Key(r)] = None
    /\ Arrive(r, "waiting", r)
    /\ StartFetch(r)
    /\ inflight' = [inflight EXCEPT ![Key(r)] = r]

Coalesce(r) ==
    /\ Missed(r)
    /\ CanShare(r)
    /\ inflight[Key(r)] # None
    /\ Arrive(r, "waiting", inflight[Key(r)])
    /\ UNCHANGED <<inflight, fetches>>
-----------------------------------------------------------------------------
\* Mutant of End: a fetch leaves the flight only when it succeeds.
EndInFlight(f, how) ==
    /\ phase' = [phase EXCEPT ![f] = "over"]
    /\ result' = [result EXCEPT ![f] = how]
    /\ fetchedAt' = [fetchedAt EXCEPT ![f] = now]
    /\ IF how = "ok" /\ TtlOf(f) > 0
       THEN StoreCache([key |-> Key(f), from |-> f, expiresAt |-> now + TtlOf(f)])
       ELSE UNCHANGED cache
    /\ inflight' = IF how = "ok" /\ inflight[Key(f)] = f
                   THEN [inflight EXCEPT ![Key(f)] = None] ELSE inflight

\* The end of a fetch: a shared one keeps a good answer and leaves the flight,
\* in one step.
End(f, how) ==
    /\ phase' = [phase EXCEPT ![f] = "over"]
    /\ result' = [result EXCEPT ![f] = how]
    /\ fetchedAt' = [fetchedAt EXCEPT ![f] = now]
    /\ IF how = "ok" /\ TtlOf(f) > 0
       THEN StoreCache([key |-> Key(f), from |-> f, expiresAt |-> now + TtlOf(f)])
       ELSE UNCHANGED cache
    /\ inflight' = IF inflight[Key(f)] = f THEN [inflight EXCEPT ![Key(f)] = None]
                   ELSE inflight

\* Mutant of CallUpstream: the flag is not looked at again.
CallThoughClosing(f) ==
    /\ phase[f] = "queued"
    /\ phase' = [phase EXCEPT ![f] = "calling"]
    /\ attempts' = [attempts EXCEPT ![f] = @ + 1]
    /\ UNCHANGED <<now, closing, cache, inflight, result, fetchedAt, requests>>

\* The limiter returns: the upstream request goes out at once, unless the
\* broker is closing by now.
CallUpstream(f) ==
    /\ phase[f] = "queued"
    /\ ~closing
    /\ phase' = [phase EXCEPT ![f] = "calling"]
    /\ attempts' = [attempts EXCEPT ![f] = @ + 1]
    /\ UNCHANGED <<now, closing, cache, inflight, result, fetchedAt, requests>>

\* The broker is closing, or the price of the fetch is refused.
FailBeforeCall(f) ==
    /\ phase[f] = "queued"
    /\ closing \/ attempts[f] = 0
    /\ End(f, "failed")
    /\ UNCHANGED <<now, closing, attempts, requests>>

\* The venue answers, or the call times out or breaks.  A stopgap 429 is an
\* answer like any other that is not a success.
Answered(f, how) ==
    /\ phase[f] = "calling"
    /\ how \in {"ok", "refused", "failed"}
    /\ End(f, how)
    /\ UNCHANGED <<now, closing, attempts, requests>>

\* Mutant of TooManyRequests: one retry too many.
TooManyRetries(f) ==
    /\ phase[f] = "calling"
    /\ \/ /\ attempts[f] <= MaxRetries + 1
          /\ phase' = [phase EXCEPT ![f] = "sleeping"]
          /\ UNCHANGED <<cache, inflight, result, fetchedAt>>
       \/ /\ attempts[f] > MaxRetries + 1
          /\ End(f, "refused")
    /\ UNCHANGED <<now, closing, attempts, requests>>

\* A real 429: slept on and retried, or passed on when it is the last.
TooManyRequests(f) ==
    /\ phase[f] = "calling"
    /\ \/ /\ attempts[f] <= MaxRetries
          /\ phase' = [phase EXCEPT ![f] = "sleeping"]
          /\ UNCHANGED <<cache, inflight, result, fetchedAt>>
       \/ /\ attempts[f] > MaxRetries
          /\ End(f, "refused")
    /\ UNCHANGED <<now, closing, attempts, requests>>

Retry(f) ==
    /\ phase[f] = "sleeping"
    /\ phase' = [phase EXCEPT ![f] = "queued"]
    /\ UNCHANGED <<now, closing, cache, inflight, attempts, result, fetchedAt, requests>>
-----------------------------------------------------------------------------
\* The waiting task runs again.
Deliver(r) ==
    /\ pc[r] = "waiting"
    /\ phase[source[r]] = "over"
    /\ pc' = [pc EXCEPT ![r] = "answered"]
    /\ UNCHANGED <<now, closing, cache, inflight, fetches, source, askedAt>>

\* Mutant of Disconnect: a shared fetch goes with its leader.
DisconnectUnshielded(r) ==
    /\ pc[r] = "waiting"
    /\ pc' = [pc EXCEPT ![r] = "left"]
    /\ phase' = IF r \in Live THEN [phase EXCEPT ![r] = "cancelled"] ELSE phase
    /\ source' = [source EXCEPT ![r] = None]
    /\ askedAt' = [askedAt EXCEPT ![r] = 0]
    /\ UNCHANGED <<now, closing, cache, inflight, attempts, result, fetchedAt>>

\* The caller disconnects; the disconnect wins over an answer that is there.
\* Only a fetch in the request's own task is cancelled with it.
Disconnect(r) ==
    /\ pc[r] = "waiting"
    /\ pc' = [pc EXCEPT ![r] = "left"]
    /\ phase' = IF ~CanShare(r) /\ r \in Live
                THEN [phase EXCEPT ![r] = "cancelled"] ELSE phase
    /\ source' = [source EXCEPT ![r] = None]
    /\ askedAt' = [askedAt EXCEPT ![r] = 0]
    /\ UNCHANGED <<now, closing, cache, inflight, attempts, result, fetchedAt>>

\* close(): from here on the limiters refuse, and open calls may break.
Close ==
    /\ ~closing
    /\ closing' = TRUE
    /\ UNCHANGED <<now, cache, inflight, fetches, requests>>

Tick ==
    /\ now < MaxTime
    /\ now' = now + 1
    /\ UNCHANGED <<closing, cache, inflight, fetches, requests>>

\* What the event loop, the limiter and the venue see to.
Advance(f) ==
    \/ CallUpstream(f) \/ FailBeforeCall(f)
    \/ \E how \in Results : Answered(f, how)
    \/ TooManyRequests(f)
    \/ Retry(f)

Next ==
    \/ \E r \in Requests :
        \/ Refuse(r) \/ ServeCached(r) \/ FetchAlone(r) \/ Lead(r) \/ Coalesce(r)
        \/ Advance(r)
        \/ Deliver(r) \/ Disconnect(r)
    \/ Close
    \/ Tick

\* The limiter admits (FairLimiter!NoStarvationUnlessLost), a call ends by its timeout,
\* a retry's sleep is at most ten seconds, and the loop runs what is ready.
Fairness ==
    \A r \in Requests : WF_vars(Advance(r)) /\ WF_vars(Deliver(r))

Spec == Init /\ [][Next]_vars /\ Fairness
-----------------------------------------------------------------------------
Entry == [key : Keys, from : Requests, expiresAt : Nat]

TypeOK ==
    /\ now \in 0 .. MaxTime
    /\ closing \in BOOLEAN
    /\ cache \in Seq(Entry)
    /\ inflight \in [Keys -> Requests \cup {None}]
    /\ phase \in [Requests -> Phases]
    /\ attempts \in [Requests -> 0 .. MaxRetries + 1]
    /\ result \in [Requests -> Results]
    /\ pc \in [Requests -> {"idle", "waiting", "answered", "left"}]
    /\ source \in [Requests -> Requests \cup {None}]
    /\ askedAt \in [Requests -> 0 .. now]
    /\ fetchedAt \in [Requests -> 0 .. now]

\* Single flight (README.md:270): equal shareable requests have one fetch, from
\* its first step to its last whoever disconnects; _inflight names exactly the
\* fetches that are not over (broker.py:373-390, 432-436).
SingleFlight ==
    \A k \in Keys : \A f \in Requests :
        inflight[k] = f <=> f \in Live /\ CanShare(f) /\ Key(f) = k

\* Nobody gets an answer fetched with other credentials or for another path,
\* and what is fetched with credentials for an unnamed caller is its alone, as is
\* what it gets, whether by the cache, by coalescing or after a disconnect
\* (README.md:271-278).
KeptApart ==
    \A r \in Requests : source[r] # None =>
        /\ PathOf[source[r]] = PathOf[r]
        /\ CredentialOf[source[r]] = CredentialOf[r]
        /\ CredentialOf[r] = Public \/ {r, source[r]} \subseteq Named \/ source[r] = r

\* An answer is never stale: it came in after the request, or less than its
\* time to live before it, and an answer older than the request was a success
\* (broker.py:357-366, 429-430).
Fresh ==
    \A r \in Requests : pc[r] = "answered" /\ fetchedAt[source[r]] < askedAt[r] =>
        /\ askedAt[r] < fetchedAt[source[r]] + Ttl[PathOf[r]]
        /\ result[source[r]] = "ok"

\* The cache keeps at most its bound, one entry a key, each a success that is
\* the latest to be fetched for its key (broker.py:438-446).
CacheSound ==
    /\ Len(cache) <= MaxEntries
    /\ \A i, j \in DOMAIN cache : cache[i].key = cache[j].key => i = j
    /\ \A entry \in ToSet(cache) :
        /\ result[entry.from] = "ok"
        /\ \A f \in Requests : result[f] = "ok" /\ CanShare(f) /\ Key(f) = entry.key =>
            fetchedAt[f] <= fetchedAt[entry.from]

\* Once close() has begun no upstream request goes out, by a fetch that was
\* queued, asleep or just admitted (broker.py:504-516).
QuietAfterClose ==
    [][closing => \A f \in Requests : attempts'[f] = attempts[f]]_vars

\* Every request that waits is answered, unless its caller leaves: when the
\* leader of its fetch left, and when the broker closes (broker.py:392-399).
EveryRequestEnds == \A r \in Requests : pc[r] = "waiting" ~> pc[r] # "waiting"

\* A fetch makes its upstream request and at most MaxRetries more, also when
\* close() or the leaving of all its callers comes between them
\* (broker.py:575-621, README.md:304-307).
RetriesBounded == \A f \in Requests : attempts[f] <= MaxRetries + 1
=============================================================================

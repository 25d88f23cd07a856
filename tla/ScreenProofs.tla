---------------------------- MODULE ScreenProofs ----------------------------
(***************************************************************************)
(* What the screen says of time is true of every snapshot, at every moment *)
(* and whatever the window does: the clock of the window is less than a    *)
(* tick late, and the labels are computed from it.  And what it says of    *)
(* the Governor's figures, stops and warnings is what the payload says:    *)
(* the snapshot on display is always one that was read from a payload, so  *)
(* each figure is followed from its field through the contract to the      *)
(* component that shows it, and each value of a series to its chart.       *)
(***************************************************************************)
EXTENDS Screen, SequenceLemmas, TLAPS

\* The window's clock is behind the time, by less than a tick.
ClockInv ==
    /\ wall \in Nat /\ now \in Nat
    /\ now <= wall /\ wall < now + TickMs

\* Every time on display is one Date.parse has an answer for, or null.
TimesInv ==
    snapshot # Unknown => TimesIn(snapshot) \subseteq DOMAIN DateParse \cup {Unknown}

AgeInv == ClockInv /\ TimesInv
-----------------------------------------------------------------------------
LEMMA AgeInvInit == Init => AgeInv
  <1> SUFFICES ASSUME Init PROVE AgeInv
    OBVIOUS
  <1>1. \E m \in Moments : \A n \in Moments : m <= n
    BY ScreenAssumption, MinOfNats
  <1>2. wall \in Moments
    BY <1>1 DEF Init
  <1>3. snapshot = Unknown /\ now = wall /\ wall \in Nat
    BY <1>2, ScreenAssumption DEF Init
  <1> QED BY <1>3 DEF AgeInv, ClockInv, TimesInv, TickMs

LEMMA AgeInvStep == AgeInv /\ [Next]_vars => AgeInv'
  <1> SUFFICES ASSUME AgeInv, [Next]_vars PROVE AgeInv'
    OBVIOUS
  <1> USE DEF AgeInv
  <1>1. ASSUME NEW r \in DOMAIN Responses, Receive(r) PROVE AgeInv'
    BY <1>1, ScreenAssumption DEF Receive, ClockInv, TimesInv, clock
  <1>2. ASSUME NEW r \in DOMAIN Responses, ControlReturns(r) PROVE AgeInv'
    BY <1>2, ScreenAssumption DEF ControlReturns, ClockInv, TimesInv, clock
  <1>3. ASSUME NEW m \in Moments, Wait(m) PROVE AgeInv'
    BY <1>3, ScreenAssumption DEF Wait, ClockInv, TimesInv
  <1>4. ASSUME NEW m \in Moments, Tick(m) PROVE AgeInv'
    BY <1>4, ScreenAssumption DEF Tick, ClockInv, TimesInv, TickMs
  <1>5. ASSUME UNCHANGED <<snapshot, clock>> PROVE AgeInv'
    BY <1>5 DEF ClockInv, TimesInv, clock
  <1>6. ASSUME NEW w \in Widths, Resize(w) PROVE AgeInv'
    BY <1>5, <1>6 DEF Resize
  <1>7. CASE ToggleActivity
    BY <1>5, <1>7 DEF ToggleActivity
  <1>8. CASE ToggleDetail
    BY <1>5, <1>8 DEF ToggleDetail
  <1>9. CASE RunAudit
    BY <1>5, <1>9 DEF RunAudit
  <1>10. ASSUME NEW a \in DOMAIN AuditResponses, AuditReturns(a) PROVE AgeInv'
    BY <1>5, <1>10 DEF AuditReturns
  <1>11. CASE UNCHANGED vars
    BY <1>5, <1>11 DEF vars
  <1> QED BY <1>1, <1>2, <1>3, <1>4, <1>6, <1>7, <1>8, <1>9, <1>10, <1>11 DEF Next

LEMMA AgeInvAlways == Spec => []AgeInv
  BY AgeInvInit, AgeInvStep, PTL DEF Spec
-----------------------------------------------------------------------------
LEMMA AgeKnown ==
    ASSUME NEW at \in DOMAIN DateParse \cup {Unknown}, NEW t \in Nat
    PROVE  /\ ~Readable(at) => AgeMs(at, t) = Unknown
           /\ Readable(at) =>
                /\ DateParse[at] \in Int
                /\ AgeMs(at, t) \in Nat /\ AgeMs(at, t) # Unknown
                /\ AgeMs(at, t) = IF t < DateParse[at] THEN 0 ELSE t - DateParse[at]
  BY ScreenAssumption DEF Readable, AgeMs

\* Whole units of an age, and half a second up or down.
LEMMA Whole ==
    ASSUME NEW age \in Nat
    PROVE  /\ (age \div 60000) * 60000 <= age /\ age < (age \div 60000) * 60000 + 60000
           /\ (age \div 3600000) * 3600000 <= age
           /\ age < (age \div 3600000) * 3600000 + 3600000
           /\ (age \div 86400000) * 86400000 <= age
           /\ age < (age \div 86400000) * 86400000 + 86400000
           /\ ((age + 500) \div 1000) * 1000 <= age + 500
           /\ age + 500 < ((age + 500) \div 1000) * 1000 + 1000
  OBVIOUS

\* An age as it is given: at most half a second too old, and too young by
\* less than its unit.
Given(age, ms) ==
    /\ age.unit \in {"now", "s", "m", "h", "d"}
    /\ age.n \in Nat
    /\ age.n * Unit(age.unit) <= ms + 500
    /\ ms < age.n * Unit(age.unit) + Unit(age.unit)

LEMMA SecondsGiven ==
    ASSUME NEW ms \in Nat
    PROVE  Given(Seconds(ms), ms)
  <1>1. CASE ms < 5000
    BY <1>1 DEF Seconds, Given, Unit, Ago
  <1>2. CASE ~(ms < 5000)
    <2>1. (ms + 500) \div 1000 \in Nat
      OBVIOUS
    <2> QED BY <1>2, <2>1, Whole DEF Seconds, Given, Unit, Ago
  <1> QED BY <1>1, <1>2

LEMMA LargerGiven ==
    ASSUME NEW ms \in Nat
    PROVE  /\ Given(Ago(ms \div Minute, "m"), ms)
           /\ Given(Ago(ms \div Hour, "h"), ms)
           /\ Given(Ago(ms \div Day, "d"), ms)
  <1>1. Minute = 60000 /\ Hour = 3600000 /\ Day = 86400000
    BY DEF Minute, Hour, Day
  <1>2. ms \div 60000 \in Nat /\ ms \div 3600000 \in Nat /\ ms \div 86400000 \in Nat
    OBVIOUS
  <1> QED BY <1>1, <1>2, Whole DEF Given, Unit, Ago

\* What is given of an age by a clock that is less than a tick late is fair.
LEMMA GivenFair ==
    ASSUME ClockInv, NEW at \in DOMAIN DateParse \cup {Unknown}, Readable(at),
           NEW age, Given(age, AgeMs(at, now))
    PROVE  Fair(age, at)
  <1> DEFINE d == DateParse[at]
             ms == AgeMs(at, now)
             u == Unit(age.unit)
             p == age.n * u
  <1>1. d \in Int /\ ms \in Nat /\ ms = IF now < d THEN 0 ELSE now - d
    BY AgeKnown DEF ClockInv
  <1>2. u \in Nat
    BY DEF Given, Unit, Minute, Hour, Day
  <1>3. p \in Nat /\ p <= ms + 500 /\ ms < p + u
    BY <1>2 DEF Given
  <1>4. wall \in Nat /\ now \in Nat /\ now <= wall /\ wall < now + 1000
    BY DEF ClockInv, TickMs
  <1>5. Fair(age, at) <=> (age.unit # "unknown" =>
            /\ p <= (IF wall < d THEN 0 ELSE wall - d) + 500
            /\ wall - d - p < u + 1000)
    BY DEF Fair, TickMs
  <1> HIDE DEF d, ms, u, p
  <1> QED BY <1>1, <1>2, <1>3, <1>4, <1>5
-----------------------------------------------------------------------------
LEMMA FormatAgeFair ==
    ASSUME ClockInv, NEW at \in DOMAIN DateParse \cup {Unknown}
    PROVE  Fair(FormatAge(at, now), at)
  <1> DEFINE ms == AgeMs(at, now)
  <1>1. CASE ~Readable(at)
    BY <1>1, AgeKnown DEF ClockInv, FormatAge, NoAge, Ago, Fair
  <1>2. CASE Readable(at)
    <2>1. ms \in Nat /\ ms # Unknown
      BY <1>2, AgeKnown DEF ClockInv
    <2>2. Given(FormatAge(at, now), ms)
      BY <2>1, SecondsGiven, LargerGiven DEF FormatAge
    <2> QED BY <1>2, <2>2, GivenFair
  <1> QED BY <1>1, <1>2

LEMMA FormatLastRestFair ==
    ASSUME ClockInv, NEW app, app.lastRequestAt \in DOMAIN DateParse \cup {Unknown}
    PROVE  Fair(FormatLastRest(app, now), app.lastRequestAt)
  <1> DEFINE at == app.lastRequestAt
             ms == AgeMs(at, now)
  <1>1. CASE ~Readable(at)
    BY <1>1, AgeKnown DEF ClockInv, FormatLastRest, NoAge, Ago, Fair
  <1>2. CASE Readable(at)
    <2>1. ms \in Nat /\ ms # Unknown
      BY <1>2, AgeKnown DEF ClockInv
    <2>2. Given(FormatLastRest(app, now), ms)
      BY <2>1, SecondsGiven, LargerGiven DEF FormatLastRest
    <2> QED BY <1>2, <2>2, GivenFair
  <1> QED BY <1>1, <1>2

\* Every age on the screen is the age of what it stands beside, within its
\* unit and a tick (derive.ts:188-206, 244-256, App.tsx:253-266), for any
\* snapshots, times and moments.
THEOREM AgeHonestAlways == Spec => []AgeHonest
  <1>1. AgeInv => AgeHonest
    <2> SUFFICES ASSUME AgeInv, snapshot # Unknown
                 PROVE  /\ Fair(Header.age, snapshot.broker.sampledAt)
                        /\ \A app \in Rows :
                            Fair(TableRow(app).lastRest, app.lastRequestAt)
      BY DEF AgeHonest
    <2>1. TimesIn(snapshot) \subseteq DOMAIN DateParse \cup {Unknown} /\ ClockInv
      BY DEF AgeInv, TimesInv
    <2>2. Fair(Header.age, snapshot.broker.sampledAt)
      BY <2>1, FormatAgeFair DEF Header, TimesIn
    <2>3. ASSUME NEW app \in Rows
          PROVE  Fair(TableRow(app).lastRest, app.lastRequestAt)
      <3>1. Fair(FormatLastRest(app, now), app.lastRequestAt)
        BY <2>1, FormatLastRestFair DEF TimesIn, Rows
      <3>2. Fair(NoAge, app.lastRequestAt)
        BY DEF Fair, NoAge, Ago
      <3>3. TableRow(app).lastRest \in {FormatLastRest(app, now), NoAge}
        BY DEF TableRow
      <3> QED BY <3>1, <3>2, <3>3
    <2> QED BY <2>2, <2>3
  <1> QED BY <1>1, AgeInvAlways, PTL
-----------------------------------------------------------------------------
\* Nothing older than it may be is called healthy or now, in word or colour
\* (derive.ts:258-304), for any snapshots, times and moments.
THEOREM OldNeverCurrentAlways == Spec => []OldNeverCurrent
  <1>1. AgeInv => OldNeverCurrent
    <2> SUFFICES ASSUME AgeInv, snapshot # Unknown
                 PROVE  /\ TrueAge >= StaleAfter + TickMs
                           => Header.health # "healthy" /\ Header.tone # "healthy"
                        /\ TrueAge >= 5000 + TickMs => Header.age.unit # "now"
                        /\ (Header.tone = "healthy") = (Header.health = "healthy")
      BY DEF OldNeverCurrent
    <2> DEFINE at == snapshot.broker.sampledAt
               made == snapshot.generatedAt
    <2>1. /\ at \in DOMAIN DateParse \cup {Unknown}
          /\ made \in DOMAIN DateParse \cup {Unknown}
      BY DEF AgeInv, TimesInv, TimesIn
    <2>2. wall \in Nat /\ now \in Nat /\ now <= wall /\ wall < now + 1000
      BY DEF AgeInv, ClockInv, TickMs
    <2> HIDE DEF at, made
    <2>3. (Header.tone = "healthy") = (Header.health = "healthy")
      BY DEF Header, BrokerHealthTone, BrokerHealthLabel
    <2>4. ASSUME TrueAge >= StaleAfter + TickMs PROVE Header.health # "healthy"
      <3>1. SnapshotSampleAge(snapshot, now) \in Nat
            /\ SnapshotSampleAge(snapshot, now) # Unknown
            /\ SnapshotSampleAge(snapshot, now) > 15000
        BY <2>1, <2>2, <2>4, AgeKnown DEF TrueAge, SnapshotSampleAge, StaleAfter, TickMs, at, made
      <3> QED BY <3>1 DEF Header, BrokerHealthLabel, IsSnapshotStale, StaleAfter
    <2>5. ASSUME TrueAge >= 5000 + TickMs PROVE Header.age.unit # "now"
      <3>1. CASE Readable(at)
        <4>1. AgeMs(at, now) \in Nat /\ AgeMs(at, now) # Unknown /\ AgeMs(at, now) >= 5000
          BY <2>1, <2>2, <2>5, <3>1, AgeKnown DEF TrueAge, TickMs, at
        <4> QED BY <4>1 DEF Header, FormatAge, Seconds, Ago, at
      <3>2. CASE ~Readable(at)
        <4>1. AgeMs(at, now) = Unknown
          BY <2>1, <2>2, <3>2, AgeKnown
        <4> QED BY <4>1 DEF Header, FormatAge, NoAge, Ago, at
      <3> QED BY <3>1, <3>2
    <2> QED BY <2>3, <2>4, <2>5
  <1> QED BY <1>1, AgeInvAlways, PTL
-----------------------------------------------------------------------------
\* Counting the members up to each: every number of them comes up, once.
LEMMA Ranks ==
    ASSUME NEW I, I \subseteq Nat, IsFiniteSet(I)
    PROVE  /\ \A k \in 1 .. Cardinality(I) :
                \E i \in I : Cardinality({j \in I : j <= i}) = k
           /\ \A i \in I : Cardinality({j \in I : j <= i}) \in 1 .. Cardinality(I)
           /\ \A i, k \in I : Cardinality({j \in I : j <= i}) = Cardinality({j \in I : j <= k})
                              => i = k
  <1> DEFINE upto(i) == {j \in I : j <= i}
             r == [i \in I |-> Cardinality(upto(i))]
             n == Cardinality(I)
  <1>0. n \in Nat
    BY FS_CardinalityType
  <1>1. ASSUME NEW i \in I PROVE IsFiniteSet(upto(i)) /\ r[i] \in 1 .. n
    <2>1. upto(i) \in SUBSET I /\ upto(i) # {}
      OBVIOUS
    <2>2. IsFiniteSet(upto(i)) /\ Cardinality(upto(i)) <= n
      BY <2>1, FS_Subset
    <2> HIDE DEF n, upto
    <2>3. Cardinality(upto(i)) \in Nat /\ Cardinality(upto(i)) # 0
      BY <2>1, <2>2, FS_CardinalityType, FS_EmptySet
    <2> QED BY <1>0, <2>2, <2>3
  <1>2. ASSUME NEW i \in I, NEW k \in I, i < k PROVE r[i] # r[k]
    <2>0. i \in Nat /\ k \in Nat /\ \A j \in I : j \in Nat
      OBVIOUS
    <2>1. upto(i) \in SUBSET upto(k) /\ k \in upto(k) /\ k \notin upto(i)
      <3>1. k <= k /\ ~(k <= i) /\ \A j \in I : j <= i => j <= k
        BY <1>2, <2>0
      <3> QED BY <3>1
    <2> HIDE DEF upto
    <2>2. Cardinality(upto(k)) # Cardinality(upto(i))
      BY <1>1, <2>1, FS_Subset
    <2> QED BY <2>2
  <1>3. ASSUME NEW i \in I, NEW k \in I, r[i] = r[k] PROVE i = k
    <2>1. i \in Nat /\ k \in Nat
      OBVIOUS
    <2> HIDE DEF r
    <2> QED BY <1>2, <1>3, <2>1
  <1>4. r \in Injection(I, 1 .. n)
    <2>1. r \in [I -> 1 .. n]
      BY <1>1
    <2> HIDE DEF r, n
    <2> QED BY <1>3, <2>1 DEF Injection, IsInjective
  <1>5. IsFiniteSet(1 .. n) /\ Cardinality(1 .. n) = n
    <2>1. IsFiniteSet(1 .. n) /\ Cardinality(1 .. n) = IF 1 > n THEN 0 ELSE n - 1 + 1
      BY <1>0, FS_Interval
    <2> HIDE DEF n
    <2> QED BY <1>0, <2>1
  <1>6. r \in Surjection(I, 1 .. n)
    BY <1>4, <1>5, FS_Injection
  <1>7. \A k \in 1 .. n : \E i \in I : r[i] = k
    <2> HIDE DEF r, n
    <2> QED BY <1>6 DEF Surjection
  <1> QED BY <1>1, <1>3, <1>7

\* Reading a list leaves out what could not be read and nothing else.
LEMMA KeptMembers ==
    ASSUME NEW n \in Nat, NEW s, DOMAIN s = 1 .. n
    PROVE  /\ Len(Kept(s)) \in Nat /\ DOMAIN Kept(s) = 1 .. Len(Kept(s))
           /\ Kept(s) \in Seq(Range(s) \ {Unknown})
           /\ Range(Kept(s)) = Range(s) \ {Unknown}
  <1> DEFINE I == {i \in DOMAIN s : s[i] # Unknown}
             c == Cardinality(I)
             nth(k) == CHOOSE i \in I : Cardinality({j \in I : j <= i}) = k
             T == Range(s) \ {Unknown}
  <1>1. I \subseteq Nat /\ IsFiniteSet(I) /\ c \in Nat
    <2>1. I \in SUBSET (1 .. n) /\ I \subseteq Nat
      OBVIOUS
    <2>2. IsFiniteSet(1 .. n)
      BY FS_Interval
    <2> HIDE DEF I
    <2> QED BY <2>1, <2>2, FS_Subset, FS_CardinalityType
  <1>2. Kept(s) = [k \in 1 .. c |-> s[nth(k)]]
    BY DEF Kept
  <1>3. ASSUME NEW k \in 1 .. c
        PROVE  nth(k) \in I /\ Cardinality({j \in I : j <= nth(k)}) = k
    <2> HIDE DEF I
    <2>1. \E i \in I : Cardinality({j \in I : j <= i}) = k
      BY <1>1, Ranks, ZenonT(30)
    <2> QED BY <2>1
  <1>4. \A i \in I : s[i] \in T
    BY DEF Range
  <1>5. Kept(s) \in [1 .. c -> T]
    <2> HIDE DEF I, T, nth, c
    <2> QED BY <1>2, <1>3, <1>4
  <1>6. Kept(s) \in Seq(T) /\ Len(Kept(s)) = c
    <2> HIDE DEF I, T, nth, c
    <2> QED BY <1>1, <1>5, LenProperties
  <1>7. ASSUME NEW t \in T PROVE \E k \in 1 .. c : Kept(s)[k] = t
    <2>1. PICK i \in I : s[i] = t
      BY DEF Range
    <2> DEFINE k == Cardinality({j \in I : j <= i})
    <2> HIDE DEF I, T
    <2>2. k \in 1 .. c
      BY <1>1, Ranks
    <2>3. nth(k) = i
      <3>1. nth(k) \in I /\ Cardinality({j \in I : j <= nth(k)}) = k
        BY <1>3, <2>2
      <3> DEFINE other == nth(k)
      <3> HIDE DEF nth
      <3>2. \A a, b \in I : Cardinality({j \in I : j <= a}) = Cardinality({j \in I : j <= b})
                           => a = b
        BY <1>1, Ranks
      <3> QED BY <3>1, <3>2
    <2> HIDE DEF k, nth, c
    <2> QED BY <1>2, <2>1, <2>2, <2>3
  <1>8. Range(Kept(s)) = T
    <2> HIDE DEF T, c
    <2> QED BY <1>5, <1>7 DEF Range
  <1> QED BY <1>1, <1>5, <1>6, <1>8
-----------------------------------------------------------------------------
(* Fields and lists of a payload.                                          *)

LEMMA WordIn ==
    ASSUME NEW values, NEW names, NEW w
    PROVE  w \in Words(values, names) <=>
                \E v \in values : \E name \in names :
                    Field(v, name).is = "string" /\ Field(v, name).string = w
  <1>1. ASSUME NEW v \in values, NEW name \in names, Field(v, name).is = "string"
        PROVE  Field(v, name).string \in Words(values, names)
    <2>1. <<v, name>> \in {q \in values \X names : Field(q[1], q[2]).is = "string"}
      BY <1>1
    <2> QED BY <2>1 DEF Words
  <1>2. ASSUME w \in Words(values, names)
        PROVE  \E v \in values : \E name \in names :
                    Field(v, name).is = "string" /\ Field(v, name).string = w
    <2>1. PICK q \in values \X names : /\ Field(q[1], q[2]).is = "string"
                                       /\ w = Field(q[1], q[2]).string
      BY <1>2 DEF Words
    <2> QED BY <2>1
  <1> QED BY <1>1, <1>2

LEMMA NumberIn ==
    ASSUME NEW values, NEW names, NEW n
    PROVE  n \in Numbers(values, names) <=>
                \E v \in values : \E name \in names :
                    Field(v, name).is = "number" /\ Field(v, name).number = n
  <1>1. ASSUME NEW v \in values, NEW name \in names, Field(v, name).is = "number"
        PROVE  Field(v, name).number \in Numbers(values, names)
    <2>1. <<v, name>> \in {q \in values \X names : Field(q[1], q[2]).is = "number"}
      BY <1>1
    <2> QED BY <2>1 DEF Numbers
  <1>2. ASSUME n \in Numbers(values, names)
        PROVE  \E v \in values : \E name \in names :
                    Field(v, name).is = "number" /\ Field(v, name).number = n
    <2>1. PICK q \in values \X names : /\ Field(q[1], q[2]).is = "number"
                                       /\ n = Field(q[1], q[2]).number
      BY <1>2 DEF Numbers
    <2> QED BY <2>1
  <1> QED BY <1>1, <1>2

\* Of two spellings at most one is there, and that one is read.
LEMMA OneSpelling ==
    ASSUME NEW v, NEW a, NEW b, Undefined \in {Field(v, a), Field(v, b)}
    PROVE  /\ Either(v, a, b) \in {Field(v, a), Field(v, b)}
           /\ \A name \in {a, b} : Field(v, name).is \notin {"undefined", "null"}
                                   => Either(v, a, b) = Field(v, name)
  BY DEF Either, Undefined

LEMMA FieldFormed ==
    ASSUME NEW v, WellFormedObject(v), NEW name
    PROVE  /\ WellFormedValue(Field(v, name))
           /\ ReadArray(Field(v, name)) \in Seq(Range(ReadArray(Field(v, name))))
           /\ \A e \in Range(ReadArray(Field(v, name))) : WellFormedValue(e)
  <1>1. CASE v.is = "object" /\ name \in DOMAIN v.fields
    <2>1. Field(v, name) = v.fields[name]
      BY <1>1 DEF Field
    <2>2. WellFormedValue(v.fields[name])
          /\ \A e \in Range(ReadArray(v.fields[name])) : WellFormedValue(e)
      BY <1>1 DEF WellFormedObject
    <2>3. ReadArray(v.fields[name]) \in Seq(Range(ReadArray(v.fields[name])))
      <3>1. <<>> \in Seq(Range(<<>>))
        OBVIOUS
      <3>2. CASE v.fields[name].is = "array"
        BY <2>2, <3>2 DEF ReadArray, WellFormedValue
      <3>3. CASE v.fields[name].is # "array"
        BY <3>1, <3>3 DEF ReadArray
      <3> QED BY <3>2, <3>3
    <2> QED BY <2>1, <2>2, <2>3
  <1>2. CASE ~(v.is = "object" /\ name \in DOMAIN v.fields)
    <2>1. Field(v, name) = Undefined
      BY <1>2 DEF Field
    <2>2. ReadArray(Undefined) = <<>>
      BY DEF ReadArray, Undefined
    <2>3. WellFormedValue(Undefined)
      BY DEF WellFormedValue, Undefined
    <2>4. Range(<<>>) = {}
      BY DEF Range
    <2> QED BY <2>1, <2>2, <2>3, <2>4
  <1> QED BY <1>1, <1>2

LEMMA ReadWord ==
    ASSUME NEW v, ReadString(v) # Unknown, WellFormedValue(v)
    PROVE  v.is = "string" /\ ReadString(v) = v.string /\ v = String(ReadString(v))
  BY DEF ReadString, WellFormedValue

\* What a list is read into: each entry that can be, and nothing else.
LEMMA ReadEntries ==
    ASSUME NEW s, s \in Seq(Range(s)), NEW t, DOMAIN t = DOMAIN s
    PROVE  /\ Kept(t) \in Seq(Range(t) \ {Unknown})
           /\ Range(Kept(t)) = Range(t) \ {Unknown}
  <1>1. Len(s) \in Nat /\ DOMAIN t = 1 .. Len(s)
    BY LenProperties
  <1> QED BY <1>1, KeptMembers

LEMMA Parsed ==
    ASSUME NEW p, ParseSnapshot(p).ok
    PROVE  LET s == ParseSnapshot(p).snapshot
               lock == Either(p, "tradeLock", "trade_lock")
               access == Either(p, "brokerAccess", "broker_access")
               apps == ReadArray(Field(p, "apps"))
               activity == ReadArray(Field(p, "activity"))
           IN  /\ p.is = "object" /\ Field(p, "schemaVersion") = Number(SchemaVersion)
               /\ s.tradeLock.state = ReadMoneyLockState(Field(lock, "state"))
               /\ s.global.state = ReadAccessState(Field(Field(access, "global"), "state"))
               /\ s.budgets = ReadBudgets(ReadArray(Field(p, "budgets")))
               /\ s.apps = Kept([i \in DOMAIN apps |-> ReadAppRow(apps[i])])
               /\ s.activity = Kept([i \in DOMAIN activity |-> ReadActivityEvent(activity[i])])
  <1>1. ~ Problem("invalid-payload").ok /\ ~ Problem("unsupported-schema").ok
    BY DEF Problem
  <1> QED BY <1>1 DEF ParseSnapshot, ReadControlRecord

\* The snapshot on display is what the contract makes of the payload behind it.
PayloadInv ==
    snapshot # Unknown =>
        /\ WellFormed(Payload)
        /\ ParseSnapshot(Payload).ok
        /\ snapshot = ParseSnapshot(Payload).snapshot

LEMMA Loaded ==
    ASSUME NEW r \in DOMAIN Responses, Loads[r].ok
    PROVE  LET p == PayloadOf(Responses[r].body)
           IN  /\ WellFormed(p) /\ ParseSnapshot(p).ok
               /\ Loads[r].snapshot = ParseSnapshot(p).snapshot
  <1>1. Loads[r] = LoadSnapshot(Responses[r])
    BY DEF Loads
  <1>2. ~ Problem("invalid-payload").ok /\ ~ Problem("unreachable").ok
    BY DEF Problem
  <1>3. Loads[r] = ParseSnapshot(Responses[r].body)
    BY <1>1, <1>2 DEF LoadSnapshot
  <1>4. /\ PayloadOf(Responses[r].body) = Responses[r].body
        /\ WellFormed(PayloadOf(Responses[r].body))
    BY PayloadAssumption
  <1> QED BY <1>3, <1>4

LEMMA Controlled ==
    ASSUME NEW r \in DOMAIN Responses, Controls[r].snapshot # Unknown
    PROVE  LET p == PayloadOf(Responses[r].body)
           IN  /\ WellFormed(p) /\ ParseSnapshot(p).ok
               /\ Controls[r].snapshot = ParseSnapshot(p).snapshot
  <1> DEFINE body == Responses[r].body
             inner == Field(body, "snapshot")
             p == IF inner.is \in {"undefined", "null"} THEN body ELSE inner
  <1>1. Controls[r] = ApplyControl(Responses[r])
    BY DEF Controls
  <1>2. ParseSnapshot(p).ok /\ Controls[r].snapshot = ParseSnapshot(p).snapshot
    BY <1>1 DEF ApplyControl
  <1>3. p.is = "object"
    BY <1>2, Parsed
  <1>4. PayloadOf(body) = p
    BY <1>3 DEF PayloadOf
  <1>5. WellFormed(PayloadOf(body))
    BY PayloadAssumption
  <1> QED BY <1>2, <1>4, <1>5

LEMMA PayloadInvAlways == Spec => []PayloadInv
  <1>1. Init => PayloadInv
    BY DEF Init, PayloadInv
  <1>2. PayloadInv /\ [Next]_vars => PayloadInv'
    <2> SUFFICES ASSUME PayloadInv, [Next]_vars PROVE PayloadInv'
      OBVIOUS
    <2>1. ASSUME NEW r \in DOMAIN Responses, Receive(r) PROVE PayloadInv'
      BY <2>1, Loaded DEF Receive, PayloadInv, Payload
    <2>2. ASSUME NEW r \in DOMAIN Responses, ControlReturns(r) PROVE PayloadInv'
      BY <2>2, Controlled DEF ControlReturns, PayloadInv, Payload
    <2>3. ASSUME UNCHANGED <<snapshot, sent>> PROVE PayloadInv'
      BY <2>3 DEF PayloadInv, Payload
    <2>4. ASSUME NEW m \in Moments, Wait(m) \/ Tick(m) PROVE PayloadInv'
      BY <2>3, <2>4 DEF Wait, Tick
    <2>5. ASSUME NEW w \in Widths, Resize(w) PROVE PayloadInv'
      BY <2>3, <2>5 DEF Resize
    <2>6. CASE ToggleActivity \/ ToggleDetail \/ RunAudit
      BY <2>3, <2>6 DEF ToggleActivity, ToggleDetail, RunAudit
    <2>7. ASSUME NEW a \in DOMAIN AuditResponses, AuditReturns(a) PROVE PayloadInv'
      BY <2>3, <2>7 DEF AuditReturns
    <2>8. CASE UNCHANGED vars
      BY <2>3, <2>8 DEF vars
    <2> QED BY <2>1, <2>2, <2>4, <2>5, <2>6, <2>7, <2>8 DEF Next
  <1> QED BY <1>1, <1>2, PTL DEF Spec

\* A row was read from an entry of the payload that goes by its id.
LEMMA RowRead ==
    ASSUME PayloadInv, snapshot # Unknown, NEW app \in Rows
    PROVE  \E v \in Within(Payload, {"apps"}) :
                /\ WellFormedObject(v)
                /\ app = ReadAppRow(v) /\ ReadAppRow(v) # Unknown
                /\ v \in Called(Within(Payload, {"apps"}), {"app_id", "appId"}, app.appId)
                /\ Either(v, "app_id", "appId") = String(app.appId)
  <1> DEFINE apps == ReadArray(Field(Payload, "apps"))
             read == [i \in DOMAIN apps |-> ReadAppRow(apps[i])]
  <1>1. WellFormed(Payload) /\ WellFormedObject(Payload)
    BY DEF PayloadInv, WellFormed
  <1>2. apps \in Seq(Range(apps)) /\ snapshot.apps = Kept(read)
    BY <1>1, FieldFormed, Parsed DEF PayloadInv
  <1>3. app \in Range(read) /\ app # Unknown
    <2>1. DOMAIN read = DOMAIN apps
      OBVIOUS
    <2> HIDE DEF apps, read
    <2>2. Range(Kept(read)) = Range(read) \ {Unknown}
      BY <1>2, <2>1, ReadEntries
    <2> QED BY <1>2, <2>2 DEF Rows
  <1>4. PICK i \in DOMAIN apps : app = ReadAppRow(apps[i])
    <2> HIDE DEF apps
    <2> QED BY <1>3 DEF Range
  <1> DEFINE v == apps[i]
  <1>5. v \in Within(Payload, {"apps"})
    BY DEF Within, Range
  <1>6. WellFormedObject(v)
    BY <1>1, <1>5 DEF WellFormed
  <1> HIDE DEF v, apps, read
  <1>7. app = ReadAppRow(v) /\ ReadAppRow(v) # Unknown
    BY <1>3, <1>4 DEF v
  <1> DEFINE id == Either(v, "app_id", "appId")
  <1>8. ReadString(id) # Unknown /\ app.appId = ReadString(id)
    BY <1>7 DEF ReadAppRow
  <1>9. id \in {Field(v, "app_id"), Field(v, "appId")}
    BY DEF Either
  <1>10. id = String(app.appId)
    <2>1. WellFormedValue(id)
      BY <1>6, <1>9, FieldFormed
    <2> HIDE DEF id
    <2> QED BY <1>8, <2>1, ReadWord
  <1>11. v \in Called(Within(Payload, {"apps"}), {"app_id", "appId"}, app.appId)
    BY <1>5, <1>9, <1>10 DEF Called
  <1> QED BY <1>5, <1>6, <1>7, <1>10, <1>11

\* Two entries of the payload that go by one id are one entry.
LEMMA SameRow ==
    ASSUME WellFormed(Payload), NEW id,
           NEW u \in Called(Within(Payload, {"apps"}), {"app_id", "appId"}, id),
           NEW v \in Called(Within(Payload, {"apps"}), {"app_id", "appId"}, id)
    PROVE  u = v
  <1>1. PICK n \in {"app_id", "appId"} : Field(u, n) = String(id)
    BY DEF Called
  <1>2. PICK m \in {"app_id", "appId"} : Field(v, m) = String(id)
    BY DEF Called
  <1>3. Field(u, n).is = "string" /\ Field(u, n) = Field(v, m)
    BY <1>1, <1>2 DEF String
  <1>4. u \in Within(Payload, {"apps"}) /\ v \in Within(Payload, {"apps"})
    BY DEF Called
  <1> QED BY <1>3, <1>4 DEF WellFormed, Distinct
-----------------------------------------------------------------------------
\* The words under one of two spellings are those of what is read.
LEMMA EitherWords ==
    ASSUME NEW v, NEW a, NEW b, Undefined \in {Field(v, a), Field(v, b)}, NEW field, NEW w
    PROVE  w \in Words({Field(v, n) : n \in {a, b}}, {field}) <=>
                /\ Field(Either(v, a, b), field).is = "string"
                /\ Field(Either(v, a, b), field).string = w
  <1>1. ASSUME w \in Words({Field(v, n) : n \in {a, b}}, {field})
        PROVE  /\ Field(Either(v, a, b), field).is = "string"
               /\ Field(Either(v, a, b), field).string = w
    <2>1. PICK n \in {a, b} : /\ Field(Field(v, n), field).is = "string"
                              /\ Field(Field(v, n), field).string = w
      BY <1>1, WordIn
    <2>2. Field(v, n).is = "object"
      BY <2>1 DEF Field, Undefined
    <2>3. Either(v, a, b) = Field(v, n)
      BY <2>2, OneSpelling
    <2> QED BY <2>1, <2>3
  <1>2. Either(v, a, b) \in {Field(v, n) : n \in {a, b}}
    BY OneSpelling
  <1> QED BY <1>1, <1>2, WordIn

LEMMA EitherWordsWithin ==
    ASSUME NEW v, NEW a, NEW b, Undefined \in {Field(v, a), Field(v, b)},
           NEW part, NEW field, NEW w
    PROVE  w \in Words({Field(Field(v, n), part) : n \in {a, b}}, {field}) <=>
                /\ Field(Field(Either(v, a, b), part), field).is = "string"
                /\ Field(Field(Either(v, a, b), part), field).string = w
  <1>1. ASSUME w \in Words({Field(Field(v, n), part) : n \in {a, b}}, {field})
        PROVE  /\ Field(Field(Either(v, a, b), part), field).is = "string"
               /\ Field(Field(Either(v, a, b), part), field).string = w
    <2>1. PICK n \in {a, b} : /\ Field(Field(Field(v, n), part), field).is = "string"
                              /\ Field(Field(Field(v, n), part), field).string = w
      BY <1>1, WordIn
    <2>2. Field(Field(v, n), part).is = "object"
      BY <2>1 DEF Field, Undefined
    <2>3. Field(v, n).is = "object"
      BY <2>2 DEF Field, Undefined
    <2>4. Either(v, a, b) = Field(v, n)
      BY <2>3, OneSpelling
    <2> QED BY <2>1, <2>4
  <1>2. Field(Either(v, a, b), part) \in {Field(Field(v, n), part) : n \in {a, b}}
    BY OneSpelling
  <1> QED BY <1>1, <1>2, WordIn

\* What the Governor says is stopped, the strip, the rows and the details call
\* stopped (derive.ts:317-369, SafetyStrip.tsx:27-28), for any well-formed
\* payloads in any order.
THEOREM StopShownAlways == Spec => []StopShown
  <1>1. PayloadInv => StopShown
    <2> SUFFICES ASSUME PayloadInv, snapshot # Unknown
                 PROVE  StopShown
      BY DEF StopShown
    <2> DEFINE strip == SafetyStrip(snapshot)
               lock == Either(Payload, "tradeLock", "trade_lock")
               access == Either(Payload, "brokerAccess", "broker_access")
               lines == {AppDetail(app).moneyLine : app \in Unfolded} \ {"no gate", "paper"}
               state == snapshot.tradeLock.state
    <2>1. /\ WellFormed(Payload)
          /\ Undefined \in {Field(Payload, "tradeLock"), Field(Payload, "trade_lock")}
          /\ Undefined \in {Field(Payload, "brokerAccess"), Field(Payload, "broker_access")}
      <3>1. WellFormed(Payload) /\ WellFormedObject(Payload)
        BY DEF PayloadInv, WellFormed
      <3>2. /\ <<"tradeLock", "trade_lock">> \in Pairs
            /\ <<"brokerAccess", "broker_access">> \in Pairs
        BY DEF Pairs
      <3> QED BY <3>1, <3>2 DEF WellFormedObject
    <2>2. /\ state = ReadMoneyLockState(Field(lock, "state"))
          /\ snapshot.global.state = ReadAccessState(Field(Field(access, "global"), "state"))
      BY Parsed DEF PayloadInv
    <2>3. \A w : w \in LockWords <=> /\ Field(lock, "state").is = "string"
                                     /\ Field(lock, "state").string = w
      BY <2>1, EitherWords DEF LockWords
    <2>4. \A w : w \in GlobalWords <=>
                    /\ Field(Field(access, "global"), "state").is = "string"
                    /\ Field(Field(access, "global"), "state").string = w
      BY <2>1, EitherWordsWithin DEF GlobalWords
    <2>5. /\ strip.money.banner = (state # "allowed")
          /\ strip.money.healthy = (state = "allowed")
          /\ strip.money.canUnlock = (state = "stopped")
          /\ strip.readsStopped = (snapshot.global.state = "stopped")
      BY DEF SafetyStrip, MoneyLockView
    <2>6. lines \subseteq {state}
      BY DEF AppDetail, MoneyLine
    <2>7. ASSUME NEW app \in Rows,
                 "stopped" \in Words(Called(Within(Payload, {"apps"}), {"app_id", "appId"},
                                            app.appId), {"access"})
          PROVE  /\ TableRow(app).access = [label |-> "stopped", button |-> "resume"]
                 /\ AppDetail(app).brokeredRest = "stopped"
      <3>1. PICK u \in Called(Within(Payload, {"apps"}), {"app_id", "appId"}, app.appId) :
                Field(u, "access").is = "string" /\ Field(u, "access").string = "stopped"
        BY <2>7, WordIn
      <3>2. PICK v \in Within(Payload, {"apps"}) :
                /\ app = ReadAppRow(v) /\ ReadAppRow(v) # Unknown
                /\ v \in Called(Within(Payload, {"apps"}), {"app_id", "appId"}, app.appId)
        BY RowRead
      <3>3. u = v
        BY <2>1, <3>1, <3>2, SameRow
      <3>4. app.access = ReadAccessState(Field(v, "access"))
        BY <3>2 DEF ReadAppRow
      <3>5. app.access = "stopped"
        BY <3>1, <3>3, <3>4 DEF ReadAccessState, IsWord
      <3> QED BY <3>5 DEF TableRow, AppDetail, AccessCell
    <2> HIDE DEF strip, lock, access, lines, state
    <2>8. ASSUME LockWords \cap {"stopped", "stopping", "unavailable"} # {}
          PROVE  strip.money.banner /\ ~strip.money.healthy /\ lines \subseteq LockWords
      BY <2>2, <2>3, <2>5, <2>6, <2>8 DEF ReadMoneyLockState, IsWord
    <2>9. strip.money.canUnlock => LockWords = {"stopped"}
      BY <2>2, <2>3, <2>5, ZenonT(30) DEF ReadMoneyLockState, IsWord
    <2>10. strip.readsStopped = ("stopped" \in GlobalWords)
      BY <2>2, <2>4, <2>5 DEF ReadAccessState, IsWord
    <2> QED BY <2>7, <2>8, <2>9, <2>10 DEF StopShown, strip, lines
  <1> QED BY <1>1, PayloadInvAlways, PTL
-----------------------------------------------------------------------------
\* The activity is a list of events, and an event is not Unknown.
LEMMA ActivityRead ==
    ASSUME PayloadInv, snapshot # Unknown
    PROVE  \E S : snapshot.activity \in Seq(S) /\ Unknown \notin S
  <1> DEFINE list == ReadArray(Field(Payload, "activity"))
             read == [i \in DOMAIN list |-> ReadActivityEvent(list[i])]
  <1>1. WellFormedObject(Payload)
    BY DEF PayloadInv, WellFormed
  <1>2. list \in Seq(Range(list)) /\ snapshot.activity = Kept(read)
    BY <1>1, FieldFormed, Parsed DEF PayloadInv
  <1>3. DOMAIN read = DOMAIN list
    OBVIOUS
  <1> HIDE DEF list, read
  <1>4. Kept(read) \in Seq(Range(read) \ {Unknown})
    BY <1>2, <1>3, ReadEntries
  <1> QED BY <1>2, <1>4

\* find: an event it gives is one of the list and passes the test, and it
\* gives none only when none does.
LEMMA FoundDirectCaller ==
    ASSUME NEW S, snapshot.activity \in Seq(S), Unknown \notin S
    PROVE  LET e == PossibleDirectCallerEvent(snapshot)
           IN  IF e = Unknown
               THEN \A f \in ToSet(snapshot.activity) : ~IsPossibleDirectCaller(f)
               ELSE e \in ToSet(snapshot.activity) /\ IsPossibleDirectCaller(e)
  <1> DEFINE s == snapshot.activity
             found == {i \in DOMAIN s : IsPossibleDirectCaller(s[i])}
             first == CHOOSE i \in found : \A j \in found : i <= j
  <1>1. DOMAIN s = 1 .. Len(s) /\ Len(s) \in Nat /\ \A i \in 1 .. Len(s) : s[i] \in S
    BY LenProperties
  <1>2. \A f : f \in ToSet(s) <=> \E i \in 1 .. Len(s) : s[i] = f
    BY Members
  <1>3. PossibleDirectCallerEvent(snapshot) = IF found = {} THEN Unknown ELSE s[first]
    BY DEF PossibleDirectCallerEvent, First
  <1>4. CASE found # {}
    <2>1. found \subseteq Nat
      BY <1>1
    <2> HIDE DEF found
    <2>2. first \in found
      BY <1>4, <2>1, MinOfNats
    <2> HIDE DEF first
    <2>3. first \in 1 .. Len(s) /\ IsPossibleDirectCaller(s[first])
      BY <1>1, <2>2 DEF found
    <2> HIDE DEF s
    <2> QED BY <1>1, <1>2, <1>3, <1>4, <2>3 DEF s
  <1>5. CASE found = {}
    BY <1>1, <1>2, <1>3, <1>5
  <1> QED BY <1>4, <1>5

LEMMA FoundWarning ==
    ASSUME NEW S, snapshot.activity \in Seq(S), Unknown \notin S
    PROVE  LET e == LatestHighPriorityEvent(snapshot)
           IN  IF e = Unknown
               THEN \A f \in ToSet(snapshot.activity) : ~IsHighPriorityEvent(f)
               ELSE e \in ToSet(snapshot.activity) /\ IsHighPriorityEvent(e)
  <1> DEFINE s == snapshot.activity
             found == {i \in DOMAIN s : IsHighPriorityEvent(s[i])}
             first == CHOOSE i \in found : \A j \in found : i <= j
  <1>1. DOMAIN s = 1 .. Len(s) /\ Len(s) \in Nat /\ \A i \in 1 .. Len(s) : s[i] \in S
    BY LenProperties
  <1>2. \A f : f \in ToSet(s) <=> \E i \in 1 .. Len(s) : s[i] = f
    BY Members
  <1>3. LatestHighPriorityEvent(snapshot) =
            IF PossibleDirectCallerEvent(snapshot) # Unknown
            THEN PossibleDirectCallerEvent(snapshot)
            ELSE IF found = {} THEN Unknown ELSE s[first]
    BY DEF LatestHighPriorityEvent, First
  <1>4. CASE PossibleDirectCallerEvent(snapshot) # Unknown
    BY <1>3, <1>4, FoundDirectCaller DEF IsPossibleDirectCaller
  <1>5. CASE PossibleDirectCallerEvent(snapshot) = Unknown /\ found # {}
    <2>1. found \subseteq Nat
      BY <1>1
    <2> HIDE DEF found
    <2>2. first \in found
      BY <1>5, <2>1, MinOfNats
    <2> HIDE DEF first
    <2>3. first \in 1 .. Len(s) /\ IsHighPriorityEvent(s[first])
      BY <1>1, <2>2 DEF found
    <2> HIDE DEF s
    <2> QED BY <1>1, <1>2, <1>3, <1>5, <2>3 DEF s
  <1>6. CASE PossibleDirectCallerEvent(snapshot) = Unknown /\ found = {}
    BY <1>1, <1>2, <1>3, <1>6
  <1> QED BY <1>4, <1>5, <1>6

\* A throttle with headroom in the payload is one in the snapshot.
LEMMA ThrottleRead ==
    ASSUME PayloadInv, snapshot # Unknown, Throttled
    PROVE  HasHeadroomDeltaAlert(snapshot)
  <1> DEFINE names == {"throttled_with_headroom_delta", "throttledWithHeadroomDelta"}
             ids == {"id", "budget"}
             list == ReadArray(Field(Payload, "budgets"))
             budgets == Within(Payload, {"budgets"})
  <1>1. WellFormed(Payload) /\ WellFormedObject(Payload)
    BY DEF PayloadInv, WellFormed
  <1>2. list \in Seq(Range(list)) /\ snapshot.budgets = ReadBudgets(list)
    BY <1>1, FieldFormed, Parsed DEF PayloadInv
  <1>3. budgets = Range(list)
    BY DEF Within
  <1>4. PICK v \in budgets : \E name \in names :
            Field(v, name).is = "number" /\ Field(v, name).number > 0
    BY NumberIn DEF Throttled
  <1>5. PICK name \in names : Field(v, name).is = "number" /\ Field(v, name).number > 0
    BY <1>4
  <1>6. v.is = "object" /\ WellFormedObject(v)
    BY <1>1, <1>5 DEF Field, Undefined, WellFormed
  <1>7. PICK k \in 1 .. 3 : v \in Called(budgets, ids, BudgetIds[k])
    <2>1. PICK id \in Range(BudgetIds) : v \in Called(budgets, ids, id)
      BY <1>1, <1>6 DEF WellFormed
    <2>2. PICK k \in DOMAIN BudgetIds : BudgetIds[k] = id
      BY DEF Range
    <2>3. DOMAIN BudgetIds = 1 .. 3
      BY DEF BudgetIds
    <2> QED BY <2>1, <2>2, <2>3
  <1> DEFINE id == BudgetIds[k]
             matches == {i \in DOMAIN list : /\ list[i].is = "object"
                                             /\ String(id) \in {Field(list[i], "id"),
                                                                Field(list[i], "budget")}}
             first == CHOOSE i \in matches : \A j \in matches : i <= j
  <1>8. snapshot.budgets[k] =
            IF matches = {} THEN EmptyBudget(id) ELSE ReadBudget(list[first], id)
    BY <1>2 DEF ReadBudgets
  <1>9. matches # {} /\ matches \subseteq Nat
    <2>1. DOMAIN list = 1 .. Len(list) /\ Len(list) \in Nat
      BY <1>2, LenProperties
    <2>2. PICK i \in DOMAIN list : list[i] = v
      BY <1>3 DEF Range
    <2>3. i \in matches
      BY <1>6, <1>7, <2>2 DEF Called
    <2> QED BY <2>1, <2>3
  <1>10. first \in matches
    <2> HIDE DEF matches
    <2> QED BY <1>9, MinOfNats
  <1> DEFINE u == list[first]
  <1>11. u = v
    <2>1. u \in budgets
      BY <1>3, <1>10 DEF Range
    <2>2. PICK n \in ids : Field(u, n) = String(id)
      BY <1>10
    <2>3. PICK m \in ids : Field(v, m) = String(id)
      BY <1>7 DEF Called
    <2>4. Field(u, n).is = "string" /\ Field(u, n) = Field(v, m)
      BY <2>2, <2>3 DEF String
    <2> HIDE DEF u, budgets
    <2>5. Distinct(budgets, ids)
      BY <1>1 DEF WellFormed, budgets
    <2> QED BY <2>1, <2>4, <2>5 DEF Distinct
  <1>12. snapshot.budgets[k].throttledWithHeadroomDelta = Field(v, name).number
    <2> DEFINE delta == Either(v, "throttled_with_headroom_delta", "throttledWithHeadroomDelta")
    <2>1. snapshot.budgets[k] = ReadBudget(v, id)
      BY <1>8, <1>9, <1>11
    <2>2. snapshot.budgets[k].throttledWithHeadroomDelta = ReadNumber(delta)
      BY <1>6, <2>1 DEF ReadBudget
    <2>3. Undefined \in {Field(v, "throttled_with_headroom_delta"),
                         Field(v, "throttledWithHeadroomDelta")}
      BY <1>6 DEF WellFormedObject, Pairs
    <2>4. delta = Field(v, name)
      BY <1>5, <2>3, OneSpelling
    <2> QED BY <1>5, <2>2, <2>4 DEF ReadNumber
  <1>13. Field(v, name).number \in Nat
    BY <1>5, <1>6, FieldFormed DEF WellFormedValue
  <1>14. k \in DOMAIN snapshot.budgets
    BY <1>2 DEF ReadBudgets
  <1> QED BY <1>5, <1>12, <1>13, <1>14, ScreenAssumption DEF HasHeadroomDeltaAlert
-----------------------------------------------------------------------------
\* Unfolded, or in a wide window, the activity shows every event there is, and
\* nothing else but the one it leads with.
LEMMA EverythingShown ==
    ASSUME NEW S, ActivityWithHeadroomAlert(snapshot) \in Seq(S),
           NEW compact \in BOOLEAN
    PROVE  LET events == ActivityWithHeadroomAlert(snapshot)
               lead == Or(LatestHighPriorityEvent(snapshot), events[1])
           IN  /\ ToSet(events) \subseteq Range(ActivityFeed(snapshot, compact, TRUE))
               /\ Range(ActivityFeed(snapshot, compact, TRUE)) \subseteq ToSet(events) \cup {lead}
  <1> DEFINE events == ActivityWithHeadroomAlert(snapshot)
             lead == Or(LatestHighPriorityEvent(snapshot), events[1])
             rest == RemoveFirst(events, lead)
             U == S \cup {lead}
  <1>1. ActivityFeed(snapshot, compact, TRUE) =
            IF events = <<>> \/ ~compact THEN events ELSE <<lead>> \o rest
    BY DEF ActivityFeed
  <1>2. \A t : Range(t) = ToSet(t)
    BY DEF Range, ToSet
  <1>3. events \in Seq(U) /\ rest \in Seq(U) /\ lead \in U
    <2>1. events \in Seq(U)
      BY SeqDef
    <2> HIDE DEF events, lead
    <2>2. rest \in Seq(U)
      BY <2>1, RemoveFirstMembers
    <2> QED BY <2>1, <2>2
  <1> HIDE DEF events, lead, U
  <1>4. ToSet(events) \subseteq {lead} \cup ToSet(rest) /\ ToSet(rest) \subseteq ToSet(events)
    <2>1. CASE lead \notin ToSet(events)
      BY <1>3, <2>1, RemoveFirstMembers
    <2>2. CASE lead \in ToSet(events)
      <3>1. PICK i \in 1 .. Len(events) : events[i] = lead /\ rest = RemoveAt(events, i)
        BY <1>3, <2>2, RemoveFirstMembers
      <3>2. ToSet(events) = {events[i]} \cup ToSet(RemoveAt(events, i))
        BY <1>3, RemoveAtMembers
      <3> QED BY <3>1, <3>2
    <2> QED BY <2>1, <2>2
  <1>5. ToSet(<<lead>> \o rest) = {lead} \cup ToSet(rest)
    BY <1>3, ConsMembers
  <1> HIDE DEF rest
  <1>6. CASE events = <<>> \/ ~compact
    BY <1>1, <1>2, <1>6 DEF events
  <1>7. CASE ~(events = <<>> \/ ~compact)
    BY <1>1, <1>2, <1>4, <1>5, <1>7 DEF events, lead
  <1> QED BY <1>6, <1>7

\* A throttle with headroom is on display, and so is every warning logged, in
\* a compact window behind the toggle at most (ActivityFeed.tsx:60-62, 193-218),
\* for any well-formed payloads in any order.
THEOREM AlertReachableAlways == Spec => []AlertReachable
  <1>1. PayloadInv => AlertReachable
    <2> SUFFICES ASSUME PayloadInv, snapshot # Unknown PROVE AlertReachable
      BY DEF AlertReachable
    <2> DEFINE acts == snapshot.activity
               alert == HeadroomAlert(snapshot)
               events == ActivityWithHeadroomAlert(snapshot)
               latest == LatestHighPriorityEvent(snapshot)
               lead == Or(latest, events[1])
               compact == UseCompact(TableMaxWidth)
               everything == Range(ActivityFeed(snapshot, compact, TRUE))
               warnings == {e \in everything : IsHighPriorityEvent(e)}
    <2>1. PICK S : acts \in Seq(S) /\ Unknown \notin S
      BY ActivityRead
    <2> DEFINE T == S \cup {alert}
    <2>2. acts \in Seq(T) /\ alert \in T
      BY <2>1, SeqDef
    <2>3. IsAlert(alert) /\ IsHighPriorityEvent(alert)
      BY DEF HeadroomAlert, IsAlert, IsHighPriorityEvent
    <2>4. \A e : IsAlert(e) <=> IsPossibleDirectCaller(e)
      BY DEF IsAlert, IsPossibleDirectCaller
    <2>5. \A t : Range(t) = ToSet(t)
      BY DEF Range, ToSet
    <2>6. events = IF ~HasHeadroomDeltaAlert(snapshot)
                      \/ PossibleDirectCallerEvent(snapshot) # Unknown
                   THEN acts ELSE <<alert>> \o acts
      BY DEF ActivityWithHeadroomAlert
    <2>7. compact \in BOOLEAN
      BY DEF UseCompact
    <2>8. Activity = IF events = <<>> \/ ~compact THEN events
                     ELSE IF expanded THEN ActivityFeed(snapshot, compact, TRUE)
                     ELSE <<lead>>
      BY DEF Activity, ActivityFeed
    <2>9. ActivityFeed(snapshot, FALSE, TRUE) = events
      BY DEF ActivityFeed
    <2>10. /\ IF latest = Unknown
              THEN \A f \in ToSet(acts) : ~IsHighPriorityEvent(f)
              ELSE latest \in ToSet(acts) /\ IsHighPriorityEvent(latest)
           /\ IF PossibleDirectCallerEvent(snapshot) = Unknown
              THEN \A f \in ToSet(acts) : ~IsPossibleDirectCaller(f)
              ELSE /\ PossibleDirectCallerEvent(snapshot) \in ToSet(acts)
                   /\ IsPossibleDirectCaller(PossibleDirectCallerEvent(snapshot))
      BY <2>1, FoundWarning, FoundDirectCaller
    <2> HIDE DEF alert, acts, events, latest, compact, T
    <2>11. /\ events \in Seq(T) /\ ToSet(acts) \subseteq ToSet(events)
           /\ \/ events = acts
              \/ events # <<>> /\ events[1] = alert /\ alert \in ToSet(events)
           /\ ToSet(events) \subseteq ToSet(acts) \cup {alert}
      <3>1. /\ <<alert>> \o acts \in Seq(T) /\ <<alert>> \o acts # <<>>
            /\ Head(<<alert>> \o acts) = alert
            /\ ToSet(<<alert>> \o acts) = {alert} \cup ToSet(acts)
        BY <2>2, ConsMembers
      <3>2. Head(<<alert>> \o acts) = (<<alert>> \o acts)[1]
        BY <3>1, HeadTailProperties
      <3> QED BY <2>2, <2>6, <3>1, <3>2
    <2>12. /\ ToSet(events) \subseteq everything
           /\ everything \subseteq ToSet(events) \cup {lead}
      BY <2>7, <2>11, EverythingShown DEF events, latest, lead
    <2>13. lead = IF latest = Unknown THEN events[1] ELSE latest
      BY DEF Or
    <2> HIDE DEF lead, everything
    <2>14. {e \in Range(acts) : IsHighPriorityEvent(e)} \subseteq warnings
      BY <2>5, <2>11, <2>12
    <2>15. ASSUME Throttled PROVE \E e \in ToSet(events) : IsAlert(e)
      <3>1. HasHeadroomDeltaAlert(snapshot)
        BY <2>15, ThrottleRead
      <3>2. CASE PossibleDirectCallerEvent(snapshot) # Unknown
        BY <2>4, <2>10, <2>11, <3>2
      <3>3. CASE PossibleDirectCallerEvent(snapshot) = Unknown
        <4>1. ToSet(<<alert>> \o acts) = {alert} \cup ToSet(acts)
          BY <2>2, ConsMembers
        <4> QED BY <2>3, <2>6, <3>1, <3>3, <4>1
      <3> QED BY <3>2, <3>3
    <2>16. Throttled => \E e \in warnings : IsAlert(e)
      BY <2>12, <2>15 DEF IsAlert
    <2>17. ASSUME warnings # {} PROVE \E e \in Range(Activity) : IsHighPriorityEvent(e)
      <3>1. CASE events = <<>> \/ ~compact \/ expanded
        <4>1. Range(Activity) = everything
          <5>1. CASE events = <<>>
            BY <2>8, <5>1 DEF everything, events, ActivityFeed
          <5>2. CASE ~compact
            BY <2>7, <2>8, <2>9, <5>2 DEF everything
          <5>3. CASE events # <<>> /\ compact /\ expanded
            BY <2>8, <5>3 DEF everything
          <5> QED BY <3>1, <5>1, <5>2, <5>3
        <4> QED BY <2>17, <4>1
      <3>2. CASE ~(events = <<>> \/ ~compact \/ expanded)
        <4>1. Activity = <<lead>>
          BY <2>8, <3>2
        <4>2. Range(<<lead>>) = {lead}
          BY DEF Range
        <4>3. IsHighPriorityEvent(lead)
          <5>1. CASE latest # Unknown
            BY <2>10, <2>13, <5>1
          <5>2. CASE latest = Unknown /\ events = acts
            <6>1. events[1] \in ToSet(events)
              <7>1. 1 \in 1 .. Len(events)
                BY <2>11, <3>2, EmptySeq, LenProperties
              <7> QED BY <2>11, <7>1, Members
            <6> QED BY <2>10, <2>12, <2>13, <2>17, <5>2, <6>1
          <5>3. CASE latest = Unknown /\ events[1] = alert
            BY <2>3, <2>13, <5>3
          <5> QED BY <2>11, <5>1, <5>2, <5>3
        <4> QED BY <4>1, <4>2, <4>3
      <3> QED BY <3>1, <3>2
    <2>18. Throttled /\ ~compact => \E e \in Range(Activity) : IsAlert(e)
      BY <2>5, <2>8, <2>15
    <2> QED BY <2>14, <2>16, <2>17, <2>18 DEF AlertReachable, everything, acts, compact
  <1> QED BY <1>1, PayloadInvAlways, PTL
-----------------------------------------------------------------------------
\* The result on display is what the reader makes of the answer behind it.
AuditInv ==
    audited # Unknown =>
        audited \in DOMAIN AuditResponses /\ audit = RunTrafficAudit(AuditResponses[audited])

\* The screen has good news of an audit only if it was carried out and said so
\* (api.ts:148-187, ActivityFeed.tsx:147-160), and names no venue the answer
\* did not, for any answers in any order.
THEOREM AuditHonestAlways == Spec => []AuditHonest
  <1>1. Init => AuditInv
    BY DEF Init, AuditInv
  <1>2. AuditInv /\ [Next]_vars => AuditInv'
    <2> SUFFICES ASSUME AuditInv, [Next]_vars PROVE AuditInv'
      OBVIOUS
    <2>1. ASSUME NEW a \in DOMAIN AuditResponses, AuditReturns(a) PROVE AuditInv'
      BY <2>1 DEF AuditReturns, AuditInv, Audits
    <2>2. ASSUME UNCHANGED <<audit, audited>> PROVE AuditInv'
      BY <2>2 DEF AuditInv
    <2>3. ASSUME NEW r \in DOMAIN Responses, Receive(r) \/ ControlReturns(r) PROVE AuditInv'
      BY <2>2, <2>3 DEF Receive, ControlReturns, audits
    <2>4. ASSUME NEW m \in Moments, Wait(m) \/ Tick(m) PROVE AuditInv'
      BY <2>2, <2>4 DEF Wait, Tick, audits
    <2>5. ASSUME NEW w \in Widths, Resize(w) PROVE AuditInv'
      BY <2>2, <2>5 DEF Resize, audits
    <2>6. CASE ToggleActivity \/ ToggleDetail \/ RunAudit
      BY <2>2, <2>6 DEF ToggleActivity, ToggleDetail, RunAudit, audits
    <2>7. CASE UNCHANGED vars
      BY <2>2, <2>7 DEF vars, audits
    <2> QED BY <2>1, <2>3, <2>4, <2>5, <2>6, <2>7 DEF Next
  <1>3. AuditInv => AuditHonest
    <2> SUFFICES ASSUME AuditInv, audited # Unknown PROVE AuditHonest
      BY DEF AuditHonest
    <2> DEFINE response == AuditResponses[audited]
               body == response.body
               list == ReadArray(Field(body, "findings"))
               read == [i \in DOMAIN list |-> ReadFinding(list[i])]
               word == Field(body, "status")
    <2>1. audited \in DOMAIN AuditResponses /\ audit = RunTrafficAudit(response)
      BY DEF AuditInv
    <2>2. \A v \in {body} \cup Within(body, {"findings"}) : WellFormedObject(v)
      BY <2>1, AuditAssumption
    <2>3. CASE response.status \notin 200 .. 299
      <3>1. audit.findings = <<>> /\ audit.status = "failed"
        BY <2>1, <2>3 DEF RunTrafficAudit
      <3> QED BY <3>1 DEF AuditHonest, AuditSays
    <2>4. CASE response.status \in 200 .. 299
      <3>1. /\ audit.status = IF IsWord(word, {"clear", "findings", "unavailable"})
                              THEN word.string ELSE "failed"
            /\ audit.findings = Kept(read)
        BY <2>1, <2>4 DEF RunTrafficAudit
      <3>2. WellFormedValue(word) /\ list \in Seq(Range(list))
        BY <2>2, FieldFormed
      <3>3. ASSUME AuditSays(audit) = "none visible" PROVE word = String("clear")
        <4>1. audit.status = "clear"
          BY <3>3 DEF AuditSays
        <4> HIDE DEF word
        <4> QED BY <3>1, <3>2, <4>1 DEF IsWord, WellFormedValue
      <3>4. ASSUME NEW f \in Range(audit.findings)
            PROVE  Called(Within(body, {"findings"}), {"venue"}, f.venue) # {}
        <4>1. f \in Range(read) /\ f # Unknown
          <5>1. DOMAIN read = DOMAIN list
            OBVIOUS
          <5> HIDE DEF read, list
          <5>2. Range(Kept(read)) = Range(read) \ {Unknown}
            BY <3>2, <5>1, ReadEntries
          <5> QED BY <3>1, <3>4, <5>2
        <4>2. PICK i \in DOMAIN list : f = ReadFinding(list[i])
          <5> HIDE DEF list
          <5> QED BY <4>1 DEF Range
        <4> DEFINE v == list[i]
        <4>3. v \in Within(body, {"findings"})
          BY DEF Within, Range
        <4>4. Field(v, "venue").is = "string" /\ f.venue = Field(v, "venue").string
          BY <4>1, <4>2 DEF ReadFinding
        <4>5. WellFormedValue(Field(v, "venue"))
          BY <2>2, <4>3, FieldFormed
        <4> HIDE DEF v
        <4>6. Field(v, "venue") = String(f.venue)
          BY <4>4, <4>5 DEF WellFormedValue
        <4> QED BY <4>3, <4>6 DEF Called
      <3> QED BY <2>4, <3>3, <3>4 DEF AuditHonest
    <2> QED BY <2>3, <2>4
  <1> QED BY <1>1, <1>2, <1>3, PTL DEF Spec
-----------------------------------------------------------------------------
(* Figures and the numbers they come from.                                 *)

LEMMA Rounding ==
    ASSUME NEW n \in Nat
    PROVE  /\ Round(n) \in Nat /\ Round(n) - n \in -50 .. 50
           /\ TrimNumber(n) \in Nat /\ TrimNumber(n) - n \in -5 .. 5
  <1>1. (n + 50) \div 100 \in Nat /\ 100 * ((n + 50) \div 100) <= n + 50
        /\ n + 50 < 100 * ((n + 50) \div 100) + 100
    OBVIOUS
  <1>2. (n + 5) \div 10 \in Nat /\ 10 * ((n + 5) \div 10) <= n + 5
        /\ n + 5 < 10 * ((n + 5) \div 10) + 10
    OBVIOUS
  <1>3. Round(n) \in Nat /\ Round(n) - n \in -50 .. 50
    BY <1>1 DEF Round
  <1>4. TrimNumber(n) = n \/ TrimNumber(n) = 10 * ((n + 5) \div 10)
    BY DEF TrimNumber
  <1> QED BY <1>2, <1>3, <1>4

\* Nothing is available where the bar has no fill.
LEMMA Empty ==
    ASSUME NEW c \in Nat, c # 0
    PROVE  (200 * 0 + c) \div (2 * c) = 0
  OBVIOUS

LEMMA FromNone ==
    ASSUME NEW N, NEW unit, NEW e
    PROVE  From(<<>>, N, unit, e)
  BY DEF From

LEMMA FromOne ==
    ASSUME NEW N, NEW unit, NEW e, NEW x, NEW n \in N, x - unit * n \in -e .. e
    PROVE  From(<<x>>, N, unit, e)
  BY DEF From

LEMMA FromBoth ==
    ASSUME NEW N, NEW unit, NEW e, NEW s \in Seq(Int), NEW t \in Seq(Int),
           From(s, N, unit, e), From(t, N, unit, e)
    PROVE  From(s \o t, N, unit, e)
  <1>1. /\ Len(s) \in Nat /\ Len(t) \in Nat
        /\ DOMAIN s = 1 .. Len(s) /\ DOMAIN t = 1 .. Len(t)
        /\ DOMAIN (s \o t) = 1 .. Len(s) + Len(t)
        /\ \A i \in 1 .. Len(s) + Len(t) :
            (s \o t)[i] = IF i <= Len(s) THEN s[i] ELSE t[i - Len(s)]
    BY ConcatProperties, LenProperties
  <1>2. ASSUME NEW i \in 1 .. Len(s) + Len(t)
        PROVE  \E n \in N : (s \o t)[i] - unit * n \in -e .. e
    <2>1. CASE i <= Len(s)
      <3>1. i \in DOMAIN s /\ (s \o t)[i] = s[i]
        BY <1>1, <2>1
      <3> QED BY <3>1 DEF From
    <2>2. CASE ~(i <= Len(s))
      <3>1. i - Len(s) \in DOMAIN t /\ (s \o t)[i] = t[i - Len(s)]
        BY <1>1, <2>2
      <3> QED BY <3>1 DEF From
    <2> QED BY <2>1, <2>2
  <1> QED BY <1>1, <1>2 DEF From

\* A number as it is sent, or nothing.
LEMMA FromKnown ==
    ASSUME NEW N, N \subseteq Nat, NEW x \in N \cup {Unknown}, NEW e \in Nat
    PROVE  From(Known(x), N, 1, e) /\ Known(x) \in Seq(Int)
  <1>1. CASE x = Unknown
    BY <1>1, FromNone DEF Known
  <1>2. CASE x # Unknown
    <2>1. x \in N /\ x \in Int /\ x - 1 * x \in -e .. e
      BY <1>2
    <2> QED BY <1>2, <2>1, FromOne DEF Known
  <1> QED BY <1>1, <1>2

\* A number that is read was sent, and what was not sent is Unknown.
LEMMA NumberRead ==
    ASSUME NEW values, NEW v \in values, WellFormedObject(v), NEW names,
           NEW f \in {Field(v, name) : name \in names}
    PROVE  ReadNumber(f) \in (Numbers(values, names) \cap Nat) \cup {Unknown}
  <1>1. PICK name \in names : f = Field(v, name)
    OBVIOUS
  <1>2. CASE f.is = "number"
    BY <1>1, <1>2, NumberIn, FieldFormed DEF ReadNumber, WellFormedValue
  <1>3. CASE f.is # "number"
    BY <1>3 DEF ReadNumber
  <1> QED BY <1>2, <1>3

LEMMA EitherRead ==
    ASSUME NEW values, NEW v \in values, WellFormedObject(v), NEW names,
           NEW a \in names, NEW b \in names
    PROVE  ReadNumber(Either(v, a, b)) \in (Numbers(values, names) \cap Nat) \cup {Unknown}
  <1>1. Either(v, a, b) \in {Field(v, name) : name \in names}
    BY DEF Either
  <1> QED BY <1>1, NumberRead

LEMMA FromMore ==
    ASSUME NEW N, NEW M, N \subseteq M, NEW figures, NEW unit, NEW e,
           From(figures, N, unit, e)
    PROVE  From(figures, M, unit, e)
  BY DEF From
-----------------------------------------------------------------------------
\* A budget was read from an entry of the payload that goes by its id, or has
\* no figures.
LEMMA BudgetsRead ==
    ASSUME PayloadInv, snapshot # Unknown, NEW k \in DOMAIN snapshot.budgets
    PROVE  LET b == snapshot.budgets[k]
               budgets == Called(Within(Payload, {"budgets"}), {"id", "budget"}, b.id)
           IN  \/ b = EmptyBudget(b.id)
               \/ \E v \in budgets : /\ WellFormedObject(v) /\ v.is = "object"
                                     /\ b = ReadBudget(v, b.id)
  <1> DEFINE b == snapshot.budgets[k]
             list == ReadArray(Field(Payload, "budgets"))
             id == BudgetIds[k]
             matches == {i \in DOMAIN list : /\ list[i].is = "object"
                                             /\ String(id) \in {Field(list[i], "id"),
                                                                Field(list[i], "budget")}}
             first == CHOOSE i \in matches : \A j \in matches : i <= j
  <1>1. WellFormed(Payload) /\ WellFormedObject(Payload)
    BY DEF PayloadInv, WellFormed
  <1>2. list \in Seq(Range(list)) /\ snapshot.budgets = ReadBudgets(list)
    BY <1>1, FieldFormed, Parsed DEF PayloadInv
  <1>3. k \in 1 .. 3
    BY <1>2 DEF ReadBudgets
  <1>4. b = IF matches = {} THEN EmptyBudget(id) ELSE ReadBudget(list[first], id)
    BY <1>2, <1>3 DEF ReadBudgets
  <1>5. CASE matches = {}
    BY <1>4, <1>5 DEF EmptyBudget
  <1>6. CASE matches # {}
    <2>1. first \in matches
      <3>1. matches \subseteq Nat
        BY <1>2, LenProperties
      <3> HIDE DEF matches
      <3> QED BY <1>6, <3>1, MinOfNats
    <2> DEFINE v == list[first]
    <2>2. /\ v \in Within(Payload, {"budgets"}) /\ v.is = "object"
          /\ String(id) \in {Field(v, "id"), Field(v, "budget")}
      <3>1. /\ first \in DOMAIN list /\ v.is = "object"
            /\ String(id) \in {Field(v, "id"), Field(v, "budget")}
        BY <2>1
      <3>2. Within(Payload, {"budgets"}) = Range(list)
        BY DEF Within
      <3> HIDE DEF first, list, id
      <3> QED BY <3>1, <3>2 DEF Range
    <2>3. WellFormedObject(v)
      BY <1>1, <2>2 DEF WellFormed
    <2> HIDE DEF v, matches, first
    <2>4. b = ReadBudget(v, id)
      BY <1>4, <1>6 DEF v
    <2>5. b.id = id
      BY <2>2, <2>4 DEF ReadBudget
    <2>6. v \in Called(Within(Payload, {"budgets"}), {"id", "budget"}, id)
      BY <2>2 DEF Called
    <2> HIDE DEF b, id
    <2> QED BY <2>2, <2>3, <2>4, <2>5, <2>6 DEF b
  <1> QED BY <1>5, <1>6

LEMMA BudgetFields ==
    ASSUME NEW v, v.is = "object", NEW id
    PROVE  LET b == ReadBudget(v, id)
           IN  /\ b.availableNow = ReadNumber(Either(v, "available_now", "availableNow"))
               /\ b.capacity = ReadNumber(Field(v, "capacity"))
               /\ b.queueDepth = ReadNumber(Either(v, "queue_depth", "queueDepth"))
               /\ b.refillPerSecond =
                    ReadNumber(Either(v, "refill_per_second", "refillPerSecond"))
               /\ b.recentPressureRatio =
                    ReadNumber(Either(v, "recent_pressure", "recentPressureRatio"))
               /\ b.health = IF Field(v, "configured") = Truth(FALSE) THEN "unconfigured"
                             ELSE ReadBudgetHealth(Field(v, "health"))
  BY DEF ReadBudget

\* Of a budget, the tone, the figures and the fill are the payload's.
LEMMA BudgetShown ==
    ASSUME PayloadInv, snapshot # Unknown, NEW k \in DOMAIN snapshot.budgets
    PROVE  BudgetFromPayload(snapshot.budgets[k])
  <1> DEFINE b == snapshot.budgets[k]
             budgets == Called(Within(Payload, {"budgets"}), {"id", "budget"}, b.id)
             card == BudgetCard(b)
             Sent(names) == Numbers(budgets, names) \cap Nat
             avail == {"available_now", "availableNow", "capacity"}
             depth == {"queue_depth", "queueDepth"}
             refill == {"refill_per_second", "refillPerSecond"}
             pressure == {"recent_pressure", "recentPressureRatio"}
  <1>1. \/ b = EmptyBudget(b.id)
        \/ \E v \in budgets : /\ WellFormedObject(v) /\ v.is = "object"
                              /\ b = ReadBudget(v, b.id)
    BY BudgetsRead
  <1>2. /\ b.availableNow \in Sent(avail) \cup {Unknown}
        /\ b.capacity \in Sent(avail) \cup {Unknown}
        /\ b.queueDepth \in Sent(depth) \cup {Unknown}
        /\ b.refillPerSecond \in Sent(refill) \cup {Unknown}
        /\ b.recentPressureRatio \in Sent(pressure) \cup {Unknown}
        /\ b.health = "healthy" => "healthy" \in Words(budgets, {"health"})
    <2>1. CASE b = EmptyBudget(b.id)
      <3> HIDE DEF b
      <3> QED BY <2>1 DEF EmptyBudget
    <2>2. CASE \E v \in budgets : /\ WellFormedObject(v) /\ v.is = "object"
                                  /\ b = ReadBudget(v, b.id)
      <3>1. PICK v \in budgets : /\ WellFormedObject(v) /\ v.is = "object"
                                 /\ b = ReadBudget(v, b.id)
        BY <2>2
      <3> HIDE DEF b, budgets
      <3>2. /\ b.availableNow = ReadNumber(Either(v, "available_now", "availableNow"))
            /\ b.capacity = ReadNumber(Field(v, "capacity"))
            /\ b.queueDepth = ReadNumber(Either(v, "queue_depth", "queueDepth"))
            /\ b.refillPerSecond = ReadNumber(Either(v, "refill_per_second", "refillPerSecond"))
            /\ b.recentPressureRatio =
                    ReadNumber(Either(v, "recent_pressure", "recentPressureRatio"))
            /\ b.health = IF Field(v, "configured") = Truth(FALSE) THEN "unconfigured"
                          ELSE ReadBudgetHealth(Field(v, "health"))
        BY <3>1, BudgetFields
      <3>0. \A names : \A x, y \in names :
                ReadNumber(Either(v, x, y)) \in Sent(names) \cup {Unknown}
        BY <3>1, EitherRead
      <3>3. b.health = "healthy" => "healthy" \in Words(budgets, {"health"})
        <4>1. ASSUME b.health = "healthy"
              PROVE  Field(v, "health").is = "string" /\ Field(v, "health").string = "healthy"
          BY <3>2, <4>1 DEF ReadBudgetHealth, IsWord
        <4> QED BY <4>1, WordIn
      <3>4. b.capacity \in Sent(avail) \cup {Unknown}
        BY <3>1, <3>2, NumberRead
      <3>5. b.availableNow \in Sent(avail) \cup {Unknown}
        BY <3>2, <3>0
      <3>6. b.queueDepth \in Sent(depth) \cup {Unknown}
        BY <3>2, <3>0
      <3>7. b.refillPerSecond \in Sent(refill) \cup {Unknown}
        BY <3>2, <3>0
      <3>8. b.recentPressureRatio \in Sent(pressure) \cup {Unknown}
        BY <3>2, <3>0
      <3> QED BY <3>3, <3>4, <3>5, <3>6, <3>7, <3>8
    <2> QED BY <1>1, <2>1, <2>2
  <1>3. /\ card.tone = BudgetTone(b)
        /\ card.available = FormatAvailable(b)
        /\ card.queueDepth = FormatQueueDepth(b)
        /\ card.refill \in {FormatRefill(b), <<>>}
        /\ card.pressure \in {FormatBudgetPressure(b), <<>>}
        /\ card.fill = IF IsBudgetReadable(b) THEN CapacityPercent(b) ELSE 0
    BY DEF BudgetCard
  <1>4. Unknown \notin Nat
    BY ScreenAssumption
  <1> HIDE DEF b, card
  <1>5. card.tone = "healthy" => "healthy" \in Words(budgets, {"health"})
    BY <1>2, <1>3 DEF BudgetTone
  <1> DEFINE N == Sent(avail)
  <1>6. From(card.available, Numbers(budgets, avail), 1, 0)
    <2>1. From(<<>>, N, 1, 0)
      BY FromNone
    <2>2. /\ From(Known(b.availableNow), N, 1, 0) /\ Known(b.availableNow) \in Seq(Int)
          /\ From(Known(b.capacity), N, 1, 0) /\ Known(b.capacity) \in Seq(Int)
      <3>1. N \subseteq Nat /\ b.availableNow \in N \cup {Unknown} /\ b.capacity \in N \cup {Unknown}
        BY <1>2
      <3> HIDE DEF N
      <3> QED BY <3>1, FromKnown
    <2>3. From(Known(b.availableNow) \o Known(b.capacity), N, 1, 0)
      BY <2>2, FromBoth
    <2>4. From(card.available, N, 1, 0)
      BY <1>3, <2>1, <2>3 DEF FormatAvailable
    <2>5. N \subseteq Numbers(budgets, avail)
      OBVIOUS
    <2> HIDE DEF N
    <2> QED BY <2>4, <2>5, FromMore
  <1>7. From(card.queueDepth, Numbers(budgets, depth), 1, 0)
    <2> DEFINE M == Sent(depth)
    <2>1. M \subseteq Nat /\ M \subseteq Numbers(budgets, depth) /\ b.queueDepth \in M \cup {Unknown}
      BY <1>2
    <2> HIDE DEF M
    <2>2. From(<<>>, M, 1, 0) /\ From(Known(b.queueDepth), M, 1, 0)
      BY <2>1, FromNone, FromKnown
    <2>3. From(card.queueDepth, M, 1, 0)
      BY <1>3, <2>2 DEF FormatQueueDepth
    <2> QED BY <2>1, <2>3, FromMore
  <1>8. From(card.refill, Numbers(budgets, refill), 1, 5)
    <2> DEFINE M == Sent(refill)
               n == b.refillPerSecond
    <2>1. M \subseteq Nat /\ M \subseteq Numbers(budgets, refill) /\ n \in M \cup {Unknown}
      BY <1>2
    <2> HIDE DEF M, n
    <2>2. ASSUME n # Unknown PROVE From(<<TrimNumber(n)>>, M, 1, 5)
      <3>1. n \in M /\ n \in Nat
        BY <2>1, <2>2
      <3>2. TrimNumber(n) - 1 * n \in -5 .. 5
        BY <3>1, Rounding
      <3> QED BY <3>1, <3>2, FromOne
    <2>3. From(card.refill, M, 1, 5)
      BY <1>3, <2>2, FromNone DEF FormatRefill, n
    <2> QED BY <2>1, <2>3, FromMore
  <1>9. From(card.pressure, Numbers(budgets, pressure), 100, 50)
    <2> DEFINE M == Sent(pressure)
               n == b.recentPressureRatio
    <2>1. M \subseteq Nat /\ M \subseteq Numbers(budgets, pressure) /\ n \in M \cup {Unknown}
      BY <1>2
    <2> HIDE DEF M, n
    <2>2. ASSUME n # Unknown PROVE From(<<Round(100 * n)>>, M, 100, 50)
      <3>1. n \in M /\ n \in Nat /\ 100 * n \in Nat
        BY <2>1, <2>2
      <3>2. Round(100 * n) - 100 * n \in -50 .. 50
        BY <3>1, Rounding
      <3> QED BY <3>1, <3>2, FromOne
    <2>3. From(card.pressure, M, 100, 50)
      BY <1>3, <2>2, FromNone DEF FormatBudgetPressure, n
    <2> QED BY <2>1, <2>3, FromMore
  <1>10. ASSUME card.fill > 0
         PROVE  0 \notin {Len(FormatAvailable(b)), FormatAvailable(b)[1]}
    <2>1. IsBudgetReadable(b) /\ CapacityPercent(b) > 0
      BY <1>3, <1>10
    <2>2. /\ b.availableNow # Unknown /\ b.capacity # Unknown /\ b.capacity # 0
          /\ b.availableNow \in Nat /\ b.capacity \in Nat
      BY <1>2, <2>1 DEF CapacityPercent
    <2>3. ASSUME b.availableNow = 0 PROVE FALSE
      <3>1. (200 * b.availableNow + b.capacity) \div (2 * b.capacity) = 0
        BY <2>2, <2>3, Empty
      <3>2. CapacityPercent(b) = 0
        BY <2>2, <3>1 DEF CapacityPercent
      <3> QED BY <2>1, <3>2
    <2>4. FormatAvailable(b) = <<b.availableNow>> \o <<b.capacity>>
      BY <2>1, <2>2 DEF FormatAvailable, Known
    <2>5. Len(FormatAvailable(b)) = 2 /\ FormatAvailable(b)[1] = b.availableNow
      <3> DEFINE s == <<b.availableNow>>
                 t == <<b.capacity>>
      <3>1. s \in Seq(Nat) /\ t \in Seq(Nat) /\ Len(s) = 1 /\ Len(t) = 1
            /\ s[1] = b.availableNow
        BY <2>2
      <3> HIDE DEF s, t
      <3>2. /\ Len(s \o t) = Len(s) + Len(t)
            /\ \A i \in 1 .. Len(s) + Len(t) :
                (s \o t)[i] = IF i <= Len(s) THEN s[i] ELSE t[i - Len(s)]
        BY <3>1, ConcatProperties
      <3>3. Len(s \o t) = 2 /\ (s \o t)[1] = s[1]
        BY <3>1, <3>2
      <3> QED BY <2>4, <3>1, <3>3 DEF s, t
    <2> QED BY <2>2, <2>3, <2>5
  <1> QED BY <1>5, <1>6, <1>7, <1>8, <1>9, <1>10 DEF BudgetFromPayload, card, b
-----------------------------------------------------------------------------
LEMMA RowFields ==
    ASSUME NEW v, ReadAppRow(v) # Unknown
    PROVE  LET app == ReadAppRow(v)
               series == ReadArray(Either(v, "request_series", "requestSeries"))
               split == ReadArray(Either(v, "venue_split", "venueSplit"))
           IN  /\ app.recentRequests = ReadNumber(Either(v, "recent_requests", "recentRequests"))
               /\ app.recentWindowSeconds =
                    ReadNumber(Either(v, "recent_window_seconds", "recentWindowSeconds"))
               /\ app.queueWaitMs = ReadNumber(Either(v, "queue_wait_ms", "queueWaitMs"))
               /\ app.errors = ReadNumber(Field(v, "errors"))
               /\ app.requestSeries = [i \in DOMAIN series |-> ReadCount(series[i])]
               /\ app.venueSplit = Kept([i \in DOMAIN split |-> ReadVenueSplit(split[i])])
  BY DEF ReadAppRow

\* The entries of a list under either of two names are entries of the object.
LEMMA EitherList ==
    ASSUME NEW v, WellFormedObject(v), NEW a, NEW b
    PROVE  LET list == ReadArray(Either(v, a, b))
           IN  /\ list \in Seq(Range(list))
               /\ Range(list) \subseteq Within(v, {a, b})
               /\ \A e \in Range(list) : WellFormedValue(e)
  <1>1. PICK name \in {a, b} : Either(v, a, b) = Field(v, name)
    BY DEF Either
  <1>2. Range(ReadArray(Field(v, name))) \subseteq Within(v, {a, b})
    BY DEF Within
  <1> QED BY <1>1, <1>2, FieldFormed

\* Of a row, the figures in the table are the payload's.
LEMMA RowShown ==
    ASSUME PayloadInv, snapshot # Unknown, NEW app \in Rows,
           NEW v \in Called(Within(Payload, {"apps"}), {"app_id", "appId"}, app.appId),
           WellFormedObject(v), app = ReadAppRow(v), ReadAppRow(v) # Unknown
    PROVE  LET apps == Called(Within(Payload, {"apps"}), {"app_id", "appId"}, app.appId)
               row == TableRow(app)
           IN  /\ From(row.requests \o row.summary,
                       Numbers(apps, {"recent_requests", "recentRequests",
                                      "recent_window_seconds", "recentWindowSeconds"}), 1, 0)
               /\ From(row.wait, Numbers(apps, {"queue_wait_ms", "queueWaitMs"}), 1, 50)
               /\ From(row.errors, Numbers(apps, {"errors"}), 1, 0)
  <1> DEFINE apps == Called(Within(Payload, {"apps"}), {"app_id", "appId"}, app.appId)
             row == TableRow(app)
             Sent(names) == Numbers(apps, names) \cap Nat
             requests == {"recent_requests", "recentRequests",
                          "recent_window_seconds", "recentWindowSeconds"}
             waits == {"queue_wait_ms", "queueWaitMs"}
             r == app.recentRequests
             w == app.recentWindowSeconds
             wait == app.queueWaitMs
             errors == app.errors
  <1>1. /\ row.requests = FormatRecentRequests(app)
        /\ row.wait = FormatQueueWait(app.queueWaitMs)
        /\ row.errors = FormatErrors(app)
        /\ row.summary \in {DescribeRequestSeries(app), <<>>}
    BY DEF TableRow
  <1>2. \A names : \A x, y \in names :
            ReadNumber(Either(v, x, y)) \in Sent(names) \cup {Unknown}
    BY EitherRead
  <1>3. ReadNumber(Field(v, "errors")) \in Sent({"errors"}) \cup {Unknown}
    BY NumberRead
  <1>4. /\ r = ReadNumber(Either(v, "recent_requests", "recentRequests"))
        /\ w = ReadNumber(Either(v, "recent_window_seconds", "recentWindowSeconds"))
        /\ wait = ReadNumber(Either(v, "queue_wait_ms", "queueWaitMs"))
        /\ errors = ReadNumber(Field(v, "errors"))
    BY RowFields
  <1> HIDE DEF apps, row, r, w, wait, errors
  <1>5. From(row.requests \o row.summary, Numbers(apps, requests), 1, 0)
    <2> DEFINE N == Sent(requests)
    <2>1. N \subseteq Nat /\ N \subseteq Numbers(apps, requests)
          /\ r \in N \cup {Unknown} /\ w \in N \cup {Unknown}
      BY <1>2, <1>4
    <2> HIDE DEF N
    <2>2. /\ From(Known(r), N, 1, 0) /\ Known(r) \in Seq(Int)
          /\ From(Known(w), N, 1, 0) /\ Known(w) \in Seq(Int)
      BY <2>1, FromKnown
    <2>3. From(Known(r) \o Known(w), N, 1, 0) /\ Known(r) \o Known(w) \in Seq(Int)
      BY <2>2, FromBoth, ConcatProperties
    <2>4. From(<<>>, N, 1, 0) /\ <<>> \in Seq(Int)
      BY FromNone
    <2>5. From(row.requests, N, 1, 0) /\ row.requests \in Seq(Int)
      BY <1>1, <2>3, <2>4 DEF FormatRecentRequests, r, w
    <2>6. ASSUME r # Unknown, w # Unknown
          PROVE  From(<<r, w>>, N, 1, 0) /\ <<r, w>> \in Seq(Int)
      <3>1. r \in N /\ w \in N /\ r \in Int /\ w \in Int /\ r - 1 * r = 0 /\ w - 1 * w = 0
        BY <2>1, <2>6
      <3>2. DOMAIN <<r, w>> = {1, 2} /\ <<r, w>>[1] = r /\ <<r, w>>[2] = w
        OBVIOUS
      <3>3. 0 \in -0 .. 0
        OBVIOUS
      <3> QED BY <3>1, <3>2, <3>3 DEF From
    <2>7. From(row.summary, N, 1, 0) /\ row.summary \in Seq(Int)
      BY <1>1, <2>4, <2>6 DEF DescribeRequestSeries, r, w
    <2>8. From(row.requests \o row.summary, N, 1, 0)
      BY <2>5, <2>7, FromBoth
    <2> QED BY <2>1, <2>8, FromMore
  <1>6. From(row.wait, Numbers(apps, waits), 1, 50)
    <2> DEFINE N == Sent(waits)
    <2>1. N \subseteq Nat /\ N \subseteq Numbers(apps, waits) /\ wait \in N \cup {Unknown}
      BY <1>2, <1>4
    <2> HIDE DEF N
    <2>2. ASSUME wait # Unknown PROVE From(<<Round(wait)>>, N, 1, 50)
      <3>1. wait \in N /\ wait \in Nat
        BY <2>1, <2>2
      <3>2. Round(wait) - 1 * wait \in -50 .. 50
        BY <3>1, Rounding
      <3> QED BY <3>1, <3>2, FromOne
    <2>3. From(row.wait, N, 1, 50)
      BY <1>1, <2>2, FromNone DEF FormatQueueWait, wait
    <2> QED BY <2>1, <2>3, FromMore
  <1>7. From(row.errors, Numbers(apps, {"errors"}), 1, 0)
    <2> DEFINE N == Sent({"errors"})
    <2>1. N \subseteq Nat /\ N \subseteq Numbers(apps, {"errors"}) /\ errors \in N \cup {Unknown}
      BY <1>3, <1>4
    <2> HIDE DEF N
    <2>2. From(row.errors, N, 1, 0)
      BY <1>1, <2>1, FromKnown DEF FormatErrors, errors
    <2> QED BY <2>1, <2>2, FromMore
  <1> QED BY <1>5, <1>6, <1>7 DEF apps, row
-----------------------------------------------------------------------------
\* A bar stands for a number of the series; what is Unknown has no bar.
LEMMA BarsShown ==
    ASSUME NEW app, NEW v, WellFormedObject(v), app = ReadAppRow(v), ReadAppRow(v) # Unknown,
           NEW g \in TableRow(app).graphics, NEW i \in DOMAIN app.requestSeries,
           i \in DOMAIN g.bars
    PROVE  \E u \in Within(v, {"request_series", "requestSeries"}) :
                u.is = "number" /\ g.values[i] - u.number \in -50 .. 50
  <1> DEFINE list == ReadArray(Either(v, "request_series", "requestSeries"))
             values == app.requestSeries
  <1>1. values = [j \in DOMAIN list |-> ReadCount(list[j])]
    BY RowFields
  <1>2. list \in Seq(Range(list)) /\ \A e \in Range(list) :
            e \in Within(v, {"request_series", "requestSeries"}) /\ WellFormedValue(e)
    BY EitherList
  <1>3. g = Graphic(values, "bars", 48, 14)
    BY DEF TableRow
  <1> DEFINE drawn == IF Len(values) >= 2 THEN values ELSE <<>>
  <1>4. g.values = drawn /\ g.bars = DistributionBars(drawn, 48, 14)
    BY <1>3 DEF Graphic
  <1>5. DOMAIN g.bars = {j \in 1 .. Len(drawn) : drawn[j] # Unknown}
    BY <1>4 DEF DistributionBars
  <1>6. drawn = values
    <2>1. drawn # <<>>
      BY <1>5
    <2> QED BY <2>1
  <1>7. i \in DOMAIN list /\ g.values[i] = ReadCount(list[i]) /\ ReadCount(list[i]) # Unknown
    <2> HIDE DEF list, drawn
    <2>1. g.values[i] = values[i] /\ values[i] # Unknown
      BY <1>4, <1>5, <1>6
    <2> QED BY <1>1, <2>1
  <1> DEFINE u == list[i]
  <1>8. u \in Range(list)
    BY <1>7 DEF Range
  <1> HIDE DEF u, list, values, drawn
  <1>9. u.is = "number" /\ u.number \in Nat
    <2>1. u.is = "number"
      BY <1>7 DEF ReadCount, ReadNumber, u
    <2> QED BY <1>2, <1>8, <2>1 DEF WellFormedValue
  <1>10. g.values[i] = Round(u.number)
    <2>1. ReadNumber(u) = u.number
      BY <1>9 DEF ReadNumber
    <2>2. Round(u.number) \in Nat
      BY <1>9, Rounding
    <2> QED BY <1>7, <2>1, <2>2 DEF ReadCount, u
  <1> QED BY <1>2, <1>8, <1>9, <1>10, Rounding

\* Of a venue in the details, the counts and the wait are the payload's, but
\* for a count that is missing, which is a zero (contracts.ts:308).
LEMMA VenueShown ==
    ASSUME NEW x, WellFormedObject(x), ReadVenueSplit(x) # Unknown,
           NEW venues, x \in venues
    PROVE  LET split == ReadVenueSplit(x)
           IN  From(VenueCounts(split) \o VenueWait(split),
                    {0} \cup Numbers(venues, {"count", "upstream_429s", "upstream429s",
                                              "headroom_429s", "headroom429s",
                                              "queue_wait_ms", "queueWaitMs"}), 1, 50)
  <1> DEFINE names == {"count", "upstream_429s", "upstream429s", "headroom_429s",
                       "headroom429s", "queue_wait_ms", "queueWaitMs"}
             split == ReadVenueSplit(x)
             N == {0} \cup (Numbers(venues, names) \cap Nat)
             upstream == split.upstream429s
             headroom == split.headroom429s
             wait == split.queueWaitMs
  <1>1. \A a, b \in names :
            ReadNumber(Either(x, a, b)) \in (Numbers(venues, names) \cap Nat) \cup {Unknown}
    BY EitherRead, ZenonT(30)
  <1>2. ReadNumber(Field(x, "count")) \in (Numbers(venues, names) \cap Nat) \cup {Unknown}
    BY NumberRead
  <1>3. /\ split.count = Or(ReadNumber(Field(x, "count")), 0)
        /\ upstream = ReadNumber(Either(x, "upstream_429s", "upstream429s"))
        /\ headroom = ReadNumber(Either(x, "headroom_429s", "headroom429s"))
        /\ wait = ReadNumber(Either(x, "queue_wait_ms", "queueWaitMs"))
    BY DEF ReadVenueSplit
  <1>4. /\ split.count \in N /\ upstream \in N \cup {Unknown}
        /\ headroom \in N \cup {Unknown} /\ wait \in N \cup {Unknown}
    BY <1>1, <1>2, <1>3 DEF Or
  <1>5. N \subseteq Nat /\ N \subseteq {0} \cup Numbers(venues, names)
    OBVIOUS
  <1>6. /\ VenueCounts(split) = <<split.count>> \o Known(upstream) \o Known(headroom)
        /\ VenueWait(split) = IF wait = Unknown THEN <<>> ELSE <<Round(wait)>>
    BY DEF VenueCounts, VenueWait, FormatQueueWait
  <1> DEFINE count == split.count
  <1>7. count \in N /\ VenueCounts(split) = <<count>> \o Known(upstream) \o Known(headroom)
    BY <1>4, <1>6
  <1> HIDE DEF N, upstream, headroom, wait, split, count, names
  <1>8. From(<<count>>, N, 1, 50) /\ <<count>> \in Seq(Int)
    <2>1. count \in Int /\ count - 1 * count \in -50 .. 50
      BY <1>5, <1>7
    <2> QED BY <1>7, <2>1, FromOne
  <1>9. /\ From(Known(upstream), N, 1, 50) /\ Known(upstream) \in Seq(Int)
        /\ From(Known(headroom), N, 1, 50) /\ Known(headroom) \in Seq(Int)
    BY <1>4, <1>5, FromKnown
  <1>10. From(VenueCounts(split), N, 1, 50) /\ VenueCounts(split) \in Seq(Int)
    <2> DEFINE s == <<count>> \o Known(upstream)
    <2>1. From(s, N, 1, 50) /\ s \in Seq(Int)
      BY <1>8, <1>9, FromBoth, ConcatProperties
    <2>2. VenueCounts(split) = s \o Known(headroom)
      BY <1>7
    <2> HIDE DEF s
    <2> QED BY <1>9, <2>1, <2>2, FromBoth, ConcatProperties
  <1>11. From(VenueWait(split), N, 1, 50) /\ VenueWait(split) \in Seq(Int)
    <2>1. CASE wait = Unknown
      BY <1>6, <2>1, FromNone
    <2>2. CASE wait # Unknown
      <3>1. wait \in N /\ wait \in Nat
        BY <1>4, <1>5, <2>2
      <3>2. Round(wait) - 1 * wait \in -50 .. 50 /\ Round(wait) \in Int
        BY <3>1, Rounding
      <3>3. From(<<Round(wait)>>, N, 1, 50) /\ <<Round(wait)>> \in Seq(Int)
        BY <3>1, <3>2, FromOne
      <3> QED BY <1>6, <2>2, <3>3
    <2> QED BY <2>1, <2>2
  <1>12. From(VenueCounts(split) \o VenueWait(split), N, 1, 50)
    BY <1>10, <1>11, FromBoth
  <1> QED BY <1>5, <1>12, FromMore DEF split, names

LEMMA AppShown ==
    ASSUME PayloadInv, snapshot # Unknown, NEW app \in Rows
    PROVE  AppFromPayload(app)
  <1> DEFINE apps == Called(Within(Payload, {"apps"}), {"app_id", "appId"}, app.appId)
             samples(v) == Within(v, {"request_series", "requestSeries"})
             venues == UNION {Within(v, {"venue_split", "venueSplit"}) : v \in apps}
             sums == {"count", "upstream_429s", "upstream429s", "headroom_429s",
                      "headroom429s", "queue_wait_ms", "queueWaitMs"}
             bars == {x.number : x \in {u \in UNION {samples(y) : y \in apps} :
                                            u.is = "number"}}
  <1>1. PICK v \in apps : WellFormedObject(v) /\ app = ReadAppRow(v) /\ ReadAppRow(v) # Unknown
    BY RowRead
  <1>2. /\ From(TableRow(app).requests \o TableRow(app).summary,
                Numbers(apps, {"recent_requests", "recentRequests",
                               "recent_window_seconds", "recentWindowSeconds"}), 1, 0)
        /\ From(TableRow(app).wait, Numbers(apps, {"queue_wait_ms", "queueWaitMs"}), 1, 50)
        /\ From(TableRow(app).errors, Numbers(apps, {"errors"}), 1, 0)
    BY <1>1, RowShown
  <1>3. ASSUME NEW g \in TableRow(app).graphics, NEW i \in DOMAIN app.requestSeries,
               i \in DOMAIN g.bars
        PROVE  From(<<g.values[i]>>, bars, 1, 50)
    <2>1. PICK u \in samples(v) : u.is = "number" /\ g.values[i] - u.number \in -50 .. 50
      BY <1>1, <1>3, BarsShown
    <2>2. u.number \in bars
      BY <2>1
    <2>3. u.number \in Nat
      <3>1. PICK name \in {"request_series", "requestSeries"} :
                u \in Range(ReadArray(Field(v, name)))
        BY DEF Within
      <3> QED BY <1>1, <2>1, <3>1, FieldFormed DEF WellFormedValue
    <2> HIDE DEF bars
    <2>4. 1 * u.number = u.number
      BY <2>3
    <2> QED BY <2>1, <2>2, <2>4, FromOne
  <1>4. ASSUME app \in Unfolded, NEW i \in DOMAIN app.venueSplit
        PROVE  From(AppDetail(app).venues[i], {0} \cup Numbers(venues, sums), 1, 50)
    <2> DEFINE list == ReadArray(Either(v, "venue_split", "venueSplit"))
               read == [j \in DOMAIN list |-> ReadVenueSplit(list[j])]
               split == app.venueSplit[i]
    <2>1. app.venueSplit = Kept(read)
      BY <1>1, RowFields
    <2>2. list \in Seq(Range(list)) /\ Range(list) \subseteq Within(v, {"venue_split", "venueSplit"})
      BY <1>1, EitherList
    <2>3. split \in Range(read) /\ split # Unknown
      <3>1. DOMAIN read = DOMAIN list
        OBVIOUS
      <3> HIDE DEF read, list
      <3>2. Range(Kept(read)) = Range(read) \ {Unknown}
        BY <2>2, <3>1, ReadEntries
      <3>3. split \in Range(Kept(read))
        BY <1>4, <2>1 DEF Range
      <3> QED BY <3>2, <3>3
    <2>4. PICK j \in DOMAIN list : split = ReadVenueSplit(list[j])
      <3> HIDE DEF list, split
      <3> QED BY <2>3 DEF Range
    <2> DEFINE x == list[j]
    <2>5. x \in Range(list)
      BY DEF Range
    <2> HIDE DEF list, read, split, x
    <2>6. x \in venues
      BY <2>2, <2>5
    <2>7. WellFormedObject(x)
      <3>1. WellFormed(Payload) /\ v \in Within(Payload, {"apps"})
        BY DEF PayloadInv, Called
      <3> QED BY <2>2, <2>5, <3>1 DEF WellFormed
    <2>8. From(VenueCounts(split) \o VenueWait(split), {0} \cup Numbers(venues, sums), 1, 50)
      BY <2>3, <2>4, <2>6, <2>7, VenueShown DEF x
    <2>9. AppDetail(app).venues[i] = VenueCounts(split) \o VenueWait(split)
      BY <1>4 DEF AppDetail, split
    <2> QED BY <2>8, <2>9
  <1> QED BY <1>2, <1>3, <1>4 DEF AppFromPayload

\* No figure on the screen is anything but a number the Governor sent for it
\* (contracts.ts, derive.ts), for any well-formed payloads in any order.
THEOREM NothingInventedAlways == Spec => []NothingInvented
  <1>1. PayloadInv => NothingInvented
    <2> SUFFICES ASSUME PayloadInv, snapshot # Unknown PROVE NothingInvented
      BY DEF NothingInvented
    <2>1. Field(Payload, "schemaVersion") = Number(SchemaVersion)
      BY Parsed DEF PayloadInv
    <2>2. \A k \in DOMAIN snapshot.budgets : BudgetFromPayload(snapshot.budgets[k])
      BY BudgetShown
    <2>3. \A k \in DOMAIN snapshot.apps : AppFromPayload(snapshot.apps[k])
      BY AppShown DEF Rows, Range
    <2> QED BY <2>1, <2>2, <2>3 DEF NothingInvented
  <1> QED BY <1>1, PayloadInvAlways, PTL
-----------------------------------------------------------------------------
(* The charts.                                                             *)
\* Products with a common factor are ordered as the others are.
LEMMA Multiples ==
    ASSUME NEW b \in Nat, NEW m \in Int, NEW n \in Int, m <= n
    PROVE  m * b <= n * b /\ b * m <= b * n /\ m * b \in Int /\ b * m \in Int
  OBVIOUS

\* What Math.round does to a quotient, and how it compares with a whole number:
\* the bounds of a chart are shown in products, without division.
LEMMA RoundedBetween ==
    ASSUME NEW a \in Int, NEW b \in Nat \ {0}
    PROVE  /\ Rounded(a, b) \in Int
           /\ b * (2 * Rounded(a, b)) <= 2 * a + b
           /\ 2 * a + b < b * (2 * Rounded(a, b)) + 2 * b
  <1> DEFINE c == 2 * b
             d == 2 * a + b
             k == d \div c
  <1>1. c \in Nat \ {0} /\ d \in Int
    OBVIOUS
  <1>2. k \in Int /\ c * k <= d /\ d < c * k + c
    <2> HIDE DEF c, d
    <2> QED BY <1>1
  <1>3. c * k = b * (2 * k)
    BY <1>2
  <1>4. k = Rounded(a, b)
    BY DEF Rounded
  <1> QED BY <1>2, <1>3, <1>4

LEMMA RoundedAtLeast ==
    ASSUME NEW a \in Int, NEW b \in Nat \ {0}, NEW m \in Int, b * (2 * m) <= 2 * a + b
    PROVE  m <= Rounded(a, b)
  <1> DEFINE k == Rounded(a, b)
  <1>1. k \in Int /\ 2 * a + b < b * (2 * k) + 2 * b
    BY RoundedBetween
  <1> SUFFICES ASSUME k < m PROVE FALSE
    BY <1>1
  <1> HIDE DEF k
  <1>2. 2 * (k + 1) <= 2 * m /\ 2 * (k + 1) \in Int /\ 2 * m \in Int
    BY <1>1
  <1>3. b * (2 * (k + 1)) <= b * (2 * m)
    BY <1>2, Multiples
  <1>4. b * (2 * (k + 1)) = b * (2 * k) + 2 * b
    BY <1>1
  <1> QED BY <1>1, <1>3, <1>4

LEMMA RoundedAtMost ==
    ASSUME NEW a \in Int, NEW b \in Nat \ {0}, NEW m \in Int, 2 * a + b < b * (2 * m) + 2 * b
    PROVE  Rounded(a, b) <= m
  <1> DEFINE k == Rounded(a, b)
  <1>1. k \in Int /\ b * (2 * k) <= 2 * a + b
    BY RoundedBetween
  <1> SUFFICES ASSUME m < k PROVE FALSE
    BY <1>1
  <1> HIDE DEF k
  <1>2. 2 * (m + 1) <= 2 * k /\ 2 * (m + 1) \in Int /\ 2 * k \in Int
    BY <1>1
  <1>3. b * (2 * (m + 1)) <= b * (2 * k)
    BY <1>2, Multiples
  <1>4. b * (2 * (m + 1)) = b * (2 * m) + 2 * b
    BY <1>1
  <1> QED BY <1>1, <1>3, <1>4

\* Of two quotients by the same, the larger is rounded to no less.
LEMMA RoundedMonotone ==
    ASSUME NEW a \in Int, NEW c \in Int, a <= c, NEW b \in Nat \ {0}
    PROVE  Rounded(a, b) <= Rounded(c, b)
  <1> DEFINE k == Rounded(a, b)
  <1>1. k \in Int /\ b * (2 * k) <= 2 * a + b
    BY RoundedBetween
  <1>2. b * (2 * k) \in Int
    BY <1>1
  <1> HIDE DEF k
  <1>3. b * (2 * k) <= 2 * c + b
    BY <1>1, <1>2
  <1>4. k <= Rounded(c, b)
    BY <1>1, <1>3, RoundedAtLeast
  <1> QED BY <1>4 DEF k

\* A finite set of naturals has a greatest.
LEMMA MaxOfNats ==
    ASSUME NEW S, S \subseteq Nat, IsFiniteSet(S), S # {}
    PROVE  \E m \in S : \A n \in S : m >= n
  <1>1. Cardinality(S) \in Nat /\ Cardinality(S) # 0
    BY FS_CardinalityType, FS_EmptySet
  <1>2. Cardinality(S) \in 1 .. Cardinality(S)
    BY <1>1
  <1>3. PICK m \in S : Cardinality({n \in S : n <= m}) = Cardinality(S)
    BY <1>2, Ranks
  <1>4. {n \in S : n <= m} = S
    <2>1. {n \in S : n <= m} \in SUBSET S
      OBVIOUS
    <2> QED BY <1>3, <2>1, FS_Subset
  <1>5. \A n \in S : n <= m
    BY <1>4
  <1> QED BY <1>5

\* The least and the greatest value of a series in which something was measured.
LEMMA Extremes ==
    ASSUME NEW n \in Nat, NEW s, DOMAIN s = 1 .. n, Range(s) \subseteq Nat \cup {Unknown},
           NEW i \in DOMAIN s, s[i] # Unknown,
           NEW V, V = ValuesOf(s)
    PROVE  /\ IsFiniteSet(V) /\ V # {} /\ V \subseteq Nat
           /\ Min(V) \in V /\ \A v \in V : Min(V) <= v
           /\ Max(V) \in V /\ \A v \in V : v <= Max(V)
  <1>1. V = {s[j] : j \in 1 .. n} \ {Unknown}
    BY DEF ValuesOf
  <1>2. IsFiniteSet(V)
    <2> DEFINE T == {s[j] : j \in 1 .. n}
               f == [j \in 1 .. n |-> s[j]]
    <2>1. IsFiniteSet(1 .. n)
      BY FS_Interval
    <2>2. f \in Surjection(1 .. n, T)
      BY DEF Surjection
    <2>3. V \in SUBSET T
      BY <1>1
    <2> HIDE DEF T, f
    <2>4. IsFiniteSet(T)
      BY <2>1, <2>2, FS_Surjection
    <2> QED BY <2>3, <2>4, FS_Subset
  <1>3. V # {} /\ V \subseteq Nat
    BY <1>1 DEF Range
  <1>4. Min(V) \in V /\ \A v \in V : Min(V) <= v
    BY <1>3, MinOfNats DEF Min
  <1>5. Max(V) \in V /\ \A v \in V : Max(V) >= v
    BY <1>2, <1>3, MaxOfNats DEF Max
  <1>6. \A v \in V : v <= Max(V)
    BY <1>3, <1>5
  <1>7. Min(V) \in V /\ Max(V) \in V
    BY <1>4, <1>5
  <1>8. \A v \in V : Min(V) <= v /\ v <= Max(V)
    BY <1>4, <1>6
  <1> QED BY <1>2, <1>3, <1>7, <1>8, Zenon

\* Nothing is dropped where nothing is missing.
LEMMA KeptWhole ==
    ASSUME NEW n \in Nat, NEW s, s = [i \in 1 .. n |-> s[i]], \A i \in 1 .. n : s[i] # Unknown
    PROVE  Kept(s) = s
  <1> DEFINE I == {i \in DOMAIN s : s[i] # Unknown}
             upto(i) == {j \in I : j <= i}
             nth(k) == CHOOSE i \in I : Cardinality(upto(i)) = k
  <1>1. DOMAIN s = 1 .. n
    OBVIOUS
  <1>2. I = 1 .. n
    BY <1>1
  <1>3. Cardinality(I) = n
    <2>1. Cardinality(1 .. n) = IF 1 > n THEN 0 ELSE n - 1 + 1
      BY FS_Interval
    <2>2. Cardinality(1 .. n) = n
      BY <2>1
    <2> HIDE DEF I
    <2> QED BY <1>2, <2>2
  <1>4. ASSUME NEW i \in 1 .. n PROVE Cardinality(upto(i)) = i
    <2>1. upto(i) = 1 .. i
      <3> HIDE DEF I
      <3> QED BY <1>2
    <2>2. Cardinality(1 .. i) = IF 1 > i THEN 0 ELSE i - 1 + 1
      BY FS_Interval
    <2>3. Cardinality(1 .. i) = i
      BY <2>2
    <2> HIDE DEF upto
    <2> QED BY <2>1, <2>3
  <1>5. ASSUME NEW k \in 1 .. n PROVE nth(k) = k
    <2> HIDE DEF I, upto
    <2> QED BY <1>2, <1>4
  <1>6. Kept(s) = [k \in 1 .. Cardinality(I) |-> s[nth(k)]]
    BY DEF Kept
  <1> HIDE DEF I, nth
  <1> QED BY <1>3, <1>5, <1>6

\* A trend line stays a pixel inside its drawing and rises where the values do.
LEMMA LineTrue ==
    ASSUME NEW n \in Nat, NEW s, s = [i \in 1 .. n |-> s[i]], Range(s) \subseteq Nat,
           NEW w \in Nat, NEW height \in Nat, height >= 2,
           NEW line, line = TrendLine(s, w, height), NEW i \in DOMAIN line
    PROVE  /\ line[i].x \in 0 .. 100 * w
           /\ line[i].y \in 100 .. 100 * (height - 1)
           /\ i > 1 /\ s[i - 1] <= s[i] => line[i].y <= line[i - 1].y
  <1> DEFINE V == ValuesOf(s)
             min == Min(V)
             span == IF Cardinality(V) < 2 THEN 1 ELSE Max(V) - min
             deep(j) == 100 * (height - 1) * span - (s[j] - min) * 100 * (height - 2)
  <1>1. \A j \in 1 .. n : s[j] \in Nat /\ s[j] # Unknown
    BY ScreenAssumption DEF Range
  <1>2. Measured(s) = s
    BY <1>1, KeptWhole DEF Measured
  <1>3. Len(s) = n /\ DOMAIN s = 1 .. n
    <2>1. s \in Seq(Nat)
      BY <1>1
    <2> QED BY <2>1, LenProperties
  <1>4. /\ n >= 2 /\ i \in 1 .. n
        /\ line = [j \in 1 .. n |-> [x |-> Rounded((j - 1) * 100 * w, n - 1),
                                     y |-> Rounded(deep(j), span)]]
    <2>1. line = IF n < 2 THEN <<>>
                 ELSE [j \in 1 .. n |-> [x |-> Rounded((j - 1) * 100 * w, n - 1),
                                         y |-> Rounded(deep(j), span)]]
      <3>1. \A q : q = Measured(s) /\ Len(q) = n /\ DOMAIN q = 1 .. n
                => line = IF n < 2 THEN <<>>
                          ELSE [j \in 1 .. n |->
                                [x |-> Rounded((j - 1) * 100 * w, n - 1),
                                 y |-> Rounded(100 * (height - 1) * span
                                                - (q[j] - min) * 100 * (height - 2), span)]]
        BY ZenonT(30) DEF TrendLine
      <3> QED BY <1>2, <1>3, <3>1
    <2>2. n >= 2
      <3> SUFFICES ASSUME n < 2 PROVE FALSE
        OBVIOUS
      <3>1. line = <<>>
        BY <2>1
      <3> QED BY <3>1
    <2> DEFINE f == [j \in 1 .. n |-> [x |-> Rounded((j - 1) * 100 * w, n - 1),
                                       y |-> Rounded(deep(j), span)]]
    <2>3. DOMAIN f = 1 .. n
      OBVIOUS
    <2> HIDE DEF f
    <2>4. line = f
      BY <2>1, <2>2 DEF f
    <2> QED BY <2>2, <2>3, <2>4 DEF f
  <1>5. \A j \in 1 .. n : s[j] \in V
    BY <1>1, <1>3 DEF ValuesOf
  <1>6. /\ IsFiniteSet(V) /\ V \subseteq Nat /\ min \in V /\ Max(V) \in V
        /\ \A v \in V : min <= v /\ v <= Max(V)
    <2>1. i \in DOMAIN s /\ s[i] # Unknown /\ Range(s) \subseteq Nat \cup {Unknown}
      BY <1>1, <1>3, <1>4
    <2> HIDE DEF V
    <2>2. \A W : W = ValuesOf(s) => /\ IsFiniteSet(W) /\ W \subseteq Nat
                                    /\ Min(W) \in W /\ Max(W) \in W
                                    /\ \A v \in W : Min(W) <= v /\ v <= Max(W)
      BY <1>3, <2>1, Extremes
    <2> QED BY <2>2 DEF V
  <1> HIDE DEF V
  <1>7. span \in Nat \ {0} /\ \A v \in V : v - min \in 0 .. span
    <2>1. CASE Cardinality(V) < 2
      <3>1. \A u, v \in V : u = v
        <4> SUFFICES ASSUME NEW u \in V, NEW v \in V, u # v PROVE FALSE
          OBVIOUS
        <4>1. Cardinality(V) \in Nat /\ Cardinality(V) # 0
          BY <1>6, FS_CardinalityType, FS_EmptySet
        <4>2. Cardinality(V) = 1
          BY <2>1, <4>1
        <4>3. \E x : V = {x}
          BY <1>6, <4>2, FS_Singleton
        <4> QED BY <4>3
      <3> QED BY <1>6, <2>1, <3>1
    <2>2. CASE ~(Cardinality(V) < 2)
      <3>1. Max(V) # min
        <4> SUFFICES ASSUME Max(V) = min PROVE FALSE
          OBVIOUS
        <4>1. \A v \in V : v = min
          BY <1>6
        <4>2. V = {min}
          BY <1>6, <4>1
        <4>3. Cardinality(V) = 1
          BY <4>2, FS_Singleton
        <4> QED BY <2>2, <4>3
      <3> QED BY <1>6, <2>2, <3>1
    <2> QED BY <2>1, <2>2
  <1> DEFINE h == height - 2
  <1>8. h \in Nat /\ height = h + 2
    OBVIOUS
  <1> HIDE DEF span, min
  <1>9. ASSUME NEW j \in 1 .. n
        PROVE  \E k \in 0 .. span : k = s[j] - min /\ k \in Nat
                                    /\ deep(j) = (100 * h + 100) * span - 100 * (k * h)
    <2> DEFINE k == s[j] - min
    <2>1. k \in 0 .. span /\ k \in Nat
      BY <1>5, <1>7
    <2>2. deep(j) = 100 * (height - 1) * span - k * 100 * (height - 2)
      OBVIOUS
    <2> HIDE DEF k, deep
    <2>3. deep(j) = (100 * h + 100) * span - 100 * (k * h)
      BY <1>7, <1>8, <2>1, <2>2
    <2> QED BY <2>1, <2>3 DEF k
  <1> HIDE DEF deep, h
  <1>10. line[i].x \in 0 .. 100 * w
    <2> DEFINE a == (i - 1) * 100 * w
               b == n - 1
               m == 100 * w
               k == i - 1
    <2>1. b \in Nat \ {0} /\ k \in Nat /\ k <= b /\ m \in Nat /\ line[i].x = Rounded(a, b)
      BY <1>4
    <2>2. a = k * m
      BY <2>1
    <2> HIDE DEF a, b, m, k
    <2>3. 0 <= k * m /\ k * m <= b * m /\ k * m \in Int /\ b * m \in Int
      BY <2>1
    <2>4. Rounded(a, b) \in Int
      BY <2>1, <2>2, <2>3, RoundedBetween
    <2>5. 0 <= Rounded(a, b)
      <3> DEFINE z == 0
      <3>1. z \in Int /\ b * (2 * z) <= 2 * a + b
        BY <2>1, <2>2, <2>3
      <3> HIDE DEF z
      <3>2. z <= Rounded(a, b)
        BY <2>1, <2>2, <2>3, <3>1, RoundedAtLeast
      <3> QED BY <3>2 DEF z
    <2>6. Rounded(a, b) <= m
      <3>1. 2 * a + b < b * (2 * m) + 2 * b
        <4> DEFINE p == k * m
                   q == b * m
        <4>1. b * (2 * m) = 2 * q /\ a = p /\ p <= q /\ p \in Int /\ q \in Int
          BY <2>1, <2>2, <2>3
        <4> HIDE DEF p, q
        <4> QED BY <2>1, <4>1, SMTT(30)
      <3> QED BY <2>1, <2>2, <2>3, <3>1, RoundedAtMost
    <2> QED BY <2>1, <2>4, <2>5, <2>6 DEF m
  <1>11. line[i].y \in 100 .. 100 * (height - 1)
    <2>1. PICK k \in 0 .. span : /\ k \in Nat
                                 /\ deep(i) = (100 * h + 100) * span - 100 * (k * h)
      BY <1>4, <1>9
    <2>2. 0 <= k * h /\ k * h <= span * h /\ k * h \in Int /\ span * h \in Int
      BY <1>7, <1>8, <2>1, SMTT(30)
    <2>3. (100 * h + 100) * span = 100 * (span * h) + 100 * span
      BY <1>7, <1>8
    <2>4. /\ deep(i) \in Int /\ 100 * span <= deep(i)
          /\ deep(i) <= 100 * (span * h) + 100 * span
      BY <1>7, <2>1, <2>2, <2>3
    <2> DEFINE a == deep(i)
               y == Rounded(a, span)
    <2>5. y \in Int
      BY <1>7, <2>4, RoundedBetween
    <2>9. a \in Int /\ 100 * span <= a /\ a <= 100 * (span * h) + 100 * span
      BY <2>4
    <2> HIDE DEF a
    <2>6. 100 <= y
      <3> DEFINE m == 100
      <3>1. m \in Int /\ span * (2 * m) <= 2 * a + span
        BY <1>7, <2>9
      <3> HIDE DEF m
      <3>2. m <= y
        BY <1>7, <2>9, <3>1, RoundedAtLeast
      <3> QED BY <3>2 DEF m
    <2>7. y <= 100 * h + 100
      <3> DEFINE m == 100 * h + 100
      <3>1. m \in Nat /\ span * (2 * m) = 2 * (100 * (span * h) + 100 * span)
        BY <1>7, <1>8, SMTT(30)
      <3> HIDE DEF m
      <3>2. 2 * a + span < span * (2 * m) + 2 * span
        <4>1. span * (2 * m) \in Int /\ 2 * a <= span * (2 * m)
          <5> DEFINE q == 100 * (span * h) + 100 * span
          <5>1. q \in Int /\ a <= q /\ span * (2 * m) = 2 * q
            BY <1>7, <2>2, <2>9, <3>1
          <5> HIDE DEF q
          <5> QED BY <2>9, <5>1
        <4> QED BY <1>7, <2>9, <4>1
      <3>3. y <= m
        BY <1>7, <2>9, <3>1, <3>2, RoundedAtMost
      <3> QED BY <3>3 DEF m
    <2> HIDE DEF y
    <2>8. line[i].y = y
      BY <1>4 DEF y, a
    <2> QED BY <1>8, <2>5, <2>6, <2>7, <2>8
  <1>12. ASSUME i > 1, s[i - 1] <= s[i] PROVE line[i].y <= line[i - 1].y
    <2>1. i - 1 \in 1 .. n
      BY <1>4, <1>12
    <2>2. PICK k \in 0 .. span : /\ k = s[i] - min /\ k \in Nat
                                 /\ deep(i) = (100 * h + 100) * span - 100 * (k * h)
      BY <1>4, <1>9
    <2>3. PICK l \in 0 .. span : /\ l = s[i - 1] - min /\ l \in Nat
                                 /\ deep(i - 1) = (100 * h + 100) * span - 100 * (l * h)
      BY <2>1, <1>9
    <2>4. l <= k
      <3>1. s[i] \in Int /\ s[i - 1] \in Int /\ min \in Int
        BY <1>1, <1>4, <1>6, <2>1
      <3> QED BY <1>12, <2>2, <2>3, <3>1, SMTT(30)
    <2>5. l * h <= k * h /\ l * h \in Int /\ k * h \in Int
      <3>1. h \in Nat /\ l \in Int /\ k \in Int /\ l <= k
        BY <1>8, <2>2, <2>3, <2>4
      <3>2. l * h <= k * h
        BY <3>1, Multiples
      <3> QED BY <3>1, <3>2
    <2>6. (100 * h + 100) * span \in Int
      BY <1>7, <1>8
    <2>7. deep(i) \in Int /\ deep(i - 1) \in Int /\ deep(i) <= deep(i - 1)
      BY <2>2, <2>3, <2>5, SMTT(30), <2>6
    <2>8. Rounded(deep(i), span) <= Rounded(deep(i - 1), span)
      BY <1>7, <2>7, RoundedMonotone
    <2> QED BY <1>4, <2>1, <2>8
  <1> QED BY <1>10, <1>11, <1>12

\* What a bar rises, as a quotient: a pixel at least, and two less than the drawing.
LEMMA Rise ==
    ASSUME NEW v \in Nat, NEW max \in Nat \ {0}, v <= max, NEW height \in Nat, height >= 3,
           NEW r, r = BarHeight(v, max, height)
    PROVE  /\ r.of \in Nat /\ r.by \in Nat \ {0}
           /\ 100 * r.by <= r.of /\ r.of <= r.by * (100 * (height - 2))
  <1> DEFINE h == height - 2
  <1>1. h \in Nat /\ h >= 1
    OBVIOUS
  <1>2. r = IF v * h > max THEN [of |-> 100 * v * h, by |-> max] ELSE [of |-> 100, by |-> 1]
    BY DEF BarHeight
  <1>3. v * h \in Nat /\ 100 * v * h = 100 * (v * h) /\ v * h <= max * h
        /\ max * (100 * h) = 100 * (max * h) /\ max * h \in Nat
    BY <1>1, Multiples
  <1> HIDE DEF h
  <1>4. CASE v * h > max
    <2>1. r.of = 100 * (v * h) /\ r.by = max
      BY <1>2, <1>3, <1>4
    <2> QED BY <1>3, <1>4, <2>1 DEF h
  <1>5. CASE ~(v * h > max)
    <2>1. r.of = 100 /\ r.by = 1
      BY <1>2, <1>5
    <2> QED BY <1>1, <2>1 DEF h
  <1> QED BY <1>4, <1>5

\* A larger value has no lower bar.
LEMMA RiseMonotone ==
    ASSUME NEW u \in Nat, NEW v \in Nat, u <= v, NEW max \in Nat \ {0}, v <= max,
           NEW height \in Nat, height >= 3,
           NEW q, q = BarHeight(u, max, height), NEW r, r = BarHeight(v, max, height)
    PROVE  Rounded(q.of, q.by) <= Rounded(r.of, r.by)
  <1> DEFINE h == height - 2
  <1>1. h \in Nat /\ h >= 1
    OBVIOUS
  <1>2. /\ q = IF u * h > max THEN [of |-> 100 * u * h, by |-> max] ELSE [of |-> 100, by |-> 1]
        /\ r = IF v * h > max THEN [of |-> 100 * v * h, by |-> max] ELSE [of |-> 100, by |-> 1]
    BY DEF BarHeight
  <1> HIDE DEF h
  <1>3. /\ u * h \in Nat /\ v * h \in Nat /\ u * h <= v * h
        /\ 100 * u * h = 100 * (u * h) /\ 100 * v * h = 100 * (v * h)
    BY <1>1, Multiples
  <1>4. CASE u * h > max
    <2>1. q.of = 100 * (u * h) /\ q.by = max /\ r.of = 100 * (v * h) /\ r.by = max
      BY <1>2, <1>3, <1>4
    <2>2. q.of \in Int /\ r.of \in Int /\ q.of <= r.of
      BY <1>3, <2>1
    <2> QED BY <2>1, <2>2, RoundedMonotone
  <1>5. CASE ~(u * h > max)
    <2>1. q.of = 100 /\ q.by = 1
      BY <1>2, <1>5
    <2>2. Rounded(q.of, q.by) = 100
      BY <2>1 DEF Rounded
    <2>3. r.of \in Nat /\ r.by \in Nat \ {0} /\ 100 * r.by <= r.of
      BY Rise
    <2> DEFINE m == 100
    <2>4. m \in Int /\ r.by * (2 * m) <= 2 * r.of + r.by
      BY <2>3
    <2> HIDE DEF m
    <2>5. m <= Rounded(r.of, r.by)
      BY <2>3, <2>4, RoundedAtLeast
    <2> QED BY <2>2, <2>5 DEF m
  <1> QED BY <1>4, <1>5

\* A bar and the space above it fill the drawing, give or take a hundredth.
LEMMA Standing ==
    ASSUME NEW of \in Nat, NEW by \in Nat \ {0}, NEW height \in Nat, height >= 3,
           100 * by <= of, of <= by * (100 * (height - 2))
    PROVE  LET y == Rounded(100 * height * by - of, by)
           IN  y >= 200 /\ y + Rounded(of, by) \in 100 * height .. 100 * height + 1
  <1> DEFINE full == by * (100 * height)
             a == 100 * height * by - of
             y == Rounded(a, by)
             z == Rounded(of, by)
             m == 200
  <1>1. /\ full \in Int /\ a = full - of /\ by * (100 * (height - 2)) = full - 200 * by
        /\ by * (2 * (100 * height)) = 2 * full
    OBVIOUS
  <1> DEFINE tall == 100 * height
  <1>2. tall \in Int /\ by * (2 * tall) = 2 * full
    BY <1>1
  <1> HIDE DEF full, a, tall
  <1>3. a \in Int /\ 200 * by <= a
    BY <1>1
  <1>4. m \in Int /\ by * (2 * m) <= 2 * a + by
    BY <1>3
  <1>5. y \in Int /\ by * (2 * y) <= 2 * a + by /\ 2 * a + by < by * (2 * y) + 2 * by
    BY <1>3, RoundedBetween
  <1>6. z \in Int /\ by * (2 * z) <= 2 * of + by /\ 2 * of + by < by * (2 * z) + 2 * by
    BY RoundedBetween
  <1> HIDE DEF m
  <1>7. m <= y
    BY <1>3, <1>4, RoundedAtLeast
  <1> HIDE DEF y, z
  <1> DEFINE t == y + z
             p == by * (2 * t)
  <1>8. p = by * (2 * y) + by * (2 * z) /\ by * (2 * y) \in Int /\ by * (2 * z) \in Int
        /\ t \in Int /\ p \in Int
    BY <1>5, <1>6
  <1> HIDE DEF p
  <1>9. p <= 2 * full + 2 * by /\ 2 * full + 2 * by < p + 4 * by
    BY <1>1, <1>5, <1>6, <1>8
  <1> HIDE DEF t
  <1>10. t <= tall + 1
    <2> SUFFICES ASSUME tall + 2 <= t PROVE FALSE
      BY <1>2, <1>8
    <2>1. by * (2 * (tall + 2)) <= by * (2 * t)
      <3>1. 2 * (tall + 2) \in Int /\ 2 * t \in Int /\ 2 * (tall + 2) <= 2 * t
        BY <1>2, <1>8
      <3> QED BY <3>1, Multiples
    <2>2. by * (2 * (tall + 2)) = by * (2 * tall) + 4 * by
      BY <1>2
    <2> QED BY <1>1, <1>2, <1>8, <1>9, <2>1, <2>2 DEF p
  <1>11. tall <= t
    <2> SUFFICES ASSUME t + 1 <= tall PROVE FALSE
      BY <1>2, <1>8
    <2>1. by * (2 * (t + 1)) <= by * (2 * tall)
      <3>1. 2 * (t + 1) \in Int /\ 2 * tall \in Int /\ 2 * (t + 1) <= 2 * tall
        BY <1>2, <1>8
      <3> QED BY <3>1, Multiples
    <2>2. by * (2 * (t + 1)) = by * (2 * t) + 2 * by
      BY <1>8
    <2> QED BY <1>1, <1>2, <1>8, <1>9, <2>1, <2>2 DEF p
  <1> QED BY <1>5, <1>7, <1>8, <1>10, <1>11 DEF m, y, z, a, t, tall

\* The slots of the bars lie side by side; a bar stands in the middle of its own
\* and leaves it by half a pixel at most.
LEMMA InSlot ==
    ASSUME NEW n \in Nat \ {0}, NEW i \in 1 .. n, NEW w \in Nat \ {0}
    PROVE  LET x == Rounded(2 * (i - 1) * Slot(n, w) + Slot(n, w) - BarWidth(n, w), 2 * n)
           IN  x >= -50 /\ x + Rounded(BarWidth(n, w), n) <= 100 * w + 50
  <1> DEFINE slot == Slot(n, w)
             bar == BarWidth(n, w)
             k == i - 1
             a == 2 * (i - 1) * slot + slot - bar
             x == Rounded(a, 2 * n)
             z == Rounded(bar, n)
             c == 2 * n
  <1>1. slot \in Nat \ {0} /\ slot = 100 * w
    BY DEF Slot
  <1>2. bar \in Int /\ (bar = 100 * n \/ (100 * n < bar /\ bar <= slot))
    <2> DEFINE gap == IF 3 * slot > 2000 * n THEN 200 * n ELSE (3 * slot) \div 10
    <2>1. gap \in Nat
      <3> HIDE DEF slot
      <3> QED BY <1>1
    <2>2. bar = IF slot - gap > 100 * n THEN slot - gap ELSE 100 * n
      BY DEF BarWidth
    <2> HIDE DEF gap, slot, bar
    <2> QED BY <1>1, <2>1, <2>2
  <1> HIDE DEF slot, bar
  <1>3. k \in Nat /\ k + 1 <= n /\ a = 2 * (k * slot) + slot - bar
    BY <1>1, <1>2
  <1> HIDE DEF k, a
  <1> DEFINE p == k * slot
             q == n * slot
  <1>4. p \in Nat /\ q \in Nat /\ p + slot <= q
    <2>1. (k + 1) * slot <= n * slot
      BY <1>1, <1>3, Multiples
    <2>2. (k + 1) * slot = k * slot + slot
      BY <1>1, <1>3
    <2> QED BY <1>1, <1>3, <2>1, <2>2
  <1>5. a = 2 * p + slot - bar
    BY <1>3
  <1>6. c \in Nat \ {0} /\ c = 2 * n
    OBVIOUS
  <1> DEFINE near == -50
             far == slot - 50
             one == 100
  <1>7. near \in Int /\ far \in Int /\ one \in Int /\ n * (2 * one) = 200 * n
        /\ c * (2 * near) = -200 * n /\ c * (2 * far) = 4 * q - 200 * n
    BY <1>1
  <1> HIDE DEF p, q, c, near, far, one
  <1>8. a \in Int /\ -100 * n <= a
    BY <1>1, <1>2, <1>4, <1>5
  <1>9. near <= x
    <2>1. c * (2 * near) <= 2 * a + c
      BY <1>6, <1>7, <1>8
    <2> QED BY <1>6, <1>7, <1>8, <2>1, RoundedAtLeast DEF c
  <1>10. x \in Int /\ z \in Int
    BY <1>2, <1>6, <1>8, RoundedBetween DEF c
  <1>11. CASE bar = 100 * n
    <2>1. z <= one
      <3>1. 2 * bar + n < n * (2 * one) + 2 * n
        BY <1>7, <1>11
      <3> QED BY <1>2, <1>7, <3>1, RoundedAtMost
    <2>2. x <= far
      <3>1. 2 * a + c < c * (2 * far) + 2 * c
        BY <1>1, <1>4, <1>5, <1>6, <1>7, <1>11
      <3> QED BY <1>6, <1>7, <1>8, <3>1, RoundedAtMost DEF c
    <2> QED BY <1>1, <1>9, <1>10, <2>1, <2>2 DEF near, far, one, slot, a, x, z, bar
  <1>12. CASE 100 * n < bar /\ bar <= slot
    <2>1. c * (2 * x) <= 2 * a + c
      BY <1>6, <1>8, RoundedBetween DEF c
    <2>2. n * (2 * z) <= 2 * bar + n
      BY <1>2, RoundedBetween
    <2> HIDE DEF x, z
    <2>3. c * (2 * x) = 4 * (n * x) /\ n * (2 * z) = 2 * (n * z) /\ n * x \in Int /\ n * z \in Int
      BY <1>6, <1>10
    <2>4. n * x + n * z <= q + n
      BY <1>1, <1>2, <1>4, <1>5, <1>6, <1>8, <1>12, <2>1, <2>2, <2>3
    <2>5. x + z <= slot + 1
      <3> SUFFICES ASSUME slot + 2 <= x + z PROVE FALSE
        BY <1>1, <1>10
      <3>1. n * (slot + 2) <= n * (x + z)
        BY <1>1, <1>10, Multiples
      <3>2. n * (slot + 2) = q + 2 * n
        BY <1>1 DEF q
      <3>3. n * (x + z) = n * x + n * z
        BY <1>10
      <3> QED BY <1>4, <2>3, <2>4, <3>1, <3>2, <3>3
    <2> QED BY <1>1, <1>9, <1>10, <2>5 DEF near, slot, a, x, z, bar
  <1> QED BY <1>2, <1>11, <1>12

\* A list of values, some of which were not measured.
Counted(s) ==
    \E n \in Nat : s = [i \in 1 .. n |-> s[i]] /\ Range(s) \subseteq Nat \cup {Unknown}

\* ChartTrue, of one chart.
Drawn(g) ==
    /\ \A i \in DOMAIN g.line :
        /\ g.line[i].x \in 0 .. 100 * g.width
        /\ g.line[i].y \in 100 .. 100 * (g.height - 1)
        /\ i > 1 /\ g.values[i - 1] <= g.values[i] => g.line[i].y <= g.line[i - 1].y
    /\ \A i \in DOMAIN g.bars :
        /\ g.bars[i].x >= -50 /\ g.bars[i].x + g.bars[i].width <= 100 * g.width + 50
        /\ g.bars[i].y >= 200
        /\ g.bars[i].y + g.bars[i].height \in 100 * g.height .. 100 * g.height + 1
        /\ i - 1 \in DOMAIN g.bars /\ g.values[i - 1] <= g.values[i]
           => g.bars[i - 1].height <= g.bars[i].height

\* Bars stand on the ground, in their slots, by their values.
LEMMA BarsTrue ==
    ASSUME NEW s, Counted(s), NEW w \in Nat \ {0}, NEW height \in Nat, height >= 3,
           NEW bars, bars = DistributionBars(s, w, height), NEW i \in DOMAIN bars
    PROVE  /\ bars[i].x >= -50 /\ bars[i].x + bars[i].width <= 100 * w + 50
           /\ bars[i].y >= 200
           /\ bars[i].y + bars[i].height \in 100 * height .. 100 * height + 1
           /\ i - 1 \in DOMAIN bars /\ s[i - 1] <= s[i]
              => bars[i - 1].height <= bars[i].height
  <1>1. PICK n \in Nat : s = [j \in 1 .. n |-> s[j]] /\ Range(s) \subseteq Nat \cup {Unknown}
    BY DEF Counted
  <1>2. DOMAIN s = 1 .. n /\ Len(s) = n
    <2>1. s \in Seq(Nat \cup {Unknown})
      BY <1>1 DEF Range
    <2> QED BY <1>1, <2>1, LenProperties
  <1> DEFINE V == ValuesOf(s)
             max == IF V \subseteq {0} THEN 1 ELSE Max(V)
             bar == BarWidth(n, w)
             rise(v) == BarHeight(v, max, height)
             I == {j \in 1 .. n : s[j] # Unknown}
             f == [j \in I |->
                    [x |-> Rounded(2 * (j - 1) * Slot(n, w) + Slot(n, w) - bar, 2 * n),
                     y |-> Rounded(100 * height * rise(s[j]).by - rise(s[j]).of, rise(s[j]).by),
                     width |-> Rounded(bar, n),
                     height |-> Rounded(rise(s[j]).of, rise(s[j]).by)]]
  <1>3. bars = f
    BY <1>2 DEF DistributionBars
  <1>4. i \in I /\ i \in 1 .. n /\ n \in Nat \ {0} /\ s[i] # Unknown
    <2>1. DOMAIN f = I
      OBVIOUS
    <2> HIDE DEF f
    <2> QED BY <1>3, <2>1
  <1>5. \A j \in I : s[j] \in V /\ s[j] \in Nat
    BY <1>1, <1>2 DEF ValuesOf, Range
  <1>6. max \in Nat \ {0} /\ \A v \in V : v <= max
    <2>1. i \in DOMAIN s
      BY <1>2, <1>4
    <2> HIDE DEF V
    <2>2. \A W : W = ValuesOf(s) => /\ W \subseteq Nat /\ Max(W) \in W
                                    /\ \A v \in W : v <= Max(W)
      BY <1>1, <1>2, <1>4, <2>1, Extremes
    <2>3. V \subseteq Nat /\ Max(V) \in V /\ \A v \in V : v <= Max(V)
      BY <2>2 DEF V
    <2>4. CASE V \subseteq {0}
      BY <2>4
    <2>5. CASE ~(V \subseteq {0})
      <3>1. PICK v \in V : v # 0
        BY <2>5
      <3>2. v \in Nat /\ v <= Max(V) /\ Max(V) \in Nat
        BY <2>3
      <3> QED BY <2>3, <2>5, <3>1, <3>2
    <2> QED BY <2>4, <2>5
  <1> HIDE DEF V, max
  <1>7. ASSUME NEW j \in I
        PROVE  /\ rise(s[j]).of \in Nat /\ rise(s[j]).by \in Nat \ {0}
               /\ 100 * rise(s[j]).by <= rise(s[j]).of
               /\ rise(s[j]).of <= rise(s[j]).by * (100 * (height - 2))
    <2>1. s[j] \in Nat /\ s[j] <= max
      BY <1>5, <1>6
    <2> QED BY <1>6, <2>1, Rise
  <1>8. /\ bars[i].x = Rounded(2 * (i - 1) * Slot(n, w) + Slot(n, w) - bar, 2 * n)
        /\ bars[i].y = Rounded(100 * height * rise(s[i]).by - rise(s[i]).of, rise(s[i]).by)
        /\ bars[i].width = Rounded(bar, n)
        /\ \A j \in I : bars[j].height = Rounded(rise(s[j]).of, rise(s[j]).by)
    BY <1>3, <1>4
  <1>9. DOMAIN bars = I
    BY <1>3
  <1> HIDE DEF rise, bar, f
  <1>10. bars[i].x >= -50 /\ bars[i].x + bars[i].width <= 100 * w + 50
    BY <1>4, <1>8, InSlot DEF bar
  <1>11. bars[i].y >= 200 /\ bars[i].y + bars[i].height \in 100 * height .. 100 * height + 1
    <2> DEFINE of == rise(s[i]).of
               by == rise(s[i]).by
    <2>1. /\ bars[i].y = Rounded(100 * height * by - of, by)
          /\ bars[i].height = Rounded(of, by)
      BY <1>4, <1>8
    <2>2. of \in Nat /\ by \in Nat \ {0} /\ 100 * by <= of /\ of <= by * (100 * (height - 2))
      BY <1>4, <1>7
    <2> HIDE DEF of, by
    <2> QED BY <2>1, <2>2, Standing
  <1>12. ASSUME i - 1 \in DOMAIN bars, s[i - 1] <= s[i]
         PROVE  bars[i - 1].height <= bars[i].height
    <2> DEFINE j == i - 1
    <2>1. j \in I /\ s[j] <= s[i]
      BY <1>9, <1>12
    <2> HIDE DEF j, I
    <2>2. /\ s[j] \in Nat /\ s[i] \in Nat /\ s[i] <= max
          /\ bars[j].height = Rounded(rise(s[j]).of, rise(s[j]).by)
          /\ bars[i].height = Rounded(rise(s[i]).of, rise(s[i]).by)
      BY <1>4, <1>5, <1>6, <1>8, <2>1
    <2>3. bars[j].height <= bars[i].height
      BY <1>6, <2>1, <2>2, RiseMonotone DEF rise
    <2> QED BY <2>3 DEF j
  <1> QED BY <1>10, <1>11, <1>12

LEMMA NothingCounted == DOMAIN <<>> = {} /\ Range(<<>>) = {} /\ Counted(<<>>)
  <1>1. DOMAIN <<>> = {}
    OBVIOUS
  <1>2. Range(<<>>) = {}
    BY <1>1 DEF Range
  <1>3. <<>> = [i \in 1 .. 0 |-> <<>>[i]]
    OBVIOUS
  <1> QED BY <1>1, <1>2, <1>3 DEF Counted

\* A series under two values is not drawn, another is the chart of its shape.
LEMMA GraphicTrue ==
    ASSUME NEW s, Counted(s), NEW shape \in {"line", "bars"},
           shape = "line" => Unknown \notin Range(s),
           NEW w \in Nat \ {0}, NEW height \in Nat, height >= 3
    PROVE  Drawn(Graphic(s, shape, w, height))
  <1> DEFINE drawn == IF Len(s) >= 2 THEN s ELSE <<>>
             g == Graphic(s, shape, w, height)
  <1>1. /\ g.width = w /\ g.height = height /\ g.values = drawn
        /\ g.line = IF shape = "line" THEN TrendLine(drawn, w, height) ELSE <<>>
        /\ g.bars = IF shape = "bars" THEN DistributionBars(drawn, w, height) ELSE <<>>
    BY DEF Graphic
  <1>2. Counted(drawn) /\ (shape = "line" => Unknown \notin Range(drawn))
    BY NothingCounted
  <1> HIDE DEF drawn, g
  <1>3. CASE shape = "line"
    <2>1. g.line = TrendLine(drawn, w, height) /\ DOMAIN g.bars = {}
      BY <1>1, <1>3, NothingCounted
    <2>2. PICK n \in Nat : drawn = [i \in 1 .. n |-> drawn[i]] /\ Range(drawn) \subseteq Nat
      BY <1>2, <1>3 DEF Counted
    <2>3. height >= 2 /\ w \in Nat
      OBVIOUS
    <2>4. ASSUME NEW i \in DOMAIN g.line
          PROVE  /\ g.line[i].x \in 0 .. 100 * w
                 /\ g.line[i].y \in 100 .. 100 * (height - 1)
                 /\ i > 1 /\ drawn[i - 1] <= drawn[i] => g.line[i].y <= g.line[i - 1].y
      BY <2>1, <2>2, <2>3, LineTrue
    <2> QED BY <1>1, <2>1, <2>4 DEF Drawn, g
  <1>4. CASE shape = "bars"
    <2>1. g.bars = DistributionBars(drawn, w, height) /\ DOMAIN g.line = {}
      BY <1>1, <1>4, NothingCounted
    <2>2. ASSUME NEW i \in DOMAIN g.bars
          PROVE  /\ g.bars[i].x >= -50 /\ g.bars[i].x + g.bars[i].width <= 100 * w + 50
                 /\ g.bars[i].y >= 200
                 /\ g.bars[i].y + g.bars[i].height \in 100 * height .. 100 * height + 1
                 /\ i - 1 \in DOMAIN g.bars /\ drawn[i - 1] <= drawn[i]
                    => g.bars[i - 1].height <= g.bars[i].height
      BY <1>2, <2>1, BarsTrue
    <2> QED BY <1>1, <2>1, <2>2 DEF Drawn, g
  <1> QED BY <1>3, <1>4

\* The series on display are lists of values; that of a budget has no gap.
LEMMA BudgetCounted ==
    ASSUME PayloadInv, snapshot # Unknown, NEW b \in Range(snapshot.budgets)
    PROVE  Counted(b.series) /\ Unknown \notin Range(b.series)
  <1>1. PICK k \in DOMAIN snapshot.budgets : b = snapshot.budgets[k]
    BY DEF Range
  <1>2. CASE b = EmptyBudget(b.id)
    <2>1. b.series = <<>>
      BY <1>2 DEF EmptyBudget
    <2>2. Counted(<<>>) /\ Range(<<>>) = {}
      BY NothingCounted
    <2> QED BY <2>1, <2>2
  <1>3. CASE \E v : /\ WellFormedObject(v) /\ v.is = "object"
                    /\ b = ReadBudget(v, b.id)
    <2>1. PICK v : WellFormedObject(v) /\ v.is = "object" /\ b = ReadBudget(v, b.id)
      BY <1>3
    <2> DEFINE list == ReadArray(Field(v, "series"))
               s == b.series
    <2>2. s = [i \in DOMAIN list |-> ReadPoint(list[i])]
      <3> HIDE DEF s
      <3>1. \A id : ReadBudget(v, id).series = [i \in DOMAIN list |-> ReadPoint(list[i])]
        BY <2>1 DEF ReadBudget
      <3> QED BY <2>1, <3>1 DEF s
    <2>3. list \in Seq(Range(list)) /\ \A e \in Range(list) : WellFormedValue(e)
      BY <2>1, FieldFormed
    <2> HIDE DEF list, s
    <2>4. Len(list) \in Nat /\ DOMAIN list = 1 .. Len(list)
      BY <2>3, LenProperties
    <2>5. ASSUME NEW i \in DOMAIN list PROVE ReadPoint(list[i]) \in Nat
      <3>1. WellFormedValue(list[i])
        BY <2>3 DEF Range
      <3> QED BY <3>1 DEF ReadPoint, ReadNumber, Or, WellFormedValue
    <2>6. Range(s) \subseteq Nat
      BY <2>2, <2>5 DEF Range
    <2>7. s = [i \in 1 .. Len(list) |-> s[i]]
      BY <2>2, <2>4
    <2>8. Counted(s)
      BY <2>4, <2>6, <2>7 DEF Counted
    <2>9. Unknown \notin Range(s)
      BY <2>6, ScreenAssumption, SMTT(30)
    <2> QED BY <2>8, <2>9 DEF s
  <1> QED BY <1>1, <1>2, <1>3, BudgetsRead

LEMMA RowCounted ==
    ASSUME PayloadInv, snapshot # Unknown, NEW app \in Rows
    PROVE  Counted(app.requestSeries)
  <1>1. PICK v : WellFormedObject(v) /\ app = ReadAppRow(v) /\ ReadAppRow(v) # Unknown
    BY RowRead
  <1> DEFINE list == ReadArray(Either(v, "request_series", "requestSeries"))
             s == app.requestSeries
  <1>2. s = [i \in DOMAIN list |-> ReadCount(list[i])]
    BY <1>1, RowFields
  <1>3. list \in Seq(Range(list)) /\ \A e \in Range(list) : WellFormedValue(e)
    BY <1>1, EitherList
  <1> HIDE DEF list, s
  <1>4. Len(list) \in Nat /\ DOMAIN list = 1 .. Len(list)
    BY <1>3, LenProperties
  <1>5. ASSUME NEW i \in DOMAIN list PROVE ReadCount(list[i]) \in Nat \cup {Unknown}
    <2>1. WellFormedValue(list[i])
      BY <1>3 DEF Range
    <2>2. ReadNumber(list[i]) \in Nat \cup {Unknown}
      BY <2>1 DEF ReadNumber, WellFormedValue
    <2> QED BY <2>2, Rounding DEF ReadCount
  <1>6. Range(s) \subseteq Nat \cup {Unknown}
    BY <1>2, <1>5 DEF Range
  <1>7. s = [i \in 1 .. Len(list) |-> s[i]]
    BY <1>2, <1>4
  <1> QED BY <1>4, <1>6, <1>7 DEF Counted, s

\* The charts stay in their drawings, and rise and fall as the values do
\* (Sparkline.tsx:69-142), for any series of any length.
THEOREM ChartTrueAlways == Spec => []ChartTrue
  <1>1. PayloadInv => ChartTrue
    <2> SUFFICES ASSUME PayloadInv, snapshot # Unknown, NEW g \in Graphics PROVE Drawn(g)
      BY DEF ChartTrue, Drawn
    <2>1. CASE \E b \in Range(snapshot.budgets) : g \in BudgetCard(b).graphics
      <3>1. PICK b \in Range(snapshot.budgets) : g \in BudgetCard(b).graphics
        BY <2>1
      <3>2. Counted(b.series) /\ Unknown \notin Range(b.series)
        BY BudgetCounted
      <3>3. g \in {Graphic(b.series, "line", 120, 36), Graphic(b.series, "line", 56, 18),
                   Graphic(b.series, "bars", 44, 22)}
        <4>1. BudgetCard(b).graphics \subseteq
                {Graphic(b.series, "line", 120, 36), Graphic(b.series, "line", 56, 18),
                 Graphic(b.series, "bars", 44, 22)}
          BY DEF BudgetCard
        <4> QED BY <3>1, <4>1
      <3>4. \A shape \in {"line", "bars"}, w \in {120, 56, 44}, h \in {36, 18, 22} :
                Drawn(Graphic(b.series, shape, w, h))
        BY <3>2, GraphicTrue
      <3> QED BY <3>3, <3>4
    <2>2. CASE \E app \in Rows : g \in TableRow(app).graphics
      <3>1. PICK app \in Rows : g \in TableRow(app).graphics
        BY <2>2
      <3>2. g = Graphic(app.requestSeries, "bars", 48, 14)
        BY <3>1 DEF TableRow
      <3> QED BY <3>2, RowCounted, GraphicTrue
    <2> QED BY <2>1, <2>2 DEF Graphics
  <1> QED BY <1>1, PayloadInvAlways, PTL
=============================================================================

------------------------------- MODULE Screen -------------------------------
(***************************************************************************)
(* What is on an operator's screen at a time: the snapshot last received,  *)
(* laid out by the components (ui/src/components) in a window of some      *)
(* width, with the clock of App.tsx, which is read once a second, the      *)
(* activity and the details unfolded, and the last traffic audit.  When    *)
(* and in which order answers come is the subject of Dashboard; here they  *)
(* come in any, and each is read as the contract says.                     *)
(***************************************************************************)
EXTENDS Views, Sparkline

CONSTANTS
    Responses,      \* the answers to loads and controls, by name
    AuditResponses, \* the answers to traffic audits, by name
    Moments,        \* the times, in milliseconds, at which something happens
    Widths          \* of the window, in pixels

CompactMaxWidth == 900      \* COMPACT_MAX_WIDTH
TableMaxWidth == 1000       \* of the table and of the activity
TickMs == 1000

VARIABLES
    snapshot,       \* the snapshot on display, or Unknown
    now,            \* the time as useNow knows it
    width,          \* window.innerWidth at the last resize
    expanded,       \* of the activity in a compact window
    detailAppId,    \* the row that is unfolded, or Unknown
    auditing,
    audit,          \* the result on display
    wall,           \* the time
    sent,           \* history: the response the snapshot was read from
    audited         \* history: the response the audit was read from

window == <<width, expanded, detailAppId>>
audits == <<auditing, audit, audited>>
clock == <<wall, now>>
vars == <<snapshot, sent, window, audits, clock>>

Init ==
    /\ snapshot = Unknown
    /\ sent = Unknown
    /\ width \in Widths
    /\ expanded = FALSE
    /\ detailAppId = Unknown
    /\ auditing = FALSE
    /\ audit = NoAudit
    /\ audited = Unknown
    /\ wall = CHOOSE m \in Moments : \A n \in Moments : m <= n
    /\ now = wall

Loads == [r \in DOMAIN Responses |-> LoadSnapshot(Responses[r])]
Controls == [r \in DOMAIN Responses |-> ApplyControl(Responses[r])]
Audits == [a \in DOMAIN AuditResponses |-> RunTrafficAudit(AuditResponses[a])]

TimesIn(s) ==
    {s.broker.sampledAt, s.generatedAt} \cup {app.lastRequestAt : app \in Range(s.apps)}

\* Date.parse takes any string; DateParse lists those that occur.
ASSUME ScreenAssumption ==
    /\ Moments \subseteq Nat /\ Moments # {}
    /\ Unknown \notin Int
    /\ \A t \in DOMAIN DateParse : DateParse[t] \in Int \cup {Unknown}
    /\ \A r \in DOMAIN Responses :
        /\ Loads[r].ok => TimesIn(Loads[r].snapshot) \subseteq DOMAIN DateParse \cup {Unknown}
        /\ Controls[r].snapshot # Unknown
           => TimesIn(Controls[r].snapshot) \subseteq DOMAIN DateParse \cup {Unknown}

UseCompact(maxWidth) == width < maxWidth
-----------------------------------------------------------------------------
(* The layout.  A component is a record of what it shows.                  *)

Header ==
    [tone |-> BrokerHealthTone(snapshot, now),
     health |-> BrokerHealthLabel(snapshot, now),
     age |-> FormatAge(snapshot.broker.sampledAt, now),
     paused |-> snapshot.broker.collectionPaused]

BudgetCard(b) ==
    LET wide == ~UseCompact(CompactMaxWidth)
    IN  [status |-> b.health,
         tone |-> BudgetTone(b),
         available |-> FormatAvailable(b),
         fill |-> IF IsBudgetReadable(b) THEN CapacityPercent(b) ELSE 0,
         queueDepth |-> FormatQueueDepth(b),
         refill |-> IF wide THEN FormatRefill(b) ELSE <<>>,
         pressure |-> IF wide THEN FormatBudgetPressure(b) ELSE <<>>,
         graphics |-> IF ~IsBudgetReadable(b) THEN {}
                      ELSE IF wide THEN {Graphic(b.series, "line", 120, 36),
                                         Graphic(b.series, "line", 56, 18)}
                      ELSE {Graphic(b.series, "bars", 44, 22)},
         summary |-> DescribeSeries(b)]

TableRow(app) ==
    LET compact == UseCompact(TableMaxWidth)
    IN  [requests |-> FormatRecentRequests(app),
         wait |-> FormatQueueWait(app.queueWaitMs),
         errors |-> FormatErrors(app),
         lastRest |-> IF compact THEN FormatLastRest(app, now) ELSE NoAge,
         graphics |-> IF compact THEN {Graphic(app.requestSeries, "bars", 48, 14)} ELSE {},
         summary |-> IF compact THEN DescribeRequestSeries(app) ELSE <<>>,
         access |-> AccessCell(app)]

Rows == Range(snapshot.apps)

AppDetail(app) ==
    [moneyLine |-> MoneyLine(app, snapshot.tradeLock),
     brokeredRest |-> AccessCell(app).label,
     venues |-> [i \in DOMAIN app.venueSplit |->
                    VenueCounts(app.venueSplit[i]) \o VenueWait(app.venueSplit[i])],
     entries |-> SelectSeq(snapshot.activity, LAMBDA e : e.appId = app.appId)]

Unfolded == {app \in Rows : app.appId = detailAppId}

Activity == ActivityFeed(snapshot, UseCompact(TableMaxWidth), expanded)
-----------------------------------------------------------------------------
\* A load's answer that can be shown is shown.
Receive(r) ==
    /\ Loads[r].ok
    /\ snapshot' = Loads[r].snapshot
    /\ sent' = r
    /\ UNCHANGED <<window, audits, clock>>

\* Controls are answered with a snapshot, conflicts too.
ControlReturns(r) ==
    /\ snapshot # Unknown
    /\ Controls[r].snapshot # Unknown
    /\ snapshot' = Controls[r].snapshot
    /\ sent' = r
    /\ UNCHANGED <<window, audits, clock>>

\* Time passes within a second of the clock of the window.
Wait(m) ==
    /\ wall < m /\ m < now + TickMs
    /\ wall' = m
    /\ UNCHANGED <<snapshot, sent, window, audits, now>>

\* The interval fires, for the first or the last time up to then.
Tick(m) ==
    /\ now < m /\ wall <= m
    /\ wall' = m
    /\ now' = m
    /\ UNCHANGED <<snapshot, sent, window, audits>>

Resize(w) ==
    /\ w # width
    /\ width' = w
    /\ UNCHANGED <<snapshot, sent, expanded, detailAppId, audits, clock>>

ToggleActivity ==
    /\ snapshot # Unknown
    /\ UseCompact(TableMaxWidth) /\ Activity # <<>>
    /\ expanded' = ~expanded
    /\ UNCHANGED <<snapshot, sent, width, detailAppId, audits, clock>>

ToggleDetail ==
    /\ snapshot # Unknown
    /\ \E app \in Rows :
        detailAppId' = IF detailAppId = app.appId THEN Unknown ELSE app.appId
    /\ UNCHANGED <<snapshot, sent, width, expanded, audits, clock>>

RunAudit ==
    /\ snapshot # Unknown
    /\ ~auditing
    /\ auditing' = TRUE
    /\ UNCHANGED <<snapshot, sent, window, audit, audited, clock>>

AuditReturns(a) ==
    /\ auditing
    /\ auditing' = FALSE
    /\ audit' = Audits[a]
    /\ audited' = a
    /\ UNCHANGED <<snapshot, sent, window, clock>>

Next ==
    \/ \E r \in DOMAIN Responses : Receive(r) \/ ControlReturns(r)
    \/ \E m \in Moments : Wait(m) \/ Tick(m)
    \/ \E w \in Widths : Resize(w)
    \/ ToggleActivity \/ ToggleDetail \/ RunAudit
    \/ \E a \in DOMAIN AuditResponses : AuditReturns(a)

Spec == Init /\ [][Next]_vars
-----------------------------------------------------------------------------
(* The payload behind the display, as the properties look at it: any       *)
(* object that goes by a name, any field under either of its spellings.    *)

PayloadOf(body) ==
    IF Field(body, "snapshot").is = "object" THEN Field(body, "snapshot") ELSE body
Payload == PayloadOf(Responses[sent].body)

Within(v, names) == UNION {Range(ReadArray(Field(v, name))) : name \in names}
Called(values, names, id) ==
    {v \in values : \E name \in names : Field(v, name) = String(id)}
Numbers(values, names) ==
    {Field(p[1], p[2]).number :
        p \in {q \in values \X names : Field(q[1], q[2]).is = "number"}}
Words(values, names) ==
    {Field(p[1], p[2]).string :
        p \in {q \in values \X names : Field(q[1], q[2]).is = "string"}}

\* What governor/viewmodel.py keeps to in every payload: of the fields the
\* window would read under either of two names, an object has one at most; no
\* figure is negative; no two rows have the same id, and no two budgets; and
\* every budget is one of the three.  Lists are finite, as JSON has them.
Pairs == {<<"tradeLock", "trade_lock">>, <<"brokerAccess", "broker_access">>,
          <<"app_id", "appId">>, <<"id", "budget">>,
          <<"throttled_with_headroom_delta", "throttledWithHeadroomDelta">>}

WellFormedValue(v) ==
    /\ v.is = "string" => v = String(v.string)
    /\ v.is = "number" => v.number \in Nat
    /\ v.is = "array" => v.array \in Seq(Range(v.array))

WellFormedObject(v) ==
    /\ \A p \in Pairs : Undefined \in {Field(v, p[1]), Field(v, p[2])}
    /\ v.is = "object" => \A name \in DOMAIN v.fields :
        /\ WellFormedValue(v.fields[name])
        /\ \A e \in Range(ReadArray(v.fields[name])) : WellFormedValue(e)

Distinct(values, names) ==
    \A u, v \in values : (\E n, m \in names : /\ Field(u, n).is = "string"
                                             /\ Field(u, n) = Field(v, m)) => u = v

WellFormed(p) ==
    LET apps == Within(p, {"apps"})
        budgets == Within(p, {"budgets"})
        venues == UNION {Within(v, {"venue_split", "venueSplit"}) : v \in apps}
    IN  /\ \A v \in {p} \cup apps \cup budgets \cup venues : WellFormedObject(v)
        /\ Distinct(apps, {"app_id", "appId"})
        /\ Distinct(budgets, {"id", "budget"})
        /\ \A v \in budgets : v.is = "object" =>
            \E id \in Range(BudgetIds) : v \in Called(budgets, {"id", "budget"}, id)

ASSUME PayloadAssumption ==
    \A r \in DOMAIN Responses :
        /\ Loads[r].ok => PayloadOf(Responses[r].body) = Responses[r].body
        /\ Loads[r].ok \/ Controls[r].snapshot # Unknown
           => WellFormed(PayloadOf(Responses[r].body))

ASSUME AuditAssumption ==
    \A a \in DOMAIN AuditResponses :
        LET body == AuditResponses[a].body
        IN  \A v \in {body} \cup Within(body, {"findings"}) : WellFormedObject(v)

\* Each of the figures is one of the numbers, in another unit, but for an error.
From(figures, numbers, unit, error) ==
    \A i \in DOMAIN figures : \E n \in numbers : figures[i] - unit * n \in -error .. error

BudgetFromPayload(b) ==
    LET budgets == Called(Within(Payload, {"budgets"}), {"id", "budget"}, b.id)
        card == BudgetCard(b)
    IN  /\ card.tone = "healthy" => "healthy" \in Words(budgets, {"health"})
        /\ From(card.available,
                Numbers(budgets, {"available_now", "availableNow", "capacity"}), 1, 0)
        /\ From(card.queueDepth, Numbers(budgets, {"queue_depth", "queueDepth"}), 1, 0)
        /\ From(card.refill, Numbers(budgets, {"refill_per_second", "refillPerSecond"}), 1, 5)
        /\ From(card.pressure,
                Numbers(budgets, {"recent_pressure", "recentPressureRatio"}), 100, 50)
        /\ card.fill > 0 => 0 \notin {Len(FormatAvailable(b)), FormatAvailable(b)[1]}

AppFromPayload(app) ==
    LET apps == Called(Within(Payload, {"apps"}), {"app_id", "appId"}, app.appId)
        row == TableRow(app)
        samples(v) == Within(v, {"request_series", "requestSeries"})
        venues == UNION {Within(v, {"venue_split", "venueSplit"}) : v \in apps}
    IN  /\ From(row.requests \o row.summary,
                Numbers(apps, {"recent_requests", "recentRequests",
                               "recent_window_seconds", "recentWindowSeconds"}), 1, 0)
        /\ From(row.wait, Numbers(apps, {"queue_wait_ms", "queueWaitMs"}), 1, 50)
        /\ From(row.errors, Numbers(apps, {"errors"}), 1, 0)
        /\ \A g \in row.graphics, i \in DOMAIN app.requestSeries :
            i \in DOMAIN g.bars
            => From(<<g.values[i]>>, {v.number : v \in {u \in UNION {samples(v) : v \in apps} :
                                                          u.is = "number"}}, 1, 50)
        /\ app \in Unfolded => \A i \in DOMAIN app.venueSplit :
            From(AppDetail(app).venues[i],
                 {0} \cup Numbers(venues, {"count", "upstream_429s", "upstream429s",
                                           "headroom_429s", "headroom429s",
                                           "queue_wait_ms", "queueWaitMs"}), 1, 50)

\* A figure on the screen is a number the Governor sent for it: what is null,
\* missing, of another type or of another version is never shown as a number,
\* above all not as a zero, and no interval that was not measured has a bar
\* (contracts.ts:6-7 and 363-365, derive.ts:115).  Two things are zeros all the
\* same, and excepted: a venue's count that is missing (contracts.ts:308), and
\* a null in a budget's series, which its chart draws (contracts.ts:255).
NothingInvented ==
    snapshot # Unknown =>
        /\ Field(Payload, "schemaVersion") = Number(SchemaVersion)
        /\ \A i \in DOMAIN snapshot.budgets : BudgetFromPayload(snapshot.budgets[i])
        /\ \A i \in DOMAIN snapshot.apps : AppFromPayload(snapshot.apps[i])

LockWords ==
    Words({Field(Payload, name) : name \in {"tradeLock", "trade_lock"}}, {"state"})
GlobalWords ==
    Words({Field(Field(Payload, name), "global") : name \in {"brokerAccess", "broker_access"}},
          {"state"})

\* A stop the Governor reported is on the screen, in every place that speaks of
\* it: money orders are called allowed by neither the strip nor the details
\* when the lock is stopped, stopping or unavailable, the unlock is offered
\* only when it is stopped, and a row calls reads allowed that are stopped
\* for it only beside the strip's word that all are (derive.ts:317-369,
\* contracts.ts:175-180, SafetyStrip.tsx:27-28).
StopShown ==
    snapshot # Unknown =>
        LET strip == SafetyStrip(snapshot)
            lines == {AppDetail(app).moneyLine : app \in Unfolded} \ {"no gate", "paper"}
        IN  /\ LockWords \cap {"stopped", "stopping", "unavailable"} # {}
               => /\ strip.money.banner /\ ~strip.money.healthy
                  /\ lines \subseteq LockWords
            /\ strip.money.canUnlock => LockWords = {"stopped"}
            /\ strip.readsStopped = ("stopped" \in GlobalWords)
            /\ \A app \in Rows :
                LET said == Words(Called(Within(Payload, {"apps"}), {"app_id", "appId"},
                                         app.appId), {"access"})
                IN  "stopped" \in said
                    => /\ TableRow(app).access = [label |-> "stopped", button |-> "resume"]
                       /\ app \in Unfolded => AppDetail(app).brokeredRest = "stopped"

\* The age of the sample the snapshot rests on, or of the snapshot.
Readable(t) == t # Unknown /\ DateParse[t] # Unknown

TrueAge ==
    IF Readable(snapshot.broker.sampledAt) THEN wall - DateParse[snapshot.broker.sampledAt]
    ELSE IF Readable(snapshot.generatedAt) THEN wall - DateParse[snapshot.generatedAt]
    ELSE 0

\* Whatever was received and however late the clock of the window is, a sample
\* older than fifteen seconds and a tick is not presented as healthy, in word
\* or colour, nor one older than five and a tick as now.  Only a snapshot none
\* of whose times can be read has no age (derive.ts:258-304, derive.test.ts:127).
OldNeverCurrent ==
    snapshot # Unknown =>
        /\ TrueAge >= StaleAfter + TickMs
           => Header.health # "healthy" /\ Header.tone # "healthy"
        /\ TrueAge >= 5000 + TickMs => Header.age.unit # "now"
        /\ (Header.tone = "healthy") = (Header.health = "healthy")

Unit(unit) == CASE unit = "now" -> 5000 [] unit = "s" -> 1000 [] unit = "m" -> Minute
                [] unit = "h" -> Hour [] unit = "d" -> Day

\* Not more than half a second older than it is, nor younger by more than the
\* unit it is given in and a tick.
Fair(age, at) ==
    age.unit # "unknown" =>
        /\ age.n * Unit(age.unit) <= (IF wall < DateParse[at] THEN 0 ELSE wall - DateParse[at]) + 500
        /\ wall - DateParse[at] - age.n * Unit(age.unit) < Unit(age.unit) + TickMs

\* The ages on the screen are the ages of what they stand beside, over all
\* changes of unit (derive.ts:188-206, 244-256).
AgeHonest ==
    snapshot # Unknown =>
        /\ Fair(Header.age, snapshot.broker.sampledAt)
        /\ \A app \in Rows : Fair(TableRow(app).lastRest, app.lastRequestAt)

IsAlert(e) == e.kind = "possible-direct-caller" /\ IsHighPriorityEvent(e)

Throttled ==
    \E n \in Numbers(Within(Payload, {"budgets"}),
                     {"throttled_with_headroom_delta", "throttledWithHeadroomDelta"}) : n > 0

\* A throttle with headroom left is on display as a warning whether the
\* Governor has logged it or not; in a compact window another warning may
\* stand before it, and then it is a click away.  So is every warning logged
\* (ActivityFeed.tsx:193-218, 60-62).
AlertReachable ==
    snapshot # Unknown =>
        LET everything == Range(ActivityFeed(snapshot, UseCompact(TableMaxWidth), TRUE))
            warnings == {e \in everything : IsHighPriorityEvent(e)}
        IN  /\ {e \in Range(snapshot.activity) : IsHighPriorityEvent(e)} \subseteq warnings
            /\ Throttled => \E e \in warnings : IsAlert(e)
            /\ warnings # {} => \E e \in Range(Activity) : IsHighPriorityEvent(e)
            /\ Throttled /\ ~UseCompact(TableMaxWidth) => \E e \in Range(Activity) : IsAlert(e)

Graphics ==
    UNION ({BudgetCard(b).graphics : b \in Range(snapshot.budgets)}
           \cup {TableRow(app).graphics : app \in Rows})

\* The stroke of a line stays a pixel inside its drawing, and the line rises
\* where the values do.  Bars stand on the ground, within the drawing but for
\* half a pixel when there are more of them than pixels, and are no lower for
\* a larger value (Sparkline.tsx:81-89, 121-139; the samples are up to sixty,
\* viewmodel.py:414, in forty-four pixels).
ChartTrue ==
    snapshot # Unknown => \A g \in Graphics :
        /\ \A i \in DOMAIN g.line :
            /\ g.line[i].x \in 0 .. 100 * g.width
            /\ g.line[i].y \in 100 .. 100 * (g.height - 1)
            /\ i > 1 /\ g.values[i - 1] <= g.values[i] => g.line[i].y <= g.line[i - 1].y
        /\ \A i \in DOMAIN g.bars :
            /\ g.bars[i].x >= -50 /\ g.bars[i].x + g.bars[i].width <= 100 * g.width + 50
            /\ g.bars[i].y >= 200
            /\ g.bars[i].y + g.bars[i].height \in 100 * g.height .. 100 * g.height + 1
            /\ i - 1 \in DOMAIN g.bars /\ g.values[i - 1] <= g.values[i]
               => g.bars[i - 1].height <= g.bars[i].height

\* The screen says that no direct connection was visible only if an audit was
\* carried out and said so: a refusal, a status of another version, an
\* unreadable body or an audit that is still running is never good news
\* (api.ts:148-187, ActivityFeed.tsx:147-160).
AuditHonest ==
    audited # Unknown =>
        LET response == AuditResponses[audited]
        IN  /\ AuditSays(audit) = "none visible"
               => /\ response.status \in 200 .. 299
                  /\ Field(response.body, "status") = String("clear")
            /\ AuditSays(audit) = "findings"
               => /\ response.status \in 200 .. 299
                  /\ \A f \in Range(audit.findings) :
                        Called(Within(response.body, {"findings"}), {"venue"}, f.venue) # {}
=============================================================================

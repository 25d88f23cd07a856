------------------------------- MODULE Views --------------------------------
(***************************************************************************)
(* What the window derives from a snapshot (ui/src/derive.ts) and lays out *)
(* (the components).  Labels are told apart, not worded; a figure is the   *)
(* sequence of the numbers it shows, empty where a word stands for them.   *)
(***************************************************************************)
EXTENDS SnapshotContract, SequencesExt

CONSTANT DateParse      \* the milliseconds of a time, or Unknown (NaN)

StaleAfter == 15000     \* STALE_AFTER_MS

IsBudgetReadable(b) == b.health \notin {"unavailable", "unconfigured"}

BudgetTone(b) ==
    CASE b.health = "healthy" -> "healthy"
      [] b.health = "pressure" -> "warning"
      [] b.health = "critical" -> "critical"
      [] OTHER -> "neutral"

Known(n) == IF n = Unknown THEN <<>> ELSE <<n>>

\* The available and, where known, the capacity.
FormatAvailable(b) ==
    IF ~IsBudgetReadable(b) \/ b.availableNow = Unknown THEN <<>>
    ELSE Known(b.availableNow) \o Known(b.capacity)

\* In tenths when it is no whole number (toFixed).
TrimNumber(n) == IF n % 100 = 0 THEN n ELSE 10 * ((n + 5) \div 10)

FormatRefill(b) ==
    IF ~IsBudgetReadable(b) \/ b.refillPerSecond = Unknown THEN <<>>
    ELSE <<TrimNumber(b.refillPerSecond)>>

FormatQueueDepth(b) ==
    IF ~IsBudgetReadable(b) THEN <<>> ELSE Known(b.queueDepth)

\* A percentage.
FormatBudgetPressure(b) ==
    IF ~IsBudgetReadable(b) \/ b.recentPressureRatio = Unknown THEN <<>>
    ELSE <<Round(100 * b.recentPressureRatio)>>

\* What a reader of the screen is told of the chart: its ends and its length.
DescribeSeries(b) ==
    IF ~IsBudgetReadable(b) \/ b.series = <<>> THEN <<>>
    ELSE <<b.series[1], b.series[Len(b.series)], 100 * Len(b.series)>>

CapacityPercent(b) ==
    IF Unknown \in {b.availableNow, b.capacity} \/ b.capacity = 0 THEN 0
    ELSE LET percent == (200 * b.availableNow + b.capacity) \div (2 * b.capacity)
         IN  IF percent < 0 THEN 0 ELSE IF percent > 100 THEN 100 ELSE percent
-----------------------------------------------------------------------------
AgeMs(at, now) ==
    IF at = Unknown \/ DateParse[at] = Unknown THEN Unknown
    ELSE IF now < DateParse[at] THEN 0 ELSE now - DateParse[at]

Minute == 60000
Hour == 60 * Minute
Day == 24 * Hour

Ago(n, unit) == [n |-> n, unit |-> unit]
NoAge == Ago(0, "unknown")

Seconds(age) == IF age < 5000 THEN Ago(0, "now") ELSE Ago((age + 500) \div 1000, "s")

\* Mutant of FormatAge: whole minutes from the half minute on.
FormatAgeRounded(at, now) ==
    LET age == AgeMs(at, now)
    IN  IF age = Unknown THEN NoAge
        ELSE IF age < Minute THEN Seconds(age)
        ELSE Ago((age + Minute \div 2) \div Minute, "m")

FormatAge(at, now) ==
    LET age == AgeMs(at, now)
    IN  IF age = Unknown THEN NoAge
        ELSE IF age < Minute THEN Seconds(age)
        ELSE Ago(age \div Minute, "m")

FormatLastRest(app, now) ==
    LET age == AgeMs(app.lastRequestAt, now)
    IN  IF age = Unknown THEN NoAge
        ELSE IF age < Minute THEN Seconds(age)
        ELSE IF age < Hour THEN Ago(age \div Minute, "m")
        ELSE IF age < Day THEN Ago(age \div Hour, "h")
        ELSE Ago(age \div Day, "d")

SnapshotSampleAge(s, now) ==
    IF AgeMs(s.broker.sampledAt, now) # Unknown THEN AgeMs(s.broker.sampledAt, now)
    ELSE AgeMs(s.generatedAt, now)

IsSnapshotStale(s, now) ==
    /\ s.broker.state # "down"
    /\ SnapshotSampleAge(s, now) # Unknown
    /\ SnapshotSampleAge(s, now) > StaleAfter

\* Mutant of BrokerHealthLabel: the age of the sample is not looked at.
BrokerStateLabel(s, now) ==
    CASE s.broker.state = "down" -> "not responding"
      [] s.broker.state = "degraded" -> "update required"
      [] OTHER -> "healthy"

BrokerHealthLabel(s, now) ==
    CASE s.broker.state = "down" -> "not responding"
      [] s.broker.state = "degraded" -> "update required"
      [] OTHER -> IF IsSnapshotStale(s, now) THEN "stale" ELSE "healthy"
BrokerHealthTone(s, now) ==
    CASE s.broker.state = "down" -> "critical"
      [] s.broker.state = "degraded" -> "warning"
      [] OTHER -> IF IsSnapshotStale(s, now) THEN "warning" ELSE "healthy"
-----------------------------------------------------------------------------
MoneyLockView(lock) ==
    [state |-> lock.state,
     healthy |-> lock.state = "allowed",
     banner |-> lock.state # "allowed",
     canStop |-> lock.state # "stopped",
     canUnlock |-> lock.state = "stopped"]

\* The band of controls: the money lock beside the access of everybody.
SafetyStrip(s) ==
    [money |-> MoneyLockView(s.tradeLock),
     readsStopped |-> s.global.state = "stopped"]

\* One row: what it says of access, and the button it offers.
AccessCell(app) ==
    [label |-> app.access,
     button |-> IF app.access = "stopped" THEN "resume" ELSE "stop"]

MoneyLine(app, lock) ==
    IF app.appId = lock.appId THEN lock.state
    ELSE IF app.moneyMode = "real-money" THEN "no gate" ELSE "paper"

FormatRecentRequests(app) ==
    IF app.recentRequests = Unknown THEN <<>>
    ELSE Known(app.recentRequests) \o Known(app.recentWindowSeconds)

DescribeRequestSeries(app) ==
    IF Unknown \in {app.recentRequests, app.recentWindowSeconds} THEN <<>>
    ELSE <<app.recentRequests, app.recentWindowSeconds>>

FormatQueueWait(wait) == IF wait = Unknown THEN <<>> ELSE <<Round(wait)>>

FormatErrors(app) == Known(app.errors)

\* Of a venue: the counts, and the longest wait.
VenueCounts(split) == <<split.count>> \o Known(split.upstream429s) \o Known(split.headroom429s)
VenueWait(split) == FormatQueueWait(split.queueWaitMs)
-----------------------------------------------------------------------------
IsHighPriorityEvent(e) == e.severity \in {"warning", "critical"}

HasHeadroomDeltaAlert(s) ==
    \E k \in DOMAIN s.budgets : /\ s.budgets[k].throttledWithHeadroomDelta # Unknown
                                /\ s.budgets[k].throttledWithHeadroomDelta > 0

\* The first event of a kind, or Unknown.
First(events, Test(_)) ==
    LET found == {i \in DOMAIN events : Test(events[i])}
    IN  IF found = {} THEN Unknown
        ELSE events[CHOOSE i \in found : \A j \in found : i <= j]

IsPossibleDirectCaller(e) == e.kind = "possible-direct-caller" /\ IsHighPriorityEvent(e)

PossibleDirectCallerEvent(s) == First(s.activity, IsPossibleDirectCaller)

LatestHighPriorityEvent(s) ==
    IF PossibleDirectCallerEvent(s) # Unknown THEN PossibleDirectCallerEvent(s)
    ELSE First(s.activity, IsHighPriorityEvent)

SampledAts(s) == [k \in DOMAIN s.budgets |-> s.budgets[k].sampledAt]

HeadroomAlert(s) ==
    [at |-> Or(First(SampledAts(s), LAMBDA t : t # Unknown), s.generatedAt),
     kind |-> "possible-direct-caller", severity |-> "warning", appId |-> Unknown]

\* Mutant of ActivityWithHeadroomAlert: any warning stands for the alert.
ActivityUnlessWarned(s) ==
    IF ~HasHeadroomDeltaAlert(s) \/ LatestHighPriorityEvent(s) # Unknown THEN s.activity
    ELSE <<HeadroomAlert(s)>> \o s.activity

ActivityWithHeadroomAlert(s) ==
    IF ~HasHeadroomDeltaAlert(s) \/ PossibleDirectCallerEvent(s) # Unknown THEN s.activity
    ELSE <<HeadroomAlert(s)>> \o s.activity

\* The events on display.  A compact window leads with one and keeps the rest
\* behind a toggle; the lead is looked for among the events of the service.
ActivityFeed(s, compact, expanded) ==
    LET events == ActivityWithHeadroomAlert(s)
        lead == Or(LatestHighPriorityEvent(s), events[1])
        rest == RemoveFirst(events, lead)
    IN  IF events = <<>> \/ ~compact THEN events
        ELSE IF expanded THEN <<lead>> \o rest ELSE <<lead>>

\* What the result of an audit says when it has no findings to list.
AuditSays(result) ==
    IF result.findings # <<>> THEN "findings"
    ELSE IF result.status = "clear" THEN "none visible"
    ELSE "unavailable"
=============================================================================

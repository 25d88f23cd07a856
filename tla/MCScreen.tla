------------------------------ MODULE MCScreen ------------------------------
(* A payload as governor/viewmodel.py builds it, in which no two figures are *)
(* the same number, and payloads that differ from it in a field or two; the  *)
(* answers that carry them; and the times around which labels change.        *)
EXTENDS Screen, TLC

With(v, name, value) == Object(name :> value @@ v.fields)
Without(v, name) == Object([n \in DOMAIN v.fields \ {name} |-> v.fields[n]])
One(v) == Array(<<v>>)
Numbered(s) == Array([i \in DOMAIN s |-> Number(s[i])])

Time(t) == String(t)
\* In milliseconds; some lie beyond the moments of the run.
MCDateParse == "start" :> 0 @@ "later" :> 600 @@ "earlier" :> -11000
               @@ "hour" :> 40000 - Hour @@ "day" :> 40000 - Day @@ "junk" :> Unknown
MCMoments == {0, 900, 5000, 5900, 15000, 15001, 16000, 59500, 60000, 90000}
-----------------------------------------------------------------------------
Budget == Object(
    "id" :> String("pmus") @@ "health" :> String("healthy") @@ "configured" :> Truth(TRUE)
    @@ "available_now" :> Number(4150) @@ "capacity" :> Number(6000)
    @@ "refill_per_second" :> Number(333) @@ "queue_depth" :> Number(500)
    @@ "recent_pressure" :> Number(31) @@ "throttled_with_headroom_delta" :> Number(0)
    @@ "series" :> Numbered(<<1000, 5500, 2300>>) @@ "sampled_at" :> Time("start"))

Venue == Object("venue" :> String("pmus") @@ "count" :> Number(900)
                @@ "upstream_429s" :> Number(1000) @@ "headroom_429s" :> Number(1100)
                @@ "queue_wait_ms" :> Number(1234))

Row == Object(
    "app_id" :> String("execution") @@ "name" :> String("name")
    @@ "money_mode" :> String("real-money") @@ "access" :> String("allowed")
    @@ "recent_requests" :> Number(4200) @@ "recent_window_seconds" :> Number(29500)
    @@ "request_series" :> Array(<<Number(700), Null, Number(1960), Number(1910)>>)
    @@ "queue_wait_ms" :> Number(1751) @@ "errors" :> Number(600)
    @@ "venue_split" :> One(Venue) @@ "last_request_at" :> Time("start"))

Event(kind, severity) ==
    Object("at" :> Time("start") @@ "kind" :> String(kind) @@ "severity" :> String(severity)
           @@ "app_id" :> String("execution"))
Direct == "possible-direct-caller"

State(word) == Object("state" :> String(word) @@ "revision" :> Number(300))
Access(word) == Object("global" :> State(word))
Broker == Object("state" :> String("healthy") @@ "sampled_at" :> Time("start"))
Lock(word) == With(State(word), "app_id", String("execution"))

Base == Object(
    "schemaVersion" :> Number(SchemaVersion) @@ "revision" :> Number(300)
    @@ "generatedAt" :> Time("later") @@ "broker" :> Broker
    @@ "brokerAccess" :> Access("allowed") @@ "tradeLock" :> Lock("allowed")
    @@ "budgets" :> One(Budget) @@ "apps" :> One(Row)
    @@ "activity" :> One(Event("access-policy", "info")))

OfBudget(name, value) == With(Base, "budgets", One(With(Budget, name, value)))
OfRow(name, value) == With(Base, "apps", One(With(Row, name, value)))
OfBroker(name, value) == With(Base, "broker", With(Broker, name, value))

Throttle(events) ==
    With(With(Base, "budgets", One(With(Budget, "throttled_with_headroom_delta", Number(200)))),
         "activity", Array(events))

\* The spellings of contracts.ts, where the service has others.
Camel == With(With(With(Base,
    "budgets", One(Object(
        "budget" :> String("pmus") @@ "health" :> String("critical")
        @@ "availableNow" :> Number(4150) @@ "capacity" :> Number(6000)
        @@ "refillPerSecond" :> Number(333) @@ "queueDepth" :> Number(500)
        @@ "recentPressureRatio" :> Number(31) @@ "throttledWithHeadroomDelta" :> Number(200)
        @@ "series" :> Numbered(<<1000, 5500, 2300>>) @@ "sampledAt" :> Time("start")))),
    "apps", One(Object(
        "appId" :> String("execution") @@ "name" :> String("name")
        @@ "access" :> String("stopped") @@ "recentRequests" :> Number(4200)
        @@ "recentWindowSeconds" :> Number(29500) @@ "requestSeries" :> Numbered(<<700, 1960>>)
        @@ "queueWaitMs" :> Number(1751) @@ "errors" :> Number(600)
        @@ "venueSplit" :> One(Object(
            "venue" :> String("pmus") @@ "upstream429s" :> Number(1000)
            @@ "headroom429s" :> Null @@ "queueWaitMs" :> Number(1234)))
        @@ "lastRequestAt" :> Time("hour")))),
    "broker", Object("state" :> String("healthy") @@ "sampledAt" :> Time("start")
                     @@ "collectionPaused" :> Truth(TRUE)))

\* Of other types, null, and missing.
Partial == With(With(Base,
    "budgets", Array(<<Null, Object(
        "id" :> String("pmus") @@ "health" :> String("pressure")
        @@ "available_now" :> String("41") @@ "capacity" :> Null
        @@ "refill_per_second" :> Truth(TRUE) @@ "series" :> Array(<<Null, Number(100)>>)),
      Object("id" :> String("kalshi.perps") @@ "health" :> String("healthy")
             @@ "available_now" :> Number(0) @@ "capacity" :> Number(0)
             @@ "recent_pressure" :> Null)>>)),
    "apps", Array(<<Number(1), Object("app_id" :> String("nameless")),
      Object("app_id" :> String("execution") @@ "name" :> String("name")
             @@ "recent_requests" :> Null @@ "errors" :> String("0")
             @@ "venue_split" :> Array(<<Null, Object("venue" :> String("pmus"))>>))>>))

Long == With(OfBudget("series", Numbered([i \in 1 .. 50 |-> 100 * ((7 * i) % 11)])),
             "apps", One(With(Row, "request_series",
                              Numbered([i \in 1 .. 50 |-> 100 * ((5 * i) % 9)]))))

Shown ==
    "base" :> Base @@ "camel" :> Camel @@ "partial" :> Partial @@ "long" :> Long
    @@ "bare" :> Without(Without(Without(Base, "budgets"), "apps"), "activity")
    @@ "flat" :> OfBudget("series", Numbered(<<0, 0>>))
    @@ "single" :> OfBudget("series", Numbered(<<500>>))
    @@ "unconfigured" :> OfBudget("configured", Truth(FALSE))
    @@ "unavailable" :> OfBudget("health", String("asleep"))
    @@ "overfull" :> OfBudget("available_now", Number(6100))
    @@ "lock stopped" :> With(Base, "tradeLock", Lock("stopped"))
    @@ "lock stopping" :> With(Base, "tradeLock", Lock("stopping"))
    @@ "lock unavailable" :> With(Base, "tradeLock", Lock("unavailable"))
    @@ "lock elsewhere" :> With(Without(Base, "tradeLock"), "trade_lock", State("stopped"))
    @@ "no lock" :> Without(Base, "tradeLock")
    @@ "all stopped" :> With(Base, "brokerAccess", Access("stopped"))
    @@ "no access" :> With(Without(Base, "brokerAccess"), "broker_access", Object(<<>>))
    @@ "app stopped" :> OfRow("access", String("stopped"))
    @@ "other app" :> OfRow("app_id", String("research"))
    @@ "no series" :> OfRow("request_series", Null)
    @@ "rested" :> OfRow("last_request_at", Time("day"))
    @@ "throttle" :> Throttle(<<Event("access-policy", "info")>>)
    @@ "throttle only" :> Throttle(<<>>)
    @@ "throttle second" :> Throttle(<<Event("broker-unavailable", "critical")>>)
    @@ "throttle noted" :> Throttle(<<Event(Direct, "info"), Event("restart", "info")>>)
    @@ "throttle logged" :> Throttle(<<Event("restart", "warning"), Event(Direct, "warning")>>)
    @@ "down" :> OfBroker("state", String("down"))
    @@ "degraded" :> OfBroker("state", String("degraded"))
    @@ "ahead" :> OfBroker("sampled_at", Time("later"))
    @@ "behind" :> OfBroker("sampled_at", Time("earlier"))
    @@ "no sample" :> OfBroker("sampled_at", Null)
    @@ "no time" :> With(OfBroker("sampled_at", Time("junk")), "generatedAt", Time("junk"))

Refused ==
    "array" :> Array(<<Base>>) @@ "version" :> With(Base, "schemaVersion", Number(200))
    @@ "no version" :> Without(Base, "schemaVersion") @@ "no revision" :> With(Base, "revision", Null)
    @@ "no broker" :> With(Base, "broker", Null)

Answer(status, body) == [status |-> status, body |-> body]

Answers(bodies) == [r \in DOMAIN bodies |-> Answer(200, bodies[r])]

MCResponses ==
    Answers(Shown @@ Refused)
    @@ "applied" :> Answer(200, Object("snapshot" :> With(Base, "tradeLock", Lock("stopped"))))
    @@ "conflict" :> Answer(409, Object("snapshot" :> With(Base, "brokerAccess", Access("stopped"))))
    @@ "not found" :> Answer(404, Base) @@ "broken" :> Answer(503, Base)
    @@ "no answer" :> Answer(0, Undefined) @@ "no json" :> Answer(200, Undefined)

Findings == One(Object("venue" :> String("pmus") @@ "process_name" :> String("p")
                       @@ "pid" :> Number(4200) @@ "observations" :> Number(100)))

MCAuditResponses ==
    "clear" :> Answer(200, Object("status" :> String("clear")))
    @@ "findings" :> Answer(200, Object("status" :> String("findings") @@ "findings" :> Findings))
    @@ "garbled" :> Answer(200, Object("status" :> String("findings") @@ "findings" :> One(Null)))
    @@ "newer" :> Answer(200, Object("status" :> String("partial")))
    @@ "refused" :> Answer(403, Object("status" :> String("clear")))
    @@ "no json" :> Answer(200, Undefined)
=============================================================================

-------------------------- MODULE SnapshotContract --------------------------
(***************************************************************************)
(* The frontend's contract (ui/src/contracts.ts, and the answers of        *)
(* api.ts): what the window makes of a JSON body.                          *)
(*                                                                         *)
(* A JSON value is a record that names its type and carries what it holds  *)
(* in a field of that type.  Numbers are counted in hundredths; one too    *)
(* large to be finite is as good as none.  Fields are left out that the    *)
(* window does not show or that only its wording depends on.               *)
(***************************************************************************)
EXTENDS Integers, Sequences, FiniteSets

CONSTANT Unknown        \* null, where the window shows "Unknown"

Number(n) == [is |-> "number", number |-> n]
String(w) == [is |-> "string", string |-> w]
Truth(b) == [is |-> "boolean", boolean |-> b]
Array(s) == [is |-> "array", array |-> s]
Object(f) == [is |-> "object", fields |-> f]
Null == [is |-> "null"]
Undefined == [is |-> "undefined"]

\* Of what is no object the readers take an empty one.
Field(v, name) ==
    IF v.is = "object" /\ name \in DOMAIN v.fields THEN v.fields[name] ELSE Undefined

\* v[name] ?? v[other]
Either(v, name, other) ==
    IF Field(v, name).is \in {"undefined", "null"} THEN Field(v, other) ELSE Field(v, name)

\* Mutant of ReadNumber: a number that is not there is a zero.
ReadNumberOrZero(v) == IF v.is = "number" THEN v.number ELSE 0

ReadNumber(v) == IF v.is = "number" THEN v.number ELSE Unknown

ReadString(v) == IF v.is = "string" /\ v.string # "" THEN v.string ELSE Unknown

ReadBoolean(v) == v = Truth(TRUE)

ReadArray(v) == IF v.is = "array" THEN v.array ELSE <<>>

IsWord(v, words) == v.is = "string" /\ v.string \in words

\* value ?? fallback
Or(v, fallback) == IF v = Unknown THEN fallback ELSE v

ReadAccessState(v) == IF IsWord(v, {"stopped"}) THEN "stopped" ELSE "allowed"

\* Mutant of ReadMoneyLockState: a state that was added later is not known.
ReadTwoLockStates(v) == IF IsWord(v, {"stopped"}) THEN "stopped" ELSE "allowed"

ReadMoneyLockState(v) ==
    IF IsWord(v, {"stopped", "stopping", "unavailable"}) THEN v.string ELSE "allowed"

ReadControlRecord(v) ==
    [state |-> ReadAccessState(Field(v, "state")),
     revision |-> Or(ReadNumber(Field(v, "revision")), 0)]
-----------------------------------------------------------------------------
BudgetIds == <<"pmus", "kalshi.predictions", "kalshi.perps">>

EmptyBudget(id) ==
    [id |-> id, health |-> "unavailable", availableNow |-> Unknown, capacity |-> Unknown,
     refillPerSecond |-> Unknown, queueDepth |-> Unknown, recentPressureRatio |-> Unknown,
     throttledWithHeadroomDelta |-> Unknown, series |-> <<>>, sampledAt |-> Unknown]

ReadBudgetHealth(v) ==
    IF IsWord(v, {"healthy", "pressure", "critical", "unconfigured"}) THEN v.string
    ELSE "unavailable"

ReadPoint(v) == Or(ReadNumber(v), 0)

ReadBudget(v, id) ==
    IF v.is # "object" THEN EmptyBudget(id) ELSE
    [id |-> id,
     health |-> IF Field(v, "configured") = Truth(FALSE) THEN "unconfigured"
                ELSE ReadBudgetHealth(Field(v, "health")),
     availableNow |-> ReadNumber(Either(v, "available_now", "availableNow")),
     capacity |-> ReadNumber(Field(v, "capacity")),
     refillPerSecond |-> ReadNumber(Either(v, "refill_per_second", "refillPerSecond")),
     queueDepth |-> ReadNumber(Either(v, "queue_depth", "queueDepth")),
     recentPressureRatio |-> ReadNumber(Either(v, "recent_pressure", "recentPressureRatio")),
     throttledWithHeadroomDelta |->
        ReadNumber(Either(v, "throttled_with_headroom_delta", "throttledWithHeadroomDelta")),
     series |-> [i \in DOMAIN ReadArray(Field(v, "series")) |->
                    ReadPoint(ReadArray(Field(v, "series"))[i])],
     sampledAt |-> ReadString(Either(v, "sampled_at", "sampledAt"))]

ReadBudgets(v) ==
    LET matches(id) == {i \in DOMAIN v : v[i].is = "object"
                            /\ String(id) \in {Field(v[i], "id"), Field(v[i], "budget")}}
        first(id) == CHOOSE i \in matches(id) : \A j \in matches(id) : i <= j
    IN  [k \in 1 .. 3 |-> IF matches(BudgetIds[k]) = {} THEN EmptyBudget(BudgetIds[k])
                          ELSE ReadBudget(v[first(BudgetIds[k])], BudgetIds[k])]
-----------------------------------------------------------------------------
\* Math.round, in hundredths.
Round(n) == 100 * ((n + 50) \div 100)

ReadCount(v) ==
    LET n == ReadNumber(v)
    IN  IF n = Unknown THEN Unknown ELSE IF Round(n) < 0 THEN 0 ELSE Round(n)

\* The entries that could be read, in their order.
Kept(s) ==
    LET read == {i \in DOMAIN s : s[i] # Unknown}
        nth(k) == CHOOSE i \in read : Cardinality({j \in read : j <= i}) = k
    IN  [k \in 1 .. Cardinality(read) |-> s[nth(k)]]

ReadVenueSplit(v) ==
    IF ReadString(Field(v, "venue")) = Unknown THEN Unknown ELSE
    [venue |-> ReadString(Field(v, "venue")),
     count |-> Or(ReadNumber(Field(v, "count")), 0),
     upstream429s |-> ReadNumber(Either(v, "upstream_429s", "upstream429s")),
     headroom429s |-> ReadNumber(Either(v, "headroom_429s", "headroom429s")),
     queueWaitMs |-> ReadNumber(Either(v, "queue_wait_ms", "queueWaitMs"))]

ReadAppRow(v) ==
    LET appId == ReadString(Either(v, "app_id", "appId"))
        series == ReadArray(Either(v, "request_series", "requestSeries"))
        split == ReadArray(Either(v, "venue_split", "venueSplit"))
    IN  IF Unknown \in {appId, ReadString(Field(v, "name"))} THEN Unknown ELSE
        [appId |-> appId,
         moneyMode |-> IF Either(v, "money_mode", "moneyMode") = String("real-money")
                       THEN "real-money" ELSE "paper",
         access |-> ReadAccessState(Field(v, "access")),
         recentRequests |-> ReadNumber(Either(v, "recent_requests", "recentRequests")),
         requestSeries |-> [i \in DOMAIN series |-> ReadCount(series[i])],
         recentWindowSeconds |->
            ReadNumber(Either(v, "recent_window_seconds", "recentWindowSeconds")),
         queueWaitMs |-> ReadNumber(Either(v, "queue_wait_ms", "queueWaitMs")),
         errors |-> ReadNumber(Field(v, "errors")),
         venueSplit |-> Kept([i \in DOMAIN split |-> ReadVenueSplit(split[i])]),
         lastRequestAt |-> ReadString(Either(v, "last_request_at", "lastRequestAt"))]

ReadSeverity(v) == IF IsWord(v, {"warning", "critical"}) THEN v.string ELSE "info"

ReadActivityEvent(v) ==
    IF Unknown \in {ReadString(Field(v, "at")), ReadString(Field(v, "kind"))} THEN Unknown ELSE
    [at |-> ReadString(Field(v, "at")),
     kind |-> ReadString(Field(v, "kind")),
     severity |-> ReadSeverity(Field(v, "severity")),
     appId |-> ReadString(Either(v, "app_id", "appId"))]

ReadBrokerRecord(v) ==
    [state |-> IF IsWord(Field(v, "state"), {"down", "degraded"})
               THEN Field(v, "state").string ELSE "healthy",
     sampledAt |-> ReadString(Either(v, "sampled_at", "sampledAt")),
     collectionPaused |-> ReadBoolean(Either(v, "collection_paused", "collectionPaused"))]
-----------------------------------------------------------------------------
SchemaVersion == 100        \* SNAPSHOT_SCHEMA_VERSION = 1

Problem(kind) == [ok |-> FALSE, problem |-> kind]

ParseSnapshot(p) ==
    LET access == Either(p, "brokerAccess", "broker_access")
        lock == Either(p, "tradeLock", "trade_lock")
        revision == ReadNumber(Field(p, "revision"))
        generatedAt == ReadString(Either(p, "generatedAt", "generated_at"))
        apps == ReadArray(Field(p, "apps"))
        activity == ReadArray(Field(p, "activity"))
    IN  IF p.is # "object" \/ Field(p, "schemaVersion").is # "number"
        THEN Problem("invalid-payload")
        ELSE IF Field(p, "schemaVersion") # Number(SchemaVersion)
        THEN Problem("unsupported-schema")
        ELSE IF \/ Unknown \in {revision, generatedAt}
                \/ access.is # "object"
                \/ Field(p, "broker").is # "object"
        THEN Problem("invalid-payload")
        ELSE [ok |-> TRUE, snapshot |->
              [revision |-> revision,
               generatedAt |-> generatedAt,
               broker |-> ReadBrokerRecord(Field(p, "broker")),
               global |-> ReadControlRecord(Field(access, "global")),
               tradeLock |->
                [appId |-> Or(ReadString(Either(lock, "app_id", "appId")), "execution"),
                 state |-> ReadMoneyLockState(Field(lock, "state"))],
               budgets |-> ReadBudgets(ReadArray(Field(p, "budgets"))),
               apps |-> Kept([i \in DOMAIN apps |-> ReadAppRow(apps[i])]),
               activity |-> Kept([i \in DOMAIN activity |-> ReadActivityEvent(activity[i])])]]

\* A response is a status (zero when none came) and a body; the body of a
\* response that is no JSON is Undefined.
LoadSnapshot(response) ==
    IF response.status = 0 \/ response.status >= 500 THEN Problem("unreachable")
    ELSE IF response.status \notin 200 .. 299 \/ response.body = Undefined
    THEN Problem("invalid-payload")
    ELSE ParseSnapshot(response.body)

\* A control's answer: its status and, if there is one to read, the snapshot.
ApplyControl(response) ==
    LET inner == Field(response.body, "snapshot")
        parsed == ParseSnapshot(IF inner.is \in {"undefined", "null"} THEN response.body
                                ELSE inner)
        read == IF parsed.ok THEN parsed.snapshot ELSE Unknown
    IN  IF response.status = 409 THEN [status |-> "conflict", snapshot |-> read]
        ELSE IF response.status \notin 200 .. 299 \/ ~parsed.ok
        THEN [status |-> "failed", snapshot |-> Unknown]
        ELSE [status |-> "applied", snapshot |-> read]
-----------------------------------------------------------------------------
NoAudit == [status |-> "none", findings |-> <<>>]

ReadFinding(v) ==
    IF /\ \A name \in {"venue", "process_name"} : Field(v, name).is = "string"
       /\ \A name \in {"pid", "observations"} : Field(v, name).is = "number"
    THEN [venue |-> Field(v, "venue").string, pid |-> Field(v, "pid").number]
    ELSE Unknown

\* Mutant of RunTrafficAudit: a status that is not understood is good news.
AuditClearByDefault(response) ==
    LET findings == ReadArray(Field(response.body, "findings"))
    IN  [status |->
            IF IsWord(Field(response.body, "status"), {"findings", "unavailable"})
            THEN Field(response.body, "status").string ELSE "clear",
         findings |-> Kept([i \in DOMAIN findings |-> ReadFinding(findings[i])])]

\* A body of null makes its fields' reader throw; any other that is no object
\* has no such fields.
RunTrafficAudit(response) ==
    LET findings == ReadArray(Field(response.body, "findings"))
    IN  IF response.status \notin 200 .. 299 THEN [status |-> "failed", findings |-> <<>>]
        ELSE [status |->
                IF IsWord(Field(response.body, "status"), {"clear", "findings", "unavailable"})
                THEN Field(response.body, "status").string ELSE "failed",
              findings |-> Kept([i \in DOMAIN findings |-> ReadFinding(findings[i])])]
=============================================================================

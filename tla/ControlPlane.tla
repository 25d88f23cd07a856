---------------------------- MODULE ControlPlane ----------------------------
(***************************************************************************)
(* How a stop reaches the broker: the Governor commits it to the control   *)
(* database (governor/store.py), then publishes the whole control state in *)
(* a policy file (governor/publisher.py), which the broker's reader looks  *)
(* at before it admits a request (venue_broker/control_policy.py).         *)
(*                                                                         *)
(* Four activities publish.  "loop" is the Governor's event loop, which    *)
(* runs one broker-access control at a time; "worker" is the thread of a   *)
(* trade control, one at a time under the order lock; "governor" and       *)
(* "broker" are the starts of the two processes, which publish first and   *)
(* find out later whether their port is free.                              *)
(*                                                                         *)
(* The transaction of a control is one step.  The snapshot taken after it  *)
(* is not: each of its SELECTs sees the database of its own instant.  An   *)
(* app stands for its scope broker:app:<id>.  The database exists.         *)
(***************************************************************************)
EXTENDS Integers, FiniteSets

CONSTANTS
    Global,         \* broker:global
    Apps,           \* broker:app:<id>
    Trade,          \* trade:new-orders:execution, not published
    Absent,         \* no policy file
    MayOverlap,     \* whether two publications may be in progress at once
    MayFail,        \* whether a write of the policy file may fail
    OpenBlocks,     \* whether a file that is being read resists replacement
    MaxRevision,    \* bound on the controls that change the state
    MaxStamp        \* bound on the publications

Published == Apps \cup {Global}
Scopes == Published \cup {Trade}
Controllers == {"loop", "worker"}
Starters == {"governor", "broker"}
Publishers == Controllers \cup Starters
Phases == {"idle", "opening", "checking", "numbering", "copying", "replacing", "unlinking"}

ASSUME ControlAssumption ==
    /\ Global \notin Apps
    /\ Trade \notin Published
    /\ {MayOverlap, MayFail, OpenBlocks} \subseteq BOOLEAN
    /\ MaxRevision \in Nat
    /\ MaxStamp \in Nat \ {0}

Policy == [revision : Nat, stopped : SUBSET Scopes]
Stamped == [stamp : Nat, policy : Policy]

ASSUME AbsentAssumption == Absent \notin Stamped \cup Policy

VARIABLES
    revision,   \* maintenance_state.revision
    stopped,    \* the scopes whose control_state row says stopped
    file,       \* the policy file: its metadata and its contents
    stamp,      \* the metadata last given to a policy file
    pc,         \* how far the publication of an activity is
    job,        \* what a controller's publication is for
    draft,      \* the snapshot being taken for it
    serving,    \* the processes that serve, of "governor" and "broker"
    reading,    \* the reader's step: "idle", "stat" or "open"
    seen,       \* the metadata it has found in this decision
    text,       \* the contents of the file it has open
    cache,      \* _metadata and _policy
    answer,     \* history: the policy its last decision was made from
    promised,   \* history: acknowledged stops that no later resume has undone
    held        \* history: those promised all through the last decision

store == <<revision, stopped>>
disk == <<file, stamp>>
publications == <<pc, job, draft>>
reader == <<reading, seen, text, cache, answer>>
vars == <<store, disk, publications, serving, reader, promised, held>>

NoJob == [action |-> "none", scope |-> Trade]
Blank == [revision |-> 0, stopped |-> {}]
NoCache == Absent

Init ==
    /\ revision = 0
    /\ stopped = {}
    /\ file = [stamp |-> 0, policy |-> Blank]
    /\ stamp = 0
    /\ pc = [x \in Publishers |-> "idle"]
    /\ job = [x \in Publishers |-> NoJob]
    /\ draft = [x \in Publishers |-> Blank]
    /\ serving = Starters
    /\ reading = "idle"
    /\ seen = 0
    /\ text = Blank
    /\ cache = NoCache
    /\ answer = Absent
    /\ promised = {}
    /\ held = {}

InProgress == {x \in Publishers : pc[x] # "idle"}
Current == [revision |-> revision, stopped |-> stopped]

MayBegin(x) ==
    /\ pc[x] = "idle"
    /\ MayOverlap \/ InProgress = {}
    /\ stamp + Cardinality(InProgress) < MaxStamp

Goto(x, phase) ==
    /\ pc' = [pc EXCEPT ![x] = phase]
    /\ job' = IF phase = "idle" THEN [job EXCEPT ![x] = NoJob] ELSE job
    /\ draft' = IF phase = "idle" THEN [draft EXCEPT ![x] = Blank] ELSE draft
-----------------------------------------------------------------------------
\* apply() of a stop or a resume on the scope, with the revision its client
\* expects.  The state a resume leaves is "allowed".
Asked(x, action, scope) ==
    /\ "governor" \in serving
    /\ MayBegin(x)
    /\ scope \in IF x = "worker" THEN {Trade} ELSE Published
    /\ action \in {"stop", "resume"}

AlreadySo(action, scope) == (action = "stop") = (scope \in stopped)

Conflict(x, action, scope, expected) ==
    /\ Asked(x, action, scope)
    /\ expected # revision
    /\ UNCHANGED vars

\* Nothing to change: acknowledged, and nothing is published.
NoChange(x, action, scope, expected) ==
    /\ Asked(x, action, scope)
    /\ expected = revision
    /\ AlreadySo(action, scope)
    /\ promised' = IF action = "stop" THEN promised \cup {scope} ELSE promised
    /\ UNCHANGED <<store, disk, publications, serving, reader, held>>

Commit(x, action, scope, expected) ==
    /\ Asked(x, action, scope)
    /\ expected = revision
    /\ ~AlreadySo(action, scope)
    /\ revision < MaxRevision
    /\ revision' = revision + 1
    /\ stopped' = IF action = "stop" THEN stopped \cup {scope} ELSE stopped \ {scope}
    /\ pc' = [pc EXCEPT ![x] = "opening"]
    /\ job' = [job EXCEPT ![x] = [action |-> action, scope |-> scope]]
    /\ promised' = promised \ {scope}
    /\ held' = held \ {scope}
    /\ UNCHANGED <<disk, draft, serving, reader>>

\* ControlStore.create() of a process that starts, a superfluous one included.
Start(x) ==
    /\ x \in Starters
    /\ MayBegin(x)
    /\ pc' = [pc EXCEPT ![x] = "opening"]
    /\ UNCHANGED <<store, disk, job, draft, serving, reader, promised, held>>

\* An exception while a policy is being published: apply() goes on to unlink
\* the file, a starting process gives up.
Fail(x) == Goto(x, IF x \in Controllers THEN "unlinking" ELSE "idle")

\* snapshot(): _validate reads the revision, then the rows, none of which may
\* have a later one; then the revision and the rows are read again.
OpenSnapshot(x) ==
    /\ pc[x] = "opening"
    /\ draft' = [draft EXCEPT ![x].revision = revision]
    /\ pc' = [pc EXCEPT ![x] = "checking"]
    /\ UNCHANGED <<store, disk, job, serving, reader, promised, held>>

\* Mutant of CheckSnapshot: the rows' revisions must be below the state's.
CheckStrictly(x) ==
    /\ pc[x] = "checking"
    /\ IF revision < draft[x].revision THEN Goto(x, "numbering") ELSE Fail(x)
    /\ UNCHANGED <<store, disk, serving, reader, promised, held>>

CheckSnapshot(x) ==
    /\ pc[x] = "checking"
    /\ IF revision = draft[x].revision THEN Goto(x, "numbering") ELSE Fail(x)
    /\ UNCHANGED <<store, disk, serving, reader, promised, held>>

NumberSnapshot(x) ==
    /\ pc[x] = "numbering"
    /\ draft' = [draft EXCEPT ![x].revision = revision]
    /\ pc' = [pc EXCEPT ![x] = "copying"]
    /\ UNCHANGED <<store, disk, job, serving, reader, promised, held>>

CopySnapshot(x) ==
    /\ pc[x] = "copying"
    /\ draft' = [draft EXCEPT ![x].stopped = stopped]
    /\ pc' = [pc EXCEPT ![x] = "replacing"]
    /\ UNCHANGED <<store, disk, job, serving, reader, promised, held>>

\* A file the reader holds open can be neither replaced nor removed.
Blocked == OpenBlocks /\ reading = "open"

\* Mutant of Replace: whatever publishes is taken to serve.
ReplaceAndServe(x) ==
    /\ pc[x] = "replacing"
    /\ ~Blocked
    /\ stamp' = stamp + 1
    /\ file' = [stamp |-> stamp', policy |-> draft[x]]
    /\ Goto(x, "idle")
    /\ promised' = IF job[x].action = "stop"
                   THEN promised \cup {job[x].scope} ELSE promised
    /\ serving' = serving \cup {x}
    /\ UNCHANGED <<store, reader, held>>

\* os.replace(): the policy is in place; a control is acknowledged, a process
\* goes on to serve.
Replace(x) ==
    /\ pc[x] = "replacing"
    /\ ~Blocked
    /\ stamp' = stamp + 1
    /\ file' = [stamp |-> stamp', policy |-> draft[x]]
    /\ Goto(x, "idle")
    /\ promised' = IF job[x].action = "stop"
                   THEN promised \cup {job[x].scope} ELSE promised
    /\ serving' = serving \cup ({x} \cap Starters)
    /\ UNCHANGED <<store, reader, held>>

ReplaceFails(x) ==
    /\ pc[x] = "replacing"
    /\ MayFail \/ Blocked
    /\ Fail(x)
    /\ UNCHANGED <<store, disk, serving, reader, promised, held>>

\* Mutant of Unlink: the policy in place is left there.
UnlinkNothing(x) ==
    /\ pc[x] = "unlinking"
    /\ Goto(x, "idle")
    /\ UNCHANGED <<store, disk, serving, reader, promised, held>>

\* The error path of apply(): the control is refused with an error.
Unlink(x) ==
    /\ pc[x] = "unlinking"
    /\ file' = IF Blocked THEN file ELSE Absent
    /\ Goto(x, "idle")
    /\ UNCHANGED <<store, stamp, serving, reader, promised, held>>

\* A process dies.  A governor that serves takes its controls with it.
Die(x) ==
    /\ x \in Starters
    /\ serving' = serving \ {x}
    /\ LET gone == IF x = "governor" THEN Controllers \cup {x} ELSE {x}
       IN  /\ pc' = [y \in Publishers |-> IF y \in gone THEN "idle" ELSE pc[y]]
           /\ job' = [y \in Publishers |-> IF y \in gone THEN NoJob ELSE job[y]]
           /\ draft' = [y \in Publishers |-> IF y \in gone THEN Blank ELSE draft[y]]
    /\ IF x = "broker"
       THEN /\ reading' = "idle"
            /\ seen' = 0
            /\ text' = Blank
            /\ cache' = NoCache
            /\ answer' = Absent
       ELSE UNCHANGED reader
    /\ UNCHANGED <<store, disk, promised, held>>
-----------------------------------------------------------------------------
\* Mutant of StatFile: a cached policy is used for good.
StatOnce ==
    /\ "broker" \in serving
    /\ reading = "idle"
    /\ held' = promised
    /\ IF file = Absent
       THEN answer' = Absent /\ UNCHANGED <<reading, seen>>
       ELSE IF cache # NoCache
            THEN answer' = cache.policy /\ UNCHANGED <<reading, seen>>
            ELSE reading' = "stat" /\ seen' = file.stamp /\ UNCHANGED answer
    /\ UNCHANGED <<store, disk, publications, serving, text, cache, promised>>

\* decision(): the metadata first.  A missing file is no policy, and metadata
\* that are those of the cache save the reading.
StatFile ==
    /\ "broker" \in serving
    /\ reading = "idle"
    /\ held' = promised
    /\ IF file = Absent
       THEN answer' = Absent /\ UNCHANGED <<reading, seen>>
       ELSE IF cache # NoCache /\ file.stamp = cache.stamp
            THEN answer' = cache.policy /\ UNCHANGED <<reading, seen>>
            ELSE reading' = "stat" /\ seen' = file.stamp /\ UNCHANGED answer
    /\ UNCHANGED <<store, disk, publications, serving, text, cache, promised>>

OpenFile ==
    /\ reading = "stat"
    /\ IF file = Absent
       THEN /\ reading' = "idle"
            /\ answer' = Absent
            /\ UNCHANGED text
       ELSE /\ reading' = "open"
            /\ text' = file.policy
            /\ UNCHANGED answer
    /\ UNCHANGED <<store, disk, publications, serving, seen, cache, promised, held>>

\* Mutant of CloseFile: the metadata are those found after the reading.
CloseThenStat ==
    /\ reading = "open"
    /\ reading' = "idle"
    /\ cache' = [stamp |-> IF file = Absent THEN seen ELSE file.stamp, policy |-> text]
    /\ answer' = text
    /\ UNCHANGED <<store, disk, publications, serving, seen, text, promised, held>>

\* The text is read, validated and kept with the metadata found at first.
CloseFile ==
    /\ reading = "open"
    /\ reading' = "idle"
    /\ cache' = [stamp |-> seen, policy |-> text]
    /\ answer' = text
    /\ UNCHANGED <<store, disk, publications, serving, seen, text, promised, held>>

Control(x) ==
    \E action \in {"stop", "resume"}, scope \in Scopes, expected \in 0 .. MaxRevision :
        \/ Conflict(x, action, scope, expected)
        \/ NoChange(x, action, scope, expected)
        \/ Commit(x, action, scope, expected)

Publish(x) ==
    \/ OpenSnapshot(x) \/ CheckSnapshot(x) \/ NumberSnapshot(x) \/ CopySnapshot(x)
    \/ Replace(x) \/ ReplaceFails(x) \/ Unlink(x)

Read == StatFile \/ OpenFile \/ CloseFile

Next ==
    \/ \E x \in Controllers : Control(x)
    \/ \E x \in Starters : Start(x) \/ Die(x)
    \/ \E x \in Publishers : Publish(x)
    \/ Read

Spec == Init /\ [][Next]_vars
-----------------------------------------------------------------------------
TypeOK ==
    /\ revision \in Nat
    /\ stopped \subseteq Scopes
    /\ file \in Stamped \cup {Absent}
    /\ stamp \in Nat
    /\ pc \in [Publishers -> Phases]
    /\ job \in [Publishers -> [action : {"none", "stop", "resume"}, scope : Scopes]]
    /\ draft \in [Publishers -> Policy]
    /\ serving \subseteq Starters
    /\ reading \in {"idle", "stat", "open"}
    /\ seen \in Nat
    /\ text \in Policy
    /\ cache \in Stamped \cup {NoCache}
    /\ answer \in Policy \cup {Absent}
    /\ promised \subseteq Scopes
    /\ held \subseteq Scopes

\* The reader's cache is never wrong about the file it would stand for: when
\* the metadata agree, so do the contents, though the file may be replaced
\* between the stat and the read (control_policy.py:53-61).
CacheHonest ==
    file # Absent /\ cache # NoCache /\ file.stamp = cache.stamp
        => file.policy = cache.policy

\* decision(): a caller is let through by a policy that stops neither all nor
\* its app; a caller of no app is held by the global scope alone.
Allowed(policy, scope) == {Global, scope} \cap policy.stopped = {}

\* A stop that was acknowledged holds: no decision lets a caller through when
\* the stop of its app, or of all, was acknowledged before the decision began
\* and not undone since, whatever dies, restarts or fails on the way
\* (store.py:370-379, control_policy.py:66-77).
StopHolds ==
    answer # Absent /\ reading = "idle" =>
        \A scope \in Published :
            Allowed(answer, scope) => {Global, scope} \cap held = {}

\* Between controls, the file of a serving Governor is its database's state,
\* or there is none: never an older one (store.py:374-377, "Leaving an older
\* all-allowed policy in place would make that failure unsafe").
QuietAgreement ==
    "governor" \in serving /\ InProgress = {} => file \in {Absent} \cup
        [stamp : {stamp}, policy : {Current}]

\* No false alarm: a control's publication never takes a good database for a bad
\* one and withdraws the policy, shutting the broker off, although the snapshot
\* is read by four separate statements (store.py:232-288, 371-379).
NoFalseAlarm ==
    [][\A x \in Controllers : pc[x] = "checking" => pc'[x] # "unlinking"]_vars
=============================================================================

----------------------------- MODULE Dashboard -----------------------------
(***************************************************************************)
(* The window of an operator (ui/src/App.tsx, api.ts, ConfirmDialog.tsx)   *)
(* and the Governor it talks to (governor/service.py).  The window loads   *)
(* snapshots, by itself every five seconds and on demand, and sends one    *)
(* control at a time, with the revision of the snapshot it shows; nothing  *)
(* ties the answers of loads to those of controls.                         *)
(*                                                                         *)
(* A snapshot is a revision and the scopes stopped at it.  The Governor    *)
(* reads the one before the other, so a snapshot may be newer than its     *)
(* revision says (store.py:264-288).  The routes of broker access and of   *)
(* the snapshot run on its event loop and let nothing in between; a trade  *)
(* control runs in a thread, under the order lock.                         *)
(***************************************************************************)
EXTENDS Naturals

CONSTANTS
    Global,         \* broker:global
    Apps,           \* broker:app:<id>
    Trade,          \* trade:new-orders:execution
    Unassigned,     \* the row of callers that belong to no app; it is no scope
    Manual,         \* names of the refreshes that may be under way at once
    Poll,           \* the name of the automatic load
    None,           \* null
    Problems,       \* the kinds of SnapshotProblem
    MaxRevision     \* bound on the changes of the control state

Scopes == Apps \cup {Global, Trade}
Rows == Apps \cup {Unassigned}
Loads == Manual \cup {Poll}
Snapshot == [revision : Nat, stopped : SUBSET Scopes]

ASSUME DashboardAssumption ==
    /\ Global \notin Apps
    /\ Trade \notin Apps \cup {Global}
    /\ Unassigned \notin Scopes
    /\ Poll \notin Manual
    /\ None \notin Snapshot \cup Problems \cup Loads
    /\ Problems \cap Snapshot = {}
    /\ "control" \notin Loads
    /\ MaxRevision \in Nat

VARIABLES
    revision,       \* the Governor's maintenance_state.revision
    stopped,        \* the Governor's stopped scopes
    snapshot,       \* what the window shows (snapshot, snapshotRef), or None
    problem,        \* the notice about loading, or None
    refreshing,
    misses,         \* automaticFailuresRef, counted as far as one
    latest,         \* latestLoadRef: the load begun last
    load,           \* the loads under way
    pending,
    controlError,   \* whether "Not applied" is shown
    control,        \* the control under way
    confirmRequest, \* the dialog: the kind and the scope it asks about
    passed          \* history: requests under way when an answer was shown of
                    \* which one is a control and the other a load

governor == <<revision, stopped>>
notices == <<problem, refreshing, misses>>
loading == <<latest, load>>
controlling == <<pending, controlError, control>>
vars == <<governor, snapshot, notices, loading, controlling, confirmRequest, passed>>

NoLoad == [phase |-> "idle", answer |-> None]
NoControl == [phase |-> "idle", action |-> "stop", scope |-> Global,
              seen |-> None, verdict |-> "open", answer |-> None]
NoRequest == [kind |-> "none", scope |-> Global]

Init ==
    /\ revision = 0
    /\ stopped = {}
    /\ snapshot = None
    /\ problem = None
    /\ refreshing = FALSE
    /\ misses = 0
    /\ latest = None
    /\ load = [x \in Loads |-> NoLoad]
    /\ pending = FALSE
    /\ controlError = FALSE
    /\ control = NoControl
    /\ confirmRequest = NoRequest
    /\ passed = {}
-----------------------------------------------------------------------------
(* The Governor's side of a request.                                       *)

\* A synchronous handler on the event loop is between its statements.
LoopBusy ==
    \/ \E x \in Loads : load[x].phase = "numbered"
    \/ control.phase \in {"decided", "numbered"} /\ control.scope # Trade

\* A trade control holds the order lock until its answer is made.
OrderLocked == control.phase \in {"decided", "numbered"} /\ control.scope = Trade

\* Mutant of MayChange: a trade control does not take the order lock.
MayChangeUnlocked(scope) == scope = Trade \/ ~LoopBusy

MayChange(scope) == IF scope = Trade THEN ~OrderLocked ELSE ~LoopBusy

\* Mutant of Change: the revision is left alone.
ChangeUnnumbered(action, scope) ==
    /\ MayChange(scope)
    /\ UNCHANGED revision
    /\ stopped' = IF action = "stop" THEN stopped \cup {scope} ELSE stopped \ {scope}

Change(action, scope) ==
    /\ MayChange(scope)
    /\ revision' = revision + 1
    /\ stopped' = IF action = "stop" THEN stopped \cup {scope} ELSE stopped \ {scope}

AlreadySo(action, scope) == (action = "stop") = (scope \in stopped)

\* Another window or program changes a control.
Elsewhere(action, scope) ==
    /\ revision < MaxRevision
    /\ ~AlreadySo(action, scope)
    /\ Change(action, scope)
    /\ UNCHANGED <<snapshot, notices, loading, controlling, confirmRequest, passed>>

ReadRevision(x) ==
    /\ load[x].phase = "asked"
    /\ ~LoopBusy
    /\ load' = [load EXCEPT ![x] = [phase |-> "numbered",
                                    answer |-> [revision |-> revision, stopped |-> {}]]]
    /\ UNCHANGED <<governor, snapshot, notices, latest, controlling, confirmRequest, passed>>

ReadRows(x) ==
    /\ load[x].phase = "numbered"
    /\ load' = [load EXCEPT ![x] = [phase |-> "answered",
                                    answer |-> [@.answer EXCEPT !.stopped = stopped]]]
    /\ UNCHANGED <<governor, snapshot, notices, latest, controlling, confirmRequest, passed>>

\* No connection, an error status, a body that is no snapshot.
LoadFails(x) ==
    /\ load[x].phase = "asked"
    /\ \E kind \in Problems :
        load' = [load EXCEPT ![x] = [phase |-> "answered", answer |-> kind]]
    /\ UNCHANGED <<governor, snapshot, notices, latest, controlling, confirmRequest, passed>>

\* Mutant of Decide: the expected revision is not looked at.
DecideUnasked ==
    /\ control.phase = "sent"
    /\ control.scope \in Scopes
    /\ MayChange(control.scope)
    /\ IF AlreadySo(control.action, control.scope)
       THEN control' = [control EXCEPT !.phase = "decided", !.seen = None,
                                       !.verdict = "already"]
            /\ UNCHANGED governor
       ELSE control' = [control EXCEPT !.phase = "decided", !.seen = None,
                                       !.verdict = "committed"]
            /\ Change(control.action, control.scope)
    /\ UNCHANGED <<snapshot, notices, loading, pending, controlError, confirmRequest, passed>>

\* The transaction of ControlStore.apply: conflict, nothing to do, or a change.
Decide ==
    /\ control.phase = "sent"
    /\ control.scope \in Scopes
    /\ MayChange(control.scope)
    /\ IF control.seen.revision # revision
       THEN control' = [control EXCEPT !.phase = "decided", !.seen = None,
                                       !.verdict = "conflict"]
            /\ UNCHANGED governor
       ELSE IF AlreadySo(control.action, control.scope)
       THEN control' = [control EXCEPT !.phase = "decided", !.seen = None,
                                       !.verdict = "already"]
            /\ UNCHANGED governor
       ELSE control' = [control EXCEPT !.phase = "decided", !.seen = None,
                                       !.verdict = "committed"]
            /\ Change(control.action, control.scope)
    /\ UNCHANGED <<snapshot, notices, loading, pending, controlError, confirmRequest, passed>>

ControlReadsRevision ==
    /\ control.phase = "decided"
    /\ control' = [control EXCEPT !.phase = "numbered",
                                  !.answer = [revision |-> revision, stopped |-> {}]]
    /\ UNCHANGED <<governor, snapshot, notices, loading, pending, controlError, confirmRequest, passed>>

ControlReadsRows ==
    /\ control.phase = "numbered"
    /\ control' = [control EXCEPT !.phase = "answered", !.answer.stopped = stopped]
    /\ UNCHANGED <<governor, snapshot, notices, loading, pending, controlError, confirmRequest, passed>>

\* An unknown app, a session that has ended, a lost request; or, the change
\* made, a publication that failed, a lost answer, an unreadable body.
ControlFails ==
    /\ control.phase \in {"sent", "decided", "answered"}
    /\ control' = [control EXCEPT !.phase = "answered", !.seen = None, !.answer = None]
    /\ UNCHANGED <<governor, snapshot, notices, loading, pending, controlError, confirmRequest, passed>>
-----------------------------------------------------------------------------
(* Loads: load() and the effect that polls.                                *)

Begin(x) ==
    /\ load[x].phase = "idle"
    /\ latest' = x
    /\ load' = [load EXCEPT ![x] = [phase |-> "asked", answer |-> None]]

\* The first load, or the timer that the last poll has left.
BeginPoll ==
    /\ Begin(Poll)
    /\ UNCHANGED <<governor, snapshot, notices, controlling, confirmRequest, passed>>

\* The button of the header is disabled during a refresh; that of the panel
\* shown while there is no snapshot is not.
RefreshOffered == IF snapshot # None THEN ~refreshing ELSE problem # None

Refresh(x) ==
    /\ x \in Manual
    /\ RefreshOffered
    /\ Begin(x)
    /\ refreshing' = TRUE
    /\ UNCHANGED <<governor, snapshot, problem, misses, controlling, confirmRequest, passed>>

\* Mutant of End: a refresh that fails leaves the button disabled.
EndGood(x) ==
    /\ load[x].phase = "answered"
    /\ load' = [load EXCEPT ![x] = NoLoad]
    /\ refreshing' = (refreshing /\ ~(x \in Manual /\ load[x].answer \notin Problems))

\* load() goes on: the answer, its own or not, ends the refresh.
End(x) ==
    /\ load[x].phase = "answered"
    /\ load' = [load EXCEPT ![x] = NoLoad]
    /\ refreshing' = (refreshing /\ x \notin Manual)

\* Mutant of Superseded: it goes on as if it were the latest load.
SupersededShown(x) ==
    /\ End(x)
    /\ x # latest
    /\ snapshot' = IF load[x].answer \in Problems THEN snapshot ELSE load[x].answer
    /\ passed' = passed \ {x}
    /\ UNCHANGED <<governor, problem, misses, latest, controlling, confirmRequest>>

\* A later load has begun: the answer is dropped.
Superseded(x) ==
    /\ End(x)
    /\ x # latest
    /\ passed' = passed \ {x}
    /\ UNCHANGED <<governor, snapshot, problem, misses, latest, controlling, confirmRequest>>

Loaded(x) ==
    /\ End(x)
    /\ x = latest
    /\ load[x].answer \notin Problems
    /\ snapshot' = load[x].answer
    /\ problem' = None
    /\ misses' = 0
    /\ passed' = (passed \ {x}) \cup (IF pending THEN {"control"} ELSE {})
    /\ UNCHANGED <<governor, latest, controlling, confirmRequest>>

\* Mutant of Missed: a failure that is forgiven once is forgiven for good.
MissedQuietly(x) ==
    /\ End(x)
    /\ x = latest
    /\ load[x].answer \in Problems
    /\ IF x \in Manual \/ snapshot = None
       THEN problem' = load[x].answer /\ UNCHANGED misses
       ELSE UNCHANGED <<problem, misses>>
    /\ passed' = passed \ {x}
    /\ UNCHANGED <<governor, snapshot, latest, controlling, confirmRequest>>

\* With a snapshot on display the first automatic failure is passed over.
Missed(x) ==
    /\ End(x)
    /\ x = latest
    /\ load[x].answer \in Problems
    /\ IF x \in Manual \/ snapshot = None
       THEN problem' = load[x].answer /\ UNCHANGED misses
       ELSE /\ misses' = 1
            /\ problem' = IF misses = 1 THEN load[x].answer ELSE problem
    /\ passed' = passed \ {x}
    /\ UNCHANGED <<governor, snapshot, latest, controlling, confirmRequest>>
-----------------------------------------------------------------------------
(* Controls: run(), the buttons of the views, and the dialog.              *)

AccessOf(row) == IF row = Unassigned THEN Global \in snapshot.stopped
                                     ELSE row \in snapshot.stopped

\* Its last guard keeps the revisions within MaxRevision.
Send(action, scope) ==
    /\ ~pending
    /\ pending' = TRUE
    /\ controlError' = FALSE
    /\ control' = [NoControl EXCEPT !.phase = "sent", !.action = action,
                                    !.scope = scope, !.seen = snapshot]
    /\ snapshot.revision < MaxRevision
    /\ UNCHANGED <<governor, snapshot, notices, loading, passed>>

StopOrders ==
    /\ snapshot # None
    /\ Trade \notin snapshot.stopped
    /\ Send("stop", Trade)
    /\ UNCHANGED confirmRequest

ResumeAll ==
    /\ snapshot # None
    /\ Global \in snapshot.stopped
    /\ Send("resume", Global)
    /\ UNCHANGED confirmRequest

ResumeRow(row) ==
    /\ snapshot # None
    /\ AccessOf(row)
    /\ Send("resume", row)
    /\ UNCHANGED confirmRequest

Asks(kind, scope) ==
    \/ kind = "unlock" /\ scope = Trade /\ Trade \in snapshot.stopped
    \/ kind = "stop-all" /\ scope = Global /\ Global \notin snapshot.stopped
    \/ kind = "app-stop" /\ scope \in Rows /\ ~AccessOf(scope)

\* An open dialog is replaced.
OpenConfirm(kind, scope) ==
    /\ snapshot # None
    /\ ~pending
    /\ Asks(kind, scope)
    /\ controlError' = FALSE
    /\ confirmRequest' = [kind |-> kind, scope |-> scope]
    /\ UNCHANGED <<governor, snapshot, notices, loading, pending, control, passed>>

CloseDialog ==
    /\ confirmRequest.kind # "none"
    /\ confirmRequest' = NoRequest

Cancel ==
    /\ CloseDialog
    /\ UNCHANGED <<governor, snapshot, notices, loading, controlling, passed>>

\* The phrase typed and the reason given, which the button waits for, are the
\* operator's.  The revision sent is that of the snapshot shown now, not of the
\* one shown when the dialog was opened.
Confirm ==
    /\ snapshot # None
    /\ CloseDialog
    /\ Send(IF confirmRequest.kind = "unlock" THEN "resume" ELSE "stop",
            confirmRequest.scope)

InFlight == {x \in Loads : load[x].phase # "idle"}

\* Mutant of Finish: a conflict is taken for a change made.
FinishApplied ==
    /\ control.phase = "answered"
    /\ pending' = FALSE
    /\ control' = NoControl
    /\ snapshot' = IF control.answer = None THEN snapshot ELSE control.answer
    /\ controlError' = (control.answer = None)
    /\ passed' = (passed \ {"control"}) \cup (IF control.answer = None THEN {} ELSE InFlight)
    /\ UNCHANGED <<governor, notices, loading, confirmRequest>>

\* run() goes on: the answer is shown whatever was shown in between.
Finish ==
    /\ control.phase = "answered"
    /\ pending' = FALSE
    /\ control' = NoControl
    /\ snapshot' = IF control.answer = None THEN snapshot ELSE control.answer
    /\ controlError' = (control.answer = None \/ control.verdict = "conflict")
    /\ passed' = (passed \ {"control"}) \cup (IF control.answer = None THEN {} ELSE InFlight)
    /\ UNCHANGED <<governor, notices, loading, confirmRequest>>
-----------------------------------------------------------------------------
LoadStep(x) ==
    ReadRevision(x) \/ ReadRows(x) \/ LoadFails(x) \/ Refresh(x)
    \/ Superseded(x) \/ Loaded(x) \/ Missed(x)

Next ==
    \/ BeginPoll
    \/ \E x \in Loads : LoadStep(x)
    \/ \E action \in {"stop", "resume"}, scope \in Scopes : Elsewhere(action, scope)
    \/ Decide \/ ControlReadsRevision \/ ControlReadsRows \/ ControlFails \/ Finish
    \/ StopOrders \/ ResumeAll \/ Cancel \/ Confirm
    \/ \E row \in Rows : ResumeRow(row)
    \/ \E kind \in {"unlock", "stop-all", "app-stop"}, scope \in Scopes \cup Rows :
        OpenConfirm(kind, scope)

\* A load that was begun is answered and its answer handled, by the browser's
\* own time limit if by nothing else; so is a control.  The timer fires.
Fairness ==
    /\ WF_vars(BeginPoll)
    /\ \A x \in Loads : WF_vars(ReadRevision(x) \/ ReadRows(x) \/ LoadFails(x))
                       /\ WF_vars(Superseded(x) \/ Loaded(x) \/ Missed(x))
    /\ WF_vars(Decide \/ ControlReadsRevision \/ ControlReadsRows \/ ControlFails)
    /\ WF_vars(Finish)

Spec == Init /\ [][Next]_vars /\ Fairness
-----------------------------------------------------------------------------
Phases == {"idle", "sent", "asked", "decided", "numbered", "answered"}

\* The type of the window's and the Governor's state (App.tsx:34-45).
TypeOK ==
    /\ revision \in Nat
    /\ stopped \subseteq Scopes
    /\ snapshot \in Snapshot \cup {None}
    /\ problem \in Problems \cup {None}
    /\ refreshing \in BOOLEAN
    /\ misses \in 0 .. 1
    /\ latest \in Loads \cup {None}
    /\ load \in [Loads -> [phase : Phases, answer : Snapshot \cup Problems \cup {None}]]
    /\ pending \in BOOLEAN
    /\ controlError \in BOOLEAN
    /\ control \in [phase : Phases, action : {"stop", "resume"}, scope : Scopes \cup Rows,
                    seen : Snapshot \cup {None},
                    verdict : {"open", "conflict", "already", "committed"},
                    answer : Snapshot \cup {None}]
    /\ confirmRequest \in [kind : {"none", "unlock", "stop-all", "app-stop"},
                           scope : Scopes \cup Rows]
    /\ passed \subseteq Loads \cup {"control"}

Sound(s) ==
    s # None => /\ s.revision <= revision
                /\ s.revision = revision => s.stopped = stopped

\* No snapshot, shown, sent for or on its way, is behind its own revision: one
\* that bears the present revision shows the present state, although the two
\* are read one after the other (store.py:264-288, service.py:286-310).
NotBehind ==
    /\ Sound(snapshot)
    /\ Sound(control.seen)
    /\ control.phase = "answered" => Sound(control.answer)
    /\ \A x \in Loads : load[x].phase = "answered" /\ load[x].answer \notin Problems
                        => Sound(load[x].answer)

\* A control changes the state only if the snapshot on the operator's screen
\* when it was sent is the whole state it changes, whatever loads, other
\* controls and half-read snapshots came between (api.ts:199-200,
\* store.py:309-318, README.md:378-381).
AsSeen ==
    [][control.verdict # "committed" /\ control'.verdict = "committed"
       => control.seen = [revision |-> revision, stopped |-> stopped]]_vars

\* A control that ends without "Not applied" was decided in its favour, and
\* the snapshot then shown shows what it asked for; a conflict never passes
\* for a change (App.tsx:104-112, api.ts:255-272, contracts.ts:488).
ToldTruly ==
    [][pending /\ ~pending' /\ ~controlError'
       => /\ control.verdict \in {"committed", "already"}
          /\ (control.action = "stop") = (control.scope \in snapshot'.stopped)]_vars

\* The window goes back to an older revision only with the answer of a request
\* that was under way when an answer of the other kind was shown: never by
\* loads alone, however they overlap (App.tsx:58-60, 106-109).
BackOnlyByOverlap ==
    [][snapshot # None /\ snapshot'.revision < snapshot.revision
       => passed \ passed' # {}]_vars

\* Neither a control nor a refresh disables its buttons for ever: whatever is
\* lost, superseded or refused, they come back (App.tsx:51-60, 102-105).
ButtonsReturn ==
    /\ pending ~> ~pending
    /\ refreshing ~> ~refreshing

Agrees == snapshot = [revision |-> revision, stopped |-> stopped]

\* Unless the operator refreshes for ever, each refresh overtaking a poll, the
\* window does not stay behind the Governor without a notice (App.tsx:58-75).
NeverSilentlyOld == []<>refreshing \/ []<>(Agrees \/ problem # None)
=============================================================================

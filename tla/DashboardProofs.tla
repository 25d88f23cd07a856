-------------------------- MODULE DashboardProofs --------------------------
(***************************************************************************)
(* What holds of the window for any apps, any number of refreshes at once  *)
(* and any number of changes: a control changes only the state its sender  *)
(* saw, is not reported as applied unless it was, and the window goes back *)
(* to an older revision only where a control and a load overlap.           *)
(***************************************************************************)
EXTENDS Dashboard, TLAPS

\* A step, action by action.
LEMMA Steps ==
    ASSUME TypeOK, [Next]_vars
    PROVE  \/ BeginPoll
           \/ \E x \in Loads : LoadStep(x)
           \/ \E action \in {"stop", "resume"}, scope \in Scopes : Elsewhere(action, scope)
           \/ Decide \/ ControlReadsRevision \/ ControlReadsRows \/ ControlFails \/ Finish
           \/ \E action \in {"stop", "resume"}, scope \in Scopes \cup Rows :
                snapshot # None /\ Send(action, scope)
                /\ confirmRequest' \in {confirmRequest, NoRequest}
           \/ Cancel
           \/ \E kind \in {"unlock", "stop-all", "app-stop"}, scope \in Scopes \cup Rows :
                OpenConfirm(kind, scope)
           \/ UNCHANGED vars
  <1>1. CASE StopOrders BY <1>1 DEF StopOrders, Scopes
  <1>2. CASE ResumeAll BY <1>2 DEF ResumeAll, Scopes
  <1>3. CASE \E row \in Rows : ResumeRow(row) BY <1>3 DEF ResumeRow
  <1>4. CASE Confirm
    <2>1. confirmRequest.scope \in Scopes \cup Rows
      BY DEF TypeOK
    <2> QED BY <1>4, <2>1 DEF Confirm, CloseDialog
  <1> QED BY <1>1, <1>2, <1>3, <1>4 DEF Next

\* The phases a request goes through, with what it holds in each.
Phased ==
    /\ \A x \in Loads :
        /\ load[x].phase \in {"idle", "asked", "numbered", "answered"}
        /\ load[x].phase = "numbered" => load[x].answer \in Snapshot
        /\ load[x].phase = "answered" => load[x].answer \in Snapshot \cup Problems
    /\ pending = (control.phase # "idle")
    /\ control.phase = "sent" => control.seen \in Snapshot /\ control.verdict = "open"
    /\ control.phase # "sent" => control.seen = None
    /\ control.phase \in {"decided", "numbered"} => control.verdict # "open"
                                                 /\ control.scope \in Scopes
    /\ control.phase = "numbered" => control.answer \in Snapshot
    /\ control.phase = "answered" /\ control.answer # None => control.verdict # "open"

\* What the transaction of a control leaves (store.py:307-349): a verdict, and
\* the change it stands for.
LEMMA Decided ==
    ASSUME TypeOK, Decide
    PROVE  /\ control'.phase = "decided" /\ control'.seen = None
           /\ control'.action = control.action /\ control'.scope = control.scope
           /\ \/ control'.verdict = "conflict" /\ UNCHANGED governor
              \/ /\ control'.verdict = "already" /\ UNCHANGED governor
                 /\ AlreadySo(control.action, control.scope)
              \/ control'.verdict = "committed" /\ Change(control.action, control.scope)
  <1>1. PICK verdict \in {"conflict", "already", "committed"} :
          /\ control' = [control EXCEPT !.phase = "decided", !.seen = None, !.verdict = verdict]
          /\ \/ verdict = "conflict" /\ UNCHANGED governor
             \/ /\ verdict = "already" /\ UNCHANGED governor
                /\ AlreadySo(control.action, control.scope)
             \/ verdict = "committed" /\ Change(control.action, control.scope)
    BY DEF Decide
  <1>2. /\ control'.phase = "decided" /\ control'.seen = None /\ control'.verdict = verdict
        /\ control'.action = control.action /\ control'.scope = control.scope
    BY <1>1 DEF TypeOK
  <1> QED BY <1>1, <1>2

LEMMA TypedStep ==
    ASSUME TypeOK, Phased, [Next]_vars
    PROVE  TypeOK'
  <1> USE DashboardAssumption
  <1> USE DEF governor, notices, loading, controlling
  <1> DEFINE LoadRecords == [phase : Phases, answer : Snapshot \cup Problems \cup {None}]
             ControlRecords == [phase : Phases, action : {"stop", "resume"},
                                scope : Scopes \cup Rows, seen : Snapshot \cup {None},
                                verdict : {"open", "conflict", "already", "committed"},
                                answer : Snapshot \cup {None}]
  <1>a. [revision |-> revision, stopped |-> {}] \in Snapshot
    BY DEF TypeOK, Snapshot
  <1>b. NoLoad \in LoadRecords /\ NoControl \in ControlRecords
    BY DEF NoLoad, NoControl, Phases, Scopes
  <1>c. load \in [Loads -> LoadRecords] /\ control \in ControlRecords
    BY DEF TypeOK
  <1>1. CASE BeginPoll
    <2>1. load' \in [Loads -> LoadRecords]
      BY <1>1, <1>c DEF BeginPoll, Begin, Loads, Phases
    <2> QED BY <1>1, <2>1 DEF TypeOK, BeginPoll, Begin, Loads
  <1>2. ASSUME NEW x \in Loads, LoadStep(x) PROVE TypeOK'
    <2>1. CASE ReadRevision(x)
      <3>1. load' \in [Loads -> LoadRecords]
        BY <2>1, <1>a, <1>c DEF ReadRevision, Phases
      <3> QED BY <2>1, <3>1 DEF TypeOK, ReadRevision
    <2>2. CASE ReadRows(x)
      <3>1. [load[x].answer EXCEPT !.stopped = stopped] \in Snapshot
        BY <2>2 DEF ReadRows, Phased, TypeOK, Snapshot
      <3>2. load' \in [Loads -> LoadRecords]
        BY <2>2, <3>1, <1>c DEF ReadRows, Phases
      <3> QED BY <2>2, <3>2 DEF TypeOK, ReadRows
    <2>3. CASE LoadFails(x)
      <3>1. load' \in [Loads -> LoadRecords]
        BY <2>3, <1>c DEF LoadFails, Phases
      <3> QED BY <2>3, <3>1 DEF TypeOK, LoadFails
    <2>4. CASE Refresh(x)
      <3>1. load' \in [Loads -> LoadRecords]
        BY <2>4, <1>c DEF Refresh, Begin, Phases
      <3> QED BY <2>4, <3>1 DEF TypeOK, Refresh, Begin
    <2>5. CASE Superseded(x) \/ Loaded(x) \/ Missed(x)
      <3>1. End(x)
        BY <2>5 DEF Superseded, Loaded, Missed
      <3>2. load' \in [Loads -> LoadRecords] /\ refreshing' \in BOOLEAN
        BY <3>1, <1>b, <1>c DEF End, TypeOK
      <3>3. load[x].answer \in Snapshot \cup Problems
        BY <3>1 DEF End, Phased
      <3>4. CASE Superseded(x)
        BY <3>4, <3>2 DEF TypeOK, Superseded
      <3>5. CASE Loaded(x)
        BY <3>5, <3>2, <3>3 DEF TypeOK, Loaded
      <3>6. CASE Missed(x)
        BY <3>6, <3>2, <3>3 DEF TypeOK, Missed
      <3> QED BY <2>5, <3>4, <3>5, <3>6
    <2> QED BY <1>2, <2>1, <2>2, <2>3, <2>4, <2>5 DEF LoadStep
  <1>3. ASSUME NEW action \in {"stop", "resume"}, NEW scope \in Scopes, Elsewhere(action, scope)
        PROVE  TypeOK'
    BY <1>3 DEF TypeOK, Elsewhere, Change
  <1>4. CASE Decide
    <2>1. control' \in ControlRecords
      BY <1>4, <1>c, ZenonT(30) DEF Decide, Phases
    <2>2. revision' \in Nat /\ stopped' \subseteq Scopes
      BY <1>4 DEF TypeOK, Decide, Change
    <2> QED BY <1>4, <2>1, <2>2 DEF TypeOK, Decide
  <1>5. CASE ControlReadsRevision
    <2>1. control' \in ControlRecords
      BY <1>5, <1>a, <1>c DEF ControlReadsRevision, Phases
    <2> QED BY <1>5, <2>1 DEF TypeOK, ControlReadsRevision
  <1>6. CASE ControlReadsRows
    <2>1. [control.answer EXCEPT !.stopped = stopped] \in Snapshot
      BY <1>6 DEF ControlReadsRows, Phased, TypeOK, Snapshot
    <2>2. control' \in ControlRecords
      BY <1>6, <2>1, <1>c DEF ControlReadsRows, Phases
    <2> QED BY <1>6, <2>2 DEF TypeOK, ControlReadsRows
  <1>7. CASE ControlFails
    <2>1. control' \in ControlRecords
      BY <1>7, <1>c DEF ControlFails, Phases
    <2> QED BY <1>7, <2>1 DEF TypeOK, ControlFails
  <1>8. CASE Finish
    <2>1. controlError' \in BOOLEAN
      BY <1>8 DEF Finish
    <2>2. control' \in ControlRecords /\ snapshot' \in Snapshot \cup {None} /\ pending' \in BOOLEAN
      BY <1>8, <1>b, <1>c DEF TypeOK, Finish
    <2>3. passed' \subseteq Loads \cup {"control"}
      BY <1>8 DEF TypeOK, Finish, InFlight
    <2> QED BY <1>8, <2>1, <2>2, <2>3 DEF TypeOK, Finish
  <1>9. ASSUME NEW action \in {"stop", "resume"}, NEW scope \in Scopes \cup Rows,
               snapshot # None, Send(action, scope),
               confirmRequest' \in {confirmRequest, NoRequest}
        PROVE  TypeOK'
    <2>1. control' \in ControlRecords
      BY <1>9, <1>b DEF Send, TypeOK, Phases
    <2>2. NoRequest \in [kind : {"none", "unlock", "stop-all", "app-stop"}, scope : Scopes \cup Rows]
      BY DEF NoRequest, Scopes
    <2> QED BY <1>9, <2>1, <2>2 DEF TypeOK, Send
  <1>10. CASE Cancel
    BY <1>10 DEF TypeOK, Cancel, CloseDialog, NoRequest, Scopes
  <1>11. ASSUME NEW kind \in {"unlock", "stop-all", "app-stop"}, NEW scope \in Scopes \cup Rows,
                OpenConfirm(kind, scope)
         PROVE  TypeOK'
    BY <1>11, ZenonT(30) DEF TypeOK, OpenConfirm
  <1>12. CASE UNCHANGED vars
    BY <1>12 DEF TypeOK, vars
  <1> QED BY Steps, <1>1, <1>2, <1>3, <1>4, <1>5, <1>6, <1>7, <1>8, <1>9, <1>10, <1>11, <1>12

LEMMA PhasedStep ==
    ASSUME TypeOK, Phased, [Next]_vars
    PROVE  Phased'
  <1> USE DashboardAssumption
  <1> USE DEF governor, notices, loading, controlling
  <1>a. [revision |-> revision, stopped |-> {}] \in Snapshot
    BY DEF TypeOK, Snapshot
  <1>1. CASE BeginPoll
    BY <1>1 DEF TypeOK, Phased, BeginPoll, Begin, Loads
  <1>2. ASSUME NEW x \in Loads, LoadStep(x) PROVE Phased'
    <2>1. CASE ReadRevision(x)
      BY <2>1, <1>a DEF TypeOK, Phased, ReadRevision
    <2>2. CASE ReadRows(x)
      <3>1. [load[x].answer EXCEPT !.stopped = stopped] \in Snapshot
        BY <2>2 DEF ReadRows, Phased, TypeOK, Snapshot
      <3> QED BY <2>2, <3>1 DEF TypeOK, Phased, ReadRows
    <2>3. CASE LoadFails(x)
      BY <2>3 DEF TypeOK, Phased, LoadFails
    <2>4. CASE Refresh(x)
      BY <2>4 DEF TypeOK, Phased, Refresh, Begin
    <2>5. CASE Superseded(x) \/ Loaded(x) \/ Missed(x)
      <3>1. End(x) /\ UNCHANGED controlling
        BY <2>5 DEF Superseded, Loaded, Missed
      <3> QED BY <3>1 DEF TypeOK, Phased, End, NoLoad
    <2> QED BY <1>2, <2>1, <2>2, <2>3, <2>4, <2>5 DEF LoadStep
  <1>3. ASSUME NEW action \in {"stop", "resume"}, NEW scope \in Scopes, Elsewhere(action, scope)
        PROVE  Phased'
    BY <1>3 DEF Phased, Elsewhere
  <1>4. CASE Decide
    <2>1. /\ control'.phase = "decided" /\ control'.seen = None
          /\ control'.verdict # "open" /\ control'.scope = control.scope
      BY <1>4, Decided
    <2> QED BY <1>4, <2>1 DEF Phased, Decide
  <1>5. CASE ControlReadsRevision
    BY <1>5, <1>a DEF TypeOK, Phased, ControlReadsRevision
  <1>6. CASE ControlReadsRows
    <2>1. [control.answer EXCEPT !.stopped = stopped] \in Snapshot
      BY <1>6 DEF ControlReadsRows, Phased, TypeOK, Snapshot
    <2> QED BY <1>6, <2>1 DEF TypeOK, Phased, ControlReadsRows
  <1>7. CASE ControlFails
    BY <1>7 DEF TypeOK, Phased, ControlFails
  <1>8. CASE Finish
    BY <1>8 DEF TypeOK, Phased, Finish, NoControl
  <1>9. ASSUME NEW action \in {"stop", "resume"}, NEW scope \in Scopes \cup Rows,
               snapshot # None, Send(action, scope)
        PROVE  Phased'
    BY <1>9 DEF TypeOK, Phased, Send, NoControl
  <1>10. CASE Cancel
    BY <1>10 DEF Phased, Cancel
  <1>11. ASSUME NEW kind \in {"unlock", "stop-all", "app-stop"}, NEW scope \in Scopes \cup Rows,
                OpenConfirm(kind, scope)
         PROVE  Phased'
    BY <1>11 DEF Phased, OpenConfirm
  <1>12. CASE UNCHANGED vars
    BY <1>12 DEF Phased, vars
  <1> QED BY Steps, <1>1, <1>2, <1>3, <1>4, <1>5, <1>6, <1>7, <1>8, <1>9, <1>10, <1>11, <1>12

\* Half-read, a snapshot is at least no newer than the Governor.
HalfRead ==
    /\ \A x \in Loads : load[x].phase = "numbered" => load[x].answer.revision <= revision
    /\ control.phase = "numbered" => control.answer.revision <= revision

\* A change takes the present revision from every snapshot.
LEMMA ChangeSound ==
    ASSUME TypeOK, NEW action, NEW scope, Change(action, scope),
           NEW s \in Snapshot \cup {None}, Sound(s)
    PROVE  Sound(s)'
  <1>1. CASE s = None
    BY <1>1 DEF Sound
  <1>2. CASE s \in Snapshot
    <2>1. s.revision \in Nat /\ s # None
      BY <1>2, DashboardAssumption DEF Snapshot
    <2>2. s.revision <= revision /\ revision' = revision + 1 /\ revision \in Nat
      BY <2>1 DEF Sound, Change, TypeOK
    <2> QED BY <2>1, <2>2 DEF Sound
  <1> QED BY <1>1, <1>2

\* The Governor's state is all that Sound looks at besides the snapshot.
LEMMA SameSound ==
    ASSUME UNCHANGED governor, NEW s, Sound(s)
    PROVE  Sound(s)'
  BY DEF Sound, governor

LEMMA NotBehindStep ==
    ASSUME TypeOK, Phased, NotBehind, HalfRead, [Next]_vars
    PROVE  NotBehind' /\ HalfRead'
  <1> USE DashboardAssumption
  <1> USE DEF governor, notices, loading, controlling
  <1>a. revision \in Nat /\ revision <= revision
    BY DEF TypeOK
  <1>b. ASSUME NEW action, NEW scope, Change(action, scope), UNCHANGED <<snapshot, load>>,
               control' = control \/ (control'.phase = "decided" /\ control'.seen = None)
        PROVE  NotBehind' /\ HalfRead'
    <2>1. Sound(snapshot)'
      BY <1>b, ChangeSound DEF TypeOK, NotBehind
    <2>2. Sound(control.seen)'
      <3>1. CASE control' = control
        <4>1. control.seen \in Snapshot \cup {None}
          BY DEF TypeOK
        <4> QED BY <1>b, <3>1, <4>1, ChangeSound DEF NotBehind
      <3>2. CASE control'.seen = None
        BY <3>2 DEF Sound
      <3> QED BY <1>b, <3>1, <3>2
    <2>3. control'.phase = "answered" => Sound(control.answer)'
      <3>1. SUFFICES ASSUME control' = control, control.phase = "answered"
                     PROVE  Sound(control.answer)'
        BY <1>b
      <3>2. control.answer \in Snapshot \cup {None} /\ Sound(control.answer)
        BY <3>1 DEF TypeOK, NotBehind
      <3> QED BY <1>b, <3>1, <3>2, ChangeSound
    <2>4. ASSUME NEW x \in Loads, load'[x].phase = "answered", load'[x].answer \notin Problems
          PROVE  Sound(load[x].answer)'
      <3>1. load[x].answer \in Snapshot /\ Sound(load[x].answer)
        BY <1>b, <2>4 DEF NotBehind, Phased
      <3> QED BY <1>b, <3>1, ChangeSound
    <2>5. HalfRead'
      <3>1. revision' = revision + 1
        BY <1>b DEF Change
      <3>2. ASSUME NEW x \in Loads, load'[x].phase = "numbered"
            PROVE  load'[x].answer.revision <= revision'
        <4>1. load[x].answer.revision \in Nat /\ load[x].answer.revision <= revision
          BY <1>b, <3>2 DEF HalfRead, Phased, Snapshot
        <4> QED BY <1>a, <1>b, <3>1, <4>1
      <3>3. ASSUME control'.phase = "numbered"
            PROVE  control'.answer.revision <= revision'
        <4>1. control' = control
          BY <1>b, <3>3
        <4>2. control.answer.revision \in Nat /\ control.answer.revision <= revision
          BY <3>3, <4>1 DEF HalfRead, Phased, Snapshot
        <4> QED BY <1>a, <3>1, <4>1, <4>2
      <3> QED BY <3>2, <3>3 DEF HalfRead
    <2> QED BY <2>1, <2>2, <2>3, <2>4, <2>5 DEF NotBehind
  <1>1. CASE BeginPoll
    BY <1>1, SameSound DEF TypeOK, NotBehind, HalfRead, BeginPoll, Begin, Loads
  <1>2. ASSUME NEW x \in Loads, LoadStep(x) PROVE NotBehind' /\ HalfRead'
    <2>1. CASE ReadRevision(x)
      BY <2>1, <1>a, SameSound DEF TypeOK, NotBehind, HalfRead, ReadRevision
    <2>2. CASE ReadRows(x)
      <3>1. Sound([load[x].answer EXCEPT !.stopped = stopped])
        BY <2>2 DEF ReadRows, Phased, HalfRead, Snapshot, Sound
      <3> QED BY <2>2, <3>1, SameSound DEF TypeOK, NotBehind, HalfRead, ReadRows
    <2>3. CASE LoadFails(x)
      BY <2>3, SameSound DEF TypeOK, NotBehind, HalfRead, LoadFails
    <2>4. CASE Refresh(x)
      BY <2>4, SameSound DEF TypeOK, NotBehind, HalfRead, Refresh, Begin
    <2>5. CASE Superseded(x) \/ Loaded(x) \/ Missed(x)
      <3>1. End(x) /\ UNCHANGED <<controlling, governor>>
        BY <2>5 DEF Superseded, Loaded, Missed
      <3>2. snapshot' = snapshot \/ (snapshot' = load[x].answer /\ load[x].answer \notin Problems)
        BY <2>5 DEF Superseded, Loaded, Missed
      <3>3. Sound(snapshot')
        BY <3>1, <3>2 DEF NotBehind, End
      <3> QED BY <3>1, <3>3, SameSound DEF TypeOK, NotBehind, HalfRead, End, NoLoad
    <2> QED BY <1>2, <2>1, <2>2, <2>3, <2>4, <2>5 DEF LoadStep
  <1>3. ASSUME NEW action \in {"stop", "resume"}, NEW scope \in Scopes, Elsewhere(action, scope)
        PROVE  NotBehind' /\ HalfRead'
    BY <1>3, <1>b DEF Elsewhere
  <1>4. CASE Decide
    <2>1. control'.phase = "decided" /\ control'.seen = None
      BY <1>4, Decided
    <2>2. CASE Change(control.action, control.scope)
      BY <1>4, <1>b, <2>1, <2>2 DEF Decide
    <2>3. CASE UNCHANGED governor
      BY <1>4, <2>1, <2>3, SameSound DEF NotBehind, HalfRead, Decide, Sound
    <2> QED BY <1>4, <2>2, <2>3 DEF Decide
  <1>5. CASE ControlReadsRevision
    BY <1>5, <1>a, SameSound DEF TypeOK, NotBehind, HalfRead, ControlReadsRevision
  <1>6. CASE ControlReadsRows
    <2>1. Sound([control.answer EXCEPT !.stopped = stopped])
      BY <1>6 DEF ControlReadsRows, Phased, HalfRead, Snapshot, Sound
    <2> QED BY <1>6, <2>1, SameSound DEF TypeOK, NotBehind, HalfRead, ControlReadsRows
  <1>7. CASE ControlFails
    <2>1. Sound(None)'
      BY DEF Sound
    <2> QED BY <1>7, <2>1, SameSound DEF TypeOK, NotBehind, HalfRead, ControlFails
  <1>8. CASE Finish
    <2>1. Sound(snapshot') /\ Sound(None)
      BY <1>8 DEF NotBehind, Finish, Sound
    <2> QED BY <1>8, <2>1, SameSound DEF NotBehind, HalfRead, Finish, NoControl
  <1>9. ASSUME NEW action \in {"stop", "resume"}, NEW scope \in Scopes \cup Rows,
               snapshot # None, Send(action, scope)
        PROVE  NotBehind' /\ HalfRead'
    BY <1>9, SameSound DEF NotBehind, HalfRead, Send, NoControl
  <1>10. CASE Cancel
    BY <1>10, SameSound DEF NotBehind, HalfRead, Cancel
  <1>11. ASSUME NEW kind \in {"unlock", "stop-all", "app-stop"}, NEW scope \in Scopes \cup Rows,
                OpenConfirm(kind, scope)
         PROVE  NotBehind' /\ HalfRead'
    BY <1>11, SameSound DEF NotBehind, HalfRead, OpenConfirm
  <1>12. CASE UNCHANGED vars
    BY <1>12, SameSound DEF NotBehind, HalfRead, vars
  <1> QED BY Steps, <1>1, <1>2, <1>3, <1>4, <1>5, <1>6, <1>7, <1>8, <1>9, <1>10, <1>11, <1>12

\* A request that no answer of the other kind has passed brings no older
\* revision than the one shown.
Forward ==
    /\ \A x \in Loads :
        x = latest /\ x \notin passed /\ load[x].phase \in {"numbered", "answered"}
        /\ load[x].answer \in Snapshot /\ snapshot # None
        => snapshot.revision <= load[x].answer.revision
    /\ "control" \notin passed /\ control.phase \in {"numbered", "answered"}
       /\ control.answer # None /\ snapshot # None
       => snapshot.revision <= control.answer.revision

LEMMA ForwardStep ==
    ASSUME TypeOK, Phased, NotBehind, Forward, [Next]_vars
    PROVE  Forward'
  <1> USE DashboardAssumption
  <1> USE DEF governor, notices, loading, controlling
  <1>a. snapshot # None => snapshot.revision <= revision
    BY DEF NotBehind, Sound
  <1>1. CASE BeginPoll
    BY <1>1 DEF TypeOK, Forward, BeginPoll, Begin, Loads
  <1>2. ASSUME NEW x \in Loads, LoadStep(x) PROVE Forward'
    <2>1. CASE ReadRevision(x)
      BY <2>1, <1>a DEF TypeOK, Forward, ReadRevision
    <2>2. CASE ReadRows(x)
      <3>1. /\ load[x].answer \in Snapshot
            /\ [load[x].answer EXCEPT !.stopped = stopped].revision = load[x].answer.revision
        BY <2>2 DEF ReadRows, Phased, Snapshot
      <3> QED BY <2>2, <3>1 DEF TypeOK, Forward, ReadRows
    <2>3. CASE LoadFails(x)
      BY <2>3 DEF TypeOK, Forward, LoadFails
    <2>4. CASE Refresh(x)
      BY <2>4 DEF TypeOK, Forward, Refresh, Begin
    <2>5. CASE Superseded(x) \/ Missed(x)
      <3>1. End(x) /\ passed' = passed \ {x} /\ UNCHANGED <<snapshot, latest, controlling>>
        BY <2>5 DEF Superseded, Missed
      <3> QED BY <3>1 DEF TypeOK, Forward, End, NoLoad
    <2>6. CASE Loaded(x)
      <3>1. ASSUME NEW y \in Loads, y = latest', load'[y].phase \in {"numbered", "answered"}
            PROVE  FALSE
        BY <2>6, <3>1 DEF TypeOK, Loaded, End, NoLoad
      <3>2. control'.phase \in {"numbered", "answered"} => "control" \in passed'
        BY <2>6 DEF Phased, Loaded
      <3> QED BY <3>1, <3>2 DEF Forward
    <2> QED BY <1>2, <2>1, <2>2, <2>3, <2>4, <2>5, <2>6 DEF LoadStep
  <1>3. ASSUME NEW action \in {"stop", "resume"}, NEW scope \in Scopes, Elsewhere(action, scope)
        PROVE  Forward'
    BY <1>3 DEF Forward, Elsewhere
  <1>4. CASE Decide
    <2>1. control'.phase = "decided"
      BY <1>4, Decided
    <2> QED BY <1>4, <2>1 DEF Forward, Decide
  <1>5. CASE ControlReadsRevision
    BY <1>5, <1>a DEF TypeOK, Forward, ControlReadsRevision
  <1>6. CASE ControlReadsRows
    <2>1. /\ control.answer \in Snapshot
          /\ [control.answer EXCEPT !.stopped = stopped].revision = control.answer.revision
      BY <1>6 DEF ControlReadsRows, Phased, Snapshot
    <2> QED BY <1>6, <2>1 DEF TypeOK, Forward, ControlReadsRows
  <1>7. CASE ControlFails
    <2>1. control'.answer = None
      BY <1>7 DEF TypeOK, ControlFails
    <2> QED BY <1>7, <2>1 DEF Forward, ControlFails
  <1>8. CASE Finish
    <2>1. control'.phase = "idle"
      BY <1>8 DEF Finish, NoControl
    <2>2. CASE control.answer = None
      BY <1>8, <2>1, <2>2 DEF Forward, Finish
    <2>3. CASE control.answer # None
      <3>1. \A x \in Loads : load[x].phase \in {"numbered", "answered"} => x \in passed'
        BY <1>8, <2>3 DEF Finish, InFlight
      <3> QED BY <1>8, <2>1, <3>1 DEF Forward, Finish
    <2> QED BY <2>2, <2>3
  <1>9. ASSUME NEW action \in {"stop", "resume"}, NEW scope \in Scopes \cup Rows,
               snapshot # None, Send(action, scope)
        PROVE  Forward'
    BY <1>9 DEF Forward, Send, NoControl
  <1>10. CASE Cancel
    BY <1>10 DEF Forward, Cancel
  <1>11. ASSUME NEW kind \in {"unlock", "stop-all", "app-stop"}, NEW scope \in Scopes \cup Rows,
                OpenConfirm(kind, scope)
         PROVE  Forward'
    BY <1>11 DEF Forward, OpenConfirm
  <1>12. CASE UNCHANGED vars
    BY <1>12 DEF Forward, vars
  <1> QED BY Steps, <1>1, <1>2, <1>3, <1>4, <1>5, <1>6, <1>7, <1>8, <1>9, <1>10, <1>11, <1>12

\* What a control has brought about lasts, under the order lock or within its
\* turn of the event loop, until its answer is made, and the answer says so.
Told ==
    /\ control.phase \in {"decided", "numbered"} /\ control.verdict \in {"already", "committed"}
       => AlreadySo(control.action, control.scope)
    /\ control.phase = "answered" /\ control.answer # None
       /\ control.verdict \in {"already", "committed"}
       => (control.action = "stop") = (control.scope \in control.answer.stopped)

LEMMA ToldStep ==
    ASSUME TypeOK, Phased, Told, [Next]_vars
    PROVE  Told'
  <1> USE DashboardAssumption
  <1> USE DEF governor, notices, loading, controlling
  <1>a. ASSUME UNCHANGED <<governor, control>> PROVE Told'
    BY <1>a DEF Told, AlreadySo
  <1>1. CASE BeginPoll
    BY <1>1, <1>a DEF BeginPoll
  <1>2. ASSUME NEW x \in Loads, LoadStep(x) PROVE Told'
    BY <1>2, <1>a DEF LoadStep, ReadRevision, ReadRows, LoadFails, Refresh,
                      Superseded, Loaded, Missed
  <1>3. ASSUME NEW action \in {"stop", "resume"}, NEW scope \in Scopes, Elsewhere(action, scope)
        PROVE  Told'
    <2>1. control.phase \in {"decided", "numbered"} => scope # control.scope
      BY <1>3 DEF Elsewhere, Change, MayChange, LoopBusy, OrderLocked
    <2>2. scope # control.scope => (control.scope \in stopped' <=> control.scope \in stopped)
      BY <1>3 DEF Elsewhere, Change
    <2> QED BY <1>3, <2>1, <2>2 DEF Told, AlreadySo, Elsewhere
  <1>4. CASE Decide
    <2>0. /\ control'.phase = "decided"
          /\ control'.action = control.action /\ control'.scope = control.scope
      BY <1>4, Decided
    <2>1. CASE control'.verdict = "conflict"
      BY <2>0, <2>1 DEF Told
    <2>2. CASE AlreadySo(control.action, control.scope) /\ UNCHANGED governor
      BY <2>0, <2>2 DEF Told, AlreadySo
    <2>3. CASE Change(control.action, control.scope)
      <3>1. control.action = "stop" <=> control.scope \in stopped'
        BY <2>3 DEF Change
      <3> QED BY <2>0, <3>1 DEF Told, AlreadySo
    <2> QED BY <1>4, <2>1, <2>2, <2>3, Decided
  <1>5. CASE ControlReadsRevision
    <2>1. /\ control'.phase = "numbered" /\ control'.verdict = control.verdict
          /\ control'.action = control.action /\ control'.scope = control.scope
      BY <1>5 DEF TypeOK, ControlReadsRevision
    <2> QED BY <1>5, <2>1 DEF Told, AlreadySo, ControlReadsRevision
  <1>6. CASE ControlReadsRows
    <2>1. /\ control'.phase = "answered" /\ control'.verdict = control.verdict
          /\ control'.action = control.action /\ control'.scope = control.scope
      BY <1>6 DEF TypeOK, ControlReadsRows
    <2>2. control'.answer.stopped = stopped
      BY <1>6 DEF TypeOK, Phased, Snapshot, ControlReadsRows
    <2> QED BY <1>6, <2>1, <2>2 DEF Told, AlreadySo, ControlReadsRows
  <1>7. CASE ControlFails
    <2>1. control'.phase = "answered" /\ control'.answer = None
      BY <1>7 DEF TypeOK, ControlFails
    <2> QED BY <2>1 DEF Told
  <1>8. CASE Finish
    BY <1>8 DEF Told, Finish, NoControl
  <1>9. ASSUME NEW action \in {"stop", "resume"}, NEW scope \in Scopes \cup Rows,
               snapshot # None, Send(action, scope)
        PROVE  Told'
    BY <1>9 DEF Told, Send, NoControl
  <1>10. CASE Cancel
    BY <1>10, <1>a DEF Cancel
  <1>11. ASSUME NEW kind \in {"unlock", "stop-all", "app-stop"}, NEW scope \in Scopes \cup Rows,
                OpenConfirm(kind, scope)
         PROVE  Told'
    BY <1>11, <1>a DEF OpenConfirm
  <1>12. CASE UNCHANGED vars
    BY <1>12, <1>a DEF vars
  <1> QED BY Steps, <1>1, <1>2, <1>3, <1>4, <1>5, <1>6, <1>7, <1>8, <1>9, <1>10, <1>11, <1>12
-----------------------------------------------------------------------------
Inv == TypeOK /\ Phased /\ NotBehind /\ HalfRead /\ Forward /\ Told

LEMMA InvInit ==
    ASSUME Init
    PROVE  Inv
  <1>1. TypeOK
    <2>1. NoLoad \in [phase : Phases, answer : Snapshot \cup Problems \cup {None}]
      BY DEF NoLoad, Phases
    <2>2. NoControl \in [phase : Phases, action : {"stop", "resume"}, scope : Scopes \cup Rows,
                         seen : Snapshot \cup {None},
                         verdict : {"open", "conflict", "already", "committed"},
                         answer : Snapshot \cup {None}]
      BY DEF NoControl, Phases, Scopes
    <2>3. NoRequest \in [kind : {"none", "unlock", "stop-all", "app-stop"}, scope : Scopes \cup Rows]
      BY DEF NoRequest, Scopes
    <2>4. load \in [Loads -> [phase : Phases, answer : Snapshot \cup Problems \cup {None}]]
      BY <2>1 DEF Init
    <2>5. refreshing \in BOOLEAN /\ pending \in BOOLEAN /\ controlError \in BOOLEAN
      BY DEF Init
    <2>6. revision \in Nat /\ misses \in 0 .. 1
      BY DEF Init
    <2>7. /\ stopped \subseteq Scopes /\ passed \subseteq Loads \cup {"control"}
          /\ snapshot = None /\ problem = None /\ latest = None
          /\ control = NoControl /\ confirmRequest = NoRequest
      BY DEF Init
    <2> QED BY <2>2, <2>3, <2>4, <2>5, <2>6, <2>7 DEF TypeOK
  <1>2. Phased /\ NotBehind /\ HalfRead /\ Forward /\ Told
    BY DEF Init, Phased, NotBehind, HalfRead, Forward, Told, Sound, NoLoad, NoControl
  <1> QED BY <1>1, <1>2 DEF Inv

LEMMA InvStep ==
    ASSUME Inv, [Next]_vars
    PROVE  Inv'
  BY TypedStep, PhasedStep, NotBehindStep, ForwardStep, ToldStep DEF Inv

\* The window's state keeps its type (App.tsx:34-45).
THEOREM TypeOKAlways == Spec => []TypeOK
  <1>1. Inv => TypeOK
    BY DEF Inv
  <1> QED BY <1>1, InvInit, InvStep, PTL DEF Spec

\* However the reads of a snapshot fall among the changes, no snapshot in the
\* window or on its way is behind its own revision (store.py:264-288).
THEOREM NotBehindAlways == Spec => []NotBehind
  <1>1. Inv => NotBehind
    BY DEF Inv
  <1> QED BY <1>1, InvInit, InvStep, PTL DEF Spec

LEMMA AsSeenStep ==
    ASSUME Inv, [Next]_vars,
           control.verdict # "committed", control'.verdict = "committed"
    PROVE  control.seen = [revision |-> revision, stopped |-> stopped]
  <1> USE DEF governor, notices, loading, controlling
  <1>1. CASE Decide
    <2>1. control.seen.revision = revision
      BY <1>1 DEF Inv, TypeOK, Decide
    <2>2. control.seen \in Snapshot /\ control.seen # None /\ Sound(control.seen)
      BY <1>1, DashboardAssumption DEF Inv, Phased, NotBehind, Decide
    <2> QED BY <2>1, <2>2 DEF Sound, Snapshot
  <1>2. CASE control' = control
    BY <1>2
  <1>3. CASE ControlReadsRevision \/ ControlReadsRows \/ ControlFails \/ Finish
    <2>1. CASE Finish
      BY <2>1 DEF Finish, NoControl
    <2>2. CASE ControlReadsRevision \/ ControlReadsRows \/ ControlFails
      <3>1. control'.verdict = control.verdict
        BY <2>2 DEF Inv, TypeOK, ControlReadsRevision, ControlReadsRows, ControlFails
      <3> QED BY <3>1
    <2> QED BY <1>3, <2>1, <2>2
  <1>4. ASSUME NEW action \in {"stop", "resume"}, NEW scope \in Scopes \cup Rows,
               Send(action, scope)
        PROVE  FALSE
    BY <1>4 DEF Send, NoControl
  <1>5. ASSUME NEW x \in Loads, LoadStep(x) PROVE control' = control
    BY <1>5 DEF LoadStep, ReadRevision, ReadRows, LoadFails, Refresh, Superseded, Loaded, Missed
  <1> QED BY Steps, <1>1, <1>2, <1>3, <1>4, <1>5
          DEF Inv, BeginPoll, Elsewhere, Cancel, OpenConfirm, vars

\* Whatever loads, controls of others and half-read snapshots come between, a
\* control changes the state only if its sender saw the whole of that state
\* (api.ts:198-200, store.py:309-318).
THEOREM AsSeenAlways == Spec => AsSeen
  BY AsSeenStep, InvInit, InvStep, PTL DEF Spec, AsSeen

LEMMA ToldTrulyStep ==
    ASSUME Inv, [Next]_vars, pending, ~pending', ~controlError'
    PROVE  /\ control.verdict \in {"committed", "already"}
           /\ (control.action = "stop") = (control.scope \in snapshot'.stopped)
  <1> USE DEF governor, notices, loading, controlling
  <1>1. CASE Finish
    <2>1. /\ control.phase = "answered" /\ control.answer # None /\ control.verdict # "conflict"
          /\ snapshot' = control.answer
      BY <1>1 DEF Finish
    <2>2. control.verdict \in {"committed", "already"}
      BY <2>1 DEF Inv, TypeOK, Phased
    <2> QED BY <2>1, <2>2 DEF Inv, Told
  <1>2. CASE pending' = pending
    BY <1>2
  <1>3. CASE Decide \/ ControlReadsRevision \/ ControlReadsRows \/ ControlFails
    BY <1>3 DEF Decide, ControlReadsRevision, ControlReadsRows, ControlFails
  <1>4. ASSUME NEW action \in {"stop", "resume"}, NEW scope \in Scopes \cup Rows,
               Send(action, scope)
        PROVE  FALSE
    BY <1>4 DEF Send
  <1>5. ASSUME NEW x \in Loads, LoadStep(x) PROVE pending' = pending
    BY <1>5 DEF LoadStep, ReadRevision, ReadRows, LoadFails, Refresh, Superseded, Loaded, Missed
  <1> QED BY Steps, <1>1, <1>2, <1>3, <1>4, <1>5
          DEF Inv, BeginPoll, Elsewhere, Cancel, OpenConfirm, vars

\* A control reported without "Not applied" was decided in its favour, and the
\* snapshot shown with it shows what it asked for (App.tsx:104-112).
THEOREM ToldTrulyAlways == Spec => ToldTruly
  BY ToldTrulyStep, InvInit, InvStep, PTL DEF Spec, ToldTruly

LEMMA BackStep ==
    ASSUME Inv, [Next]_vars, snapshot # None, snapshot'.revision < snapshot.revision
    PROVE  passed \ passed' # {}
  <1> USE DashboardAssumption
  <1> USE DEF governor, notices, loading, controlling
  <1>a. ASSUME snapshot' = snapshot PROVE FALSE
    <2>1. snapshot.revision \in Nat
      BY DEF Inv, TypeOK, Snapshot
    <2> QED BY <1>a, <2>1
  <1>1. ASSUME NEW x \in Loads, Loaded(x) PROVE passed \ passed' # {}
    <2>1. load[x].answer \in Snapshot /\ snapshot \in Snapshot
      BY <1>1 DEF Inv, TypeOK, Phased, Loaded, End
    <2>2. x \in passed
      <3>1. SUFFICES ASSUME x \notin passed PROVE FALSE
        OBVIOUS
      <3>2. snapshot.revision <= load[x].answer.revision
        BY <1>1, <2>1, <3>1 DEF Inv, Forward, Loaded, End
      <3> QED BY <1>1, <2>1, <3>2 DEF Loaded, Snapshot
    <2>3. x \notin passed'
      BY <1>1 DEF Loaded
    <2> QED BY <2>2, <2>3
  <1>2. CASE Finish
    <2>1. control.answer # None
      BY <1>2, <1>a DEF Finish
    <2>2. control.answer \in Snapshot /\ snapshot \in Snapshot
      BY <2>1 DEF Inv, TypeOK
    <2>3. "control" \in passed
      <3>1. SUFFICES ASSUME "control" \notin passed PROVE FALSE
        OBVIOUS
      <3>2. snapshot.revision <= control.answer.revision
        BY <1>2, <2>1, <3>1 DEF Inv, Forward, Finish
      <3> QED BY <1>2, <2>1, <2>2, <3>2 DEF Finish, Snapshot
    <2>4. "control" \notin passed'
      BY <1>2 DEF Finish, InFlight
    <2> QED BY <2>3, <2>4
  <1>3. ASSUME NEW x \in Loads, LoadStep(x), ~Loaded(x) PROVE snapshot' = snapshot
    BY <1>3 DEF LoadStep, ReadRevision, ReadRows, LoadFails, Refresh, Superseded, Missed
  <1>4. CASE Decide \/ ControlReadsRevision \/ ControlReadsRows \/ ControlFails
    BY <1>a, <1>4 DEF Decide, ControlReadsRevision, ControlReadsRows, ControlFails
  <1>5. ASSUME NEW action \in {"stop", "resume"}, NEW scope \in Scopes \cup Rows,
               Send(action, scope)
        PROVE  FALSE
    BY <1>a, <1>5 DEF Send
  <1> QED BY Steps, <1>a, <1>1, <1>2, <1>3, <1>4, <1>5
          DEF Inv, BeginPoll, Elsewhere, Cancel, OpenConfirm, vars

\* Loads alone never take the window back, however many there are and however
\* they overlap; it takes a control and a load under way together
\* (App.tsx:58-60, 106-109).
THEOREM BackOnlyByOverlapAlways == Spec => BackOnlyByOverlap
  BY BackStep, InvInit, InvStep, PTL DEF Spec, BackOnlyByOverlap
=============================================================================

------------------------- MODULE ControlPlaneProofs -------------------------
(***************************************************************************)
(* What holds of the control plane for any apps and however many controls: *)
(* the reader's cache is right whoever publishes; and where publications   *)
(* do not overlap and an open file can be replaced, an acknowledged stop   *)
(* holds through failures, deaths and restarts.                            *)
(***************************************************************************)
EXTENDS ControlPlane, TLAPS

\* A step, action by action.
LEMMA Steps ==
    ASSUME [Next]_vars
    PROVE  \/ \E x \in Controllers, action \in {"stop", "resume"}, scope \in Scopes,
                 expected \in 0 .. MaxRevision :
                    NoChange(x, action, scope, expected) \/ Commit(x, action, scope, expected)
           \/ \E x \in Starters : Start(x) \/ Die(x)
           \/ \E x \in Publishers : Publish(x)
           \/ StatFile \/ OpenFile \/ CloseFile
           \/ UNCHANGED vars
  BY DEF Next, Control, Conflict, Read

LEMMA GotoTyped ==
    ASSUME TypeOK, NEW x \in Publishers, NEW phase \in Phases, Goto(x, phase)
    PROVE  /\ pc' \in [Publishers -> Phases]
           /\ job' \in [Publishers -> [action : {"none", "stop", "resume"}, scope : Scopes]]
           /\ draft' \in [Publishers -> Policy]
  <1>1. NoJob \in [action : {"none", "stop", "resume"}, scope : Scopes]
    BY DEF NoJob, Scopes
  <1>2. Blank \in Policy
    BY DEF Blank, Policy
  <1> QED BY <1>1, <1>2 DEF TypeOK, Goto

LEMMA FailTyped ==
    ASSUME TypeOK, NEW x \in Publishers, Fail(x)
    PROVE  /\ pc' \in [Publishers -> Phases]
           /\ job' \in [Publishers -> [action : {"none", "stop", "resume"}, scope : Scopes]]
           /\ draft' \in [Publishers -> Policy]
  <1>1. (IF x \in Controllers THEN "unlinking" ELSE "idle") \in Phases
    BY DEF Phases
  <1> QED BY <1>1, GotoTyped DEF Fail

LEMMA TypedStep ==
    ASSUME TypeOK, [Next]_vars
    PROVE  TypeOK'
  <1> USE DEF store, disk, publications, reader
  <1>0. /\ NoJob \in [action : {"none", "stop", "resume"}, scope : Scopes]
        /\ Blank \in Policy
        /\ Absent \notin Stamped \cup Policy
    BY AbsentAssumption DEF NoJob, Blank, Policy, Scopes
  <1>1. ASSUME NEW x \in Controllers, NEW action \in {"stop", "resume"}, NEW scope \in Scopes,
               NEW expected, NoChange(x, action, scope, expected)
        PROVE  TypeOK'
    BY <1>1 DEF TypeOK, NoChange
  <1>2. ASSUME NEW x \in Controllers, NEW action \in {"stop", "resume"}, NEW scope \in Scopes,
               NEW expected, Commit(x, action, scope, expected)
        PROVE  TypeOK'
    <2>1. job' \in [Publishers -> [action : {"none", "stop", "resume"}, scope : Scopes]]
      BY <1>2 DEF TypeOK, Commit
    <2>2. pc' \in [Publishers -> Phases]
      BY <1>2 DEF TypeOK, Commit, Phases
    <2>3. revision' \in Nat
      BY <1>2 DEF TypeOK, Commit
    <2>4. stopped' \subseteq Scopes /\ promised' \subseteq Scopes /\ held' \subseteq Scopes
      <3>1. /\ stopped' = IF action = "stop" THEN stopped \cup {scope} ELSE stopped \ {scope}
            /\ promised' = promised \ {scope}
            /\ held' = held \ {scope}
        BY <1>2 DEF Commit
      <3> QED BY <3>1 DEF TypeOK
    <2>5. UNCHANGED <<disk, draft, serving, reader>>
      BY <1>2 DEF Commit
    <2> QED BY <2>1, <2>2, <2>3, <2>4, <2>5 DEF TypeOK
  <1>3. ASSUME NEW x \in Starters, Start(x) PROVE TypeOK'
    BY <1>3 DEF TypeOK, Start, Phases
  <1>4. ASSUME NEW x \in Starters, Die(x) PROVE TypeOK'
    <2>1. /\ pc' \in [Publishers -> Phases]
          /\ job' \in [Publishers -> [action : {"none", "stop", "resume"}, scope : Scopes]]
          /\ draft' \in [Publishers -> Policy]
      BY <1>0, <1>4 DEF TypeOK, Die, Phases
    <2>2. /\ reading' \in {"idle", "stat", "open"}
          /\ seen' \in Nat
          /\ text' \in Policy
          /\ cache' \in Stamped \cup {NoCache}
          /\ answer' \in Policy \cup {Absent}
      BY <1>0, <1>4 DEF TypeOK, Die
    <2> QED BY <1>4, <2>1, <2>2 DEF TypeOK, Die
  <1>5. ASSUME NEW x \in Publishers, Publish(x) PROVE TypeOK'
    <2>1. CASE OpenSnapshot(x) \/ NumberSnapshot(x)
      <3>1. draft' \in [Publishers -> Policy]
        BY <2>1, SMTT(30) DEF TypeOK, OpenSnapshot, NumberSnapshot, Policy
      <3> QED BY <2>1, <3>1 DEF TypeOK, OpenSnapshot, NumberSnapshot, Phases
    <2>2. CASE CopySnapshot(x)
      <3>1. draft' \in [Publishers -> Policy]
        BY <2>2 DEF TypeOK, CopySnapshot, Policy
      <3> QED BY <2>2, <3>1 DEF TypeOK, CopySnapshot, Phases
    <2>3. CASE CheckSnapshot(x)
      <3>1. /\ pc' \in [Publishers -> Phases]
            /\ job' \in [Publishers -> [action : {"none", "stop", "resume"}, scope : Scopes]]
            /\ draft' \in [Publishers -> Policy]
        BY <2>3, FailTyped, GotoTyped DEF CheckSnapshot, Phases
      <3> QED BY <2>3, <3>1 DEF TypeOK, CheckSnapshot
    <2>4. CASE Replace(x)
      <3>1. /\ pc' \in [Publishers -> Phases]
            /\ job' \in [Publishers -> [action : {"none", "stop", "resume"}, scope : Scopes]]
            /\ draft' \in [Publishers -> Policy]
        BY <2>4, GotoTyped DEF Replace, Phases
      <3>2. file' \in Stamped /\ stamp' \in Nat
        BY <2>4 DEF TypeOK, Replace, Stamped
      <3>3. job[x].scope \in Scopes
        BY DEF TypeOK
      <3> QED BY <2>4, <3>1, <3>2, <3>3 DEF TypeOK, Replace
    <2>5. CASE ReplaceFails(x)
      <3>1. /\ pc' \in [Publishers -> Phases]
            /\ job' \in [Publishers -> [action : {"none", "stop", "resume"}, scope : Scopes]]
            /\ draft' \in [Publishers -> Policy]
        BY <2>5, FailTyped DEF ReplaceFails
      <3> QED BY <2>5, <3>1 DEF TypeOK, ReplaceFails
    <2>6. CASE Unlink(x)
      <3>1. /\ pc' \in [Publishers -> Phases]
            /\ job' \in [Publishers -> [action : {"none", "stop", "resume"}, scope : Scopes]]
            /\ draft' \in [Publishers -> Policy]
        BY <2>6, GotoTyped DEF Unlink, Phases
      <3> QED BY <2>6, <3>1 DEF TypeOK, Unlink
    <2> QED BY <1>5, <2>1, <2>2, <2>3, <2>4, <2>5, <2>6 DEF Publish
  <1>6. CASE StatFile
    BY <1>6 DEF TypeOK, StatFile, Stamped, NoCache
  <1>7. CASE OpenFile
    BY <1>7 DEF TypeOK, OpenFile, Stamped
  <1>8. CASE CloseFile
    <2>1. cache' \in Stamped
      BY <1>8 DEF TypeOK, CloseFile, Stamped
    <2> QED BY <1>8, <2>1 DEF TypeOK, CloseFile
  <1>9. CASE UNCHANGED vars
    BY <1>9 DEF TypeOK, vars
  <1> QED BY <1>1, <1>2, <1>3, <1>4, <1>5, <1>6, <1>7, <1>8, <1>9, Steps
-----------------------------------------------------------------------------
\* The metadata the reader knows are old or the file's, and what it read under
\* them is the file's as long as they still are.
CacheInv ==
    /\ TypeOK
    /\ file # Absent => file.stamp <= stamp
    /\ seen <= stamp
    /\ cache # NoCache => cache.stamp <= stamp
    /\ reading = "open" /\ file # Absent /\ file.stamp = seen => file.policy = text
    /\ CacheHonest

\* The files only change by getting new metadata, or by going.
LEMMA FileSteps ==
    ASSUME TypeOK, NEW x \in Publishers, Publish(x)
    PROVE  /\ \/ file' = file /\ stamp' = stamp
              \/ file' = Absent /\ stamp' = stamp
              \/ /\ stamp' = stamp + 1
                 /\ file' \in Stamped
                 /\ file'.stamp = stamp + 1
           /\ UNCHANGED reader
  <1>1. CASE Replace(x)
    BY <1>1 DEF TypeOK, Replace, Stamped
  <1>2. CASE ~Replace(x)
    BY <1>2 DEF Publish, OpenSnapshot, CheckSnapshot, NumberSnapshot, CopySnapshot,
                ReplaceFails, Unlink, disk
  <1> QED BY <1>1, <1>2

LEMMA CacheStep ==
    ASSUME CacheInv, [Next]_vars
    PROVE  CacheInv'
  <1> USE DEF NoCache
  <1>0. TypeOK /\ TypeOK' /\ Absent \notin Stamped
    BY TypedStep, AbsentAssumption DEF CacheInv
  <1>1. CASE UNCHANGED <<file, stamp, reading, seen, text, cache>>
    BY <1>0, <1>1 DEF CacheInv, CacheHonest
  <1>2. ASSUME NEW x \in Starters, Die(x) PROVE CacheInv'
    BY <1>0, <1>2 DEF CacheInv, CacheHonest, Die, disk, reader, TypeOK
  <1>3. ASSUME NEW x \in Publishers, Publish(x) PROVE CacheInv'
    <2>1. UNCHANGED reader
      BY <1>0, <1>3, FileSteps
    <2>2. CASE file' = file /\ stamp' = stamp
      BY <1>1, <2>1, <2>2 DEF reader
    <2>3. CASE file' = Absent /\ stamp' = stamp
      BY <1>0, <2>1, <2>3 DEF reader, CacheInv, CacheHonest
    <2>4. CASE stamp' = stamp + 1 /\ file' \in Stamped /\ file'.stamp = stamp + 1
      BY <1>0, <2>1, <2>4 DEF reader, CacheInv, CacheHonest, TypeOK, Stamped
    <2> QED BY <1>0, <1>3, <2>2, <2>3, <2>4, FileSteps
  <1>4. CASE StatFile
    BY <1>0, <1>4 DEF CacheInv, CacheHonest, StatFile, disk
  <1>5. CASE OpenFile
    BY <1>0, <1>5 DEF CacheInv, CacheHonest, OpenFile, disk
  <1>6. CASE CloseFile
    BY <1>0, <1>6 DEF CacheInv, CacheHonest, CloseFile, disk
  <1>7. ASSUME NEW x \in Controllers, NEW action, NEW scope, NEW expected,
               NoChange(x, action, scope, expected) \/ Commit(x, action, scope, expected)
        PROVE  CacheInv'
    BY <1>1, <1>7 DEF NoChange, Commit, disk, reader
  <1>8. ASSUME NEW x \in Starters, Start(x) PROVE CacheInv'
    BY <1>1, <1>8 DEF Start, disk, reader
  <1>9. CASE UNCHANGED vars
    BY <1>1, <1>9 DEF vars, disk, reader
  <1> QED BY <1>2, <1>3, <1>4, <1>5, <1>6, <1>7, <1>8, <1>9, Steps

LEMMA InitTyped == Init => TypeOK
  <1> SUFFICES ASSUME Init PROVE TypeOK
    OBVIOUS
  <1>1. Blank \in Policy
    BY DEF Blank, Policy
  <1>2. NoJob \in [action : {"none", "stop", "resume"}, scope : Scopes]
    BY DEF NoJob, Scopes
  <1>3. file \in Stamped
    BY <1>1 DEF Init, Stamped
  <1> QED BY <1>1, <1>2, <1>3 DEF Init, TypeOK, Phases

\* Every state is well formed, however publications overlap, fail and die: no
\* draft, file or cached policy is ever anything but a policy of the scopes
\* (store.py:264-288, publisher.py:14-23, control_policy.py:53-61).
THEOREM TypeOKAlways == Spec => []TypeOK
  <1> QED BY InitTyped, TypedStep, PTL DEF Spec

\* The reader's cache is never wrong about the file whose metadata it holds,
\* however publications overlap, fail and die (control_policy.py:53-61).
THEOREM CacheHonestAlways == Spec => []CacheHonest
  <1>1. Init => CacheInv
    BY InitTyped, AbsentAssumption DEF Init, CacheInv, CacheHonest, NoCache
  <1>2. CacheInv /\ [Next]_vars => CacheInv'
    BY CacheStep
  <1>3. CacheInv => CacheHonest
    BY DEF CacheInv
  <1> QED BY <1>1, <1>2, <1>3, PTL DEF Spec
-----------------------------------------------------------------------------
\* One publication at a time, and an open file that can be replaced.
Orderly == ~MayOverlap /\ ~OpenBlocks

\* Who publishes: one at a time, and controllers only while the Governor
\* serves; the database does not change until they are done.
TurnInv ==
    /\ \A x, y \in Publishers : pc[x] # "idle" /\ pc[y] # "idle" => x = y
    /\ "governor" \notin serving => \A x \in Controllers : pc[x] = "idle"
    /\ \A x \in Publishers :
        /\ pc[x] = "idle" => job[x] = NoJob
        /\ job[x].action = "stop" => job[x].scope \in stopped
        /\ pc[x] \in {"checking", "copying", "replacing"} => draft[x].revision = revision
        /\ pc[x] = "replacing" => draft[x].stopped = stopped

\* What the file says: the database's state, unless a control is on its way or
\* the Governor is down; and always at least the stops that were acknowledged.
FileInv ==
    /\ file # Absent => file.stamp = stamp
    /\ "governor" \in serving /\ (\A x \in Controllers : pc[x] = "idle")
            => file = Absent \/ file.policy = Current
    /\ promised \subseteq stopped
    /\ file # Absent => promised \cap Published \subseteq file.policy.stopped

\* What the reader knows: the stops it must respect are still promised, and are
\* in what it has read and in what it has last decided from.
ReaderInv ==
    /\ held \subseteq promised
    /\ reading = "open" => held \cap Published \subseteq text.stopped
    /\ answer # Absent /\ reading = "idle" => held \cap Published \subseteq answer.stopped

StopInv == CacheInv /\ TurnInv /\ FileInv /\ ReaderInv

\* A publication that goes from one phase to another leaves the others alone.
LEMMA MovedOn ==
    ASSUME TypeOK, TurnInv, NEW x \in Publishers, pc[x] # "idle",
           NEW phase \in Phases, Goto(x, phase),
           phase \notin {"checking", "copying", "replacing"},
           UNCHANGED <<revision, stopped, serving>>
    PROVE  TurnInv'
  <1>1. /\ pc' = [pc EXCEPT ![x] = phase]
        /\ \A y \in Publishers : y # x =>
                pc'[y] = pc[y] /\ job'[y] = job[y] /\ draft'[y] = draft[y]
        /\ phase = "idle" => job'[x] = NoJob
        /\ phase # "idle" => job'[x] = job[x] /\ draft'[x] = draft[x]
    BY DEF Goto, TypeOK
  <1>2. pc'[x] = phase /\ \A y \in Publishers : pc'[y] # "idle" => pc[y] # "idle"
    BY <1>1 DEF TypeOK
  <1>3. "governor" \notin serving' => \A y \in Controllers : pc'[y] = "idle"
    BY <1>2 DEF TurnInv, Publishers
  <1>4. \A y, z \in Publishers : pc'[y] # "idle" /\ pc'[z] # "idle" => y = z
    BY <1>2 DEF TurnInv
  <1>5. NoJob.action # "stop"
    BY DEF NoJob
  <1>6. ASSUME NEW y \in Publishers
        PROVE  /\ pc'[y] = "idle" => job'[y] = NoJob
               /\ job'[y].action = "stop" => job'[y].scope \in stopped'
               /\ pc'[y] \in {"checking", "copying", "replacing"} => draft'[y].revision = revision'
               /\ pc'[y] = "replacing" => draft'[y].stopped = stopped'
    <2>1. CASE y = x
      BY <1>1, <1>2, <1>5, <2>1 DEF TurnInv
    <2>2. CASE y # x
      BY <1>1, <2>2 DEF TurnInv
    <2> QED BY <2>1, <2>2
  <1> QED BY <1>3, <1>4, <1>6 DEF TurnInv

\* Nothing is being published when a control or a start begins.
LEMMA Alone ==
    ASSUME ~MayOverlap, NEW x, MayBegin(x)
    PROVE  \A y \in Publishers : pc[y] = "idle"
  BY DEF MayBegin, InProgress

LEMMA TurnStep ==
    ASSUME ~MayOverlap, TypeOK, TurnInv, [Next]_vars
    PROVE  TurnInv'
  <1> USE DEF store, disk, publications
  <1>1. ASSUME NEW x \in Controllers, NEW action \in {"stop", "resume"}, NEW scope \in Scopes,
               NEW expected, NoChange(x, action, scope, expected)
        PROVE  TurnInv'
    BY <1>1 DEF TurnInv, NoChange
  <1>2. ASSUME NEW x \in Controllers, NEW action \in {"stop", "resume"}, NEW scope \in Scopes,
               NEW expected, Commit(x, action, scope, expected)
        PROVE  TurnInv'
    <2>1. /\ \A y \in Publishers : pc[y] = "idle"
          /\ "governor" \in serving
      BY <1>2, Alone DEF Commit, Asked
    <2>2. /\ pc' = [pc EXCEPT ![x] = "opening"]
          /\ job' = [job EXCEPT ![x] = [action |-> action, scope |-> scope]]
          /\ UNCHANGED <<draft, serving>>
          /\ action = "stop" => scope \in stopped'
      BY <1>2 DEF Commit
    <2>3. /\ x \in Publishers
          /\ pc'[x] = "opening"
          /\ job'[x] = [action |-> action, scope |-> scope]
          /\ \A y \in Publishers : y # x => pc'[y] = "idle" /\ job'[y] = NoJob
      BY <2>1, <2>2 DEF TypeOK, TurnInv, Publishers
    <2>4. \A y \in Publishers :
            /\ pc'[y] = "idle" => job'[y] = NoJob
            /\ job'[y].action = "stop" => job'[y].scope \in stopped'
            /\ pc'[y] \in {"idle", "opening"}
      BY <2>2, <2>3 DEF NoJob
    <2>5. \A y, z \in Publishers : pc'[y] # "idle" /\ pc'[z] # "idle" => y = z
      BY <2>3
    <2> QED BY <2>1, <2>2, <2>4, <2>5 DEF TurnInv
  <1>3. ASSUME NEW x \in Starters, Start(x) PROVE TurnInv'
    <2>1. /\ \A y \in Publishers : pc[y] = "idle"
          /\ pc' = [pc EXCEPT ![x] = "opening"]
          /\ UNCHANGED <<revision, stopped, serving, job, draft>>
      BY <1>3, Alone DEF Start
    <2>2. /\ x \in Publishers /\ x \notin Controllers
          /\ pc'[x] = "opening"
          /\ \A y \in Publishers : y # x => pc'[y] = "idle"
      BY <2>1 DEF TypeOK, Publishers, Starters, Controllers
    <2> QED BY <2>1, <2>2 DEF TurnInv, Publishers
  <1>4. ASSUME NEW x \in Starters, Die(x) PROVE TurnInv'
    <2> DEFINE gone == IF x = "governor" THEN Controllers \cup {x} ELSE {x}
    <2>1. /\ pc' = [y \in Publishers |-> IF y \in gone THEN "idle" ELSE pc[y]]
          /\ job' = [y \in Publishers |-> IF y \in gone THEN NoJob ELSE job[y]]
          /\ draft' = [y \in Publishers |-> IF y \in gone THEN Blank ELSE draft[y]]
          /\ serving' = serving \ {x}
          /\ UNCHANGED <<revision, stopped>>
      BY <1>4 DEF Die
    <2>2. "governor" \notin serving' => \A y \in Controllers : pc'[y] = "idle"
      BY <2>1 DEF TurnInv, Publishers
    <2>3. \A y, z \in Publishers : pc'[y] # "idle" /\ pc'[z] # "idle" => y = z
      BY <2>1 DEF TurnInv
    <2>4. ASSUME NEW y \in Publishers
          PROVE  /\ pc'[y] = "idle" => job'[y] = NoJob
                 /\ job'[y].action = "stop" => job'[y].scope \in stopped'
                 /\ pc'[y] \in {"checking", "copying", "replacing"} => draft'[y].revision = revision'
                 /\ pc'[y] = "replacing" => draft'[y].stopped = stopped'
      <3>1. CASE y \in gone
        <4>1. pc'[y] = "idle" /\ job'[y] = NoJob
          BY <2>1, <3>1
        <4> QED BY <4>1 DEF NoJob
      <3>2. CASE y \notin gone
        <4>1. pc'[y] = pc[y] /\ job'[y] = job[y] /\ draft'[y] = draft[y]
          BY <2>1, <3>2
        <4> QED BY <2>1, <4>1 DEF TurnInv
      <3> QED BY <3>1, <3>2
    <2> QED BY <2>2, <2>3, <2>4 DEF TurnInv
  <1>5. ASSUME NEW x \in Publishers, Publish(x) PROVE TurnInv'
    <2>1. CASE OpenSnapshot(x) \/ NumberSnapshot(x)
      BY <2>1 DEF TypeOK, TurnInv, OpenSnapshot, NumberSnapshot, Policy, Publishers
    <2>2. CASE CopySnapshot(x)
      BY <2>2 DEF TypeOK, TurnInv, CopySnapshot, Policy, Publishers
    <2>3. CASE CheckSnapshot(x)
      BY <2>3, MovedOn DEF CheckSnapshot, Fail, Phases
    <2>4. CASE Replace(x)
      <3>1. /\ pc[x] = "replacing"
            /\ pc' = [pc EXCEPT ![x] = "idle"]
            /\ job' = [job EXCEPT ![x] = NoJob]
            /\ draft' = [draft EXCEPT ![x] = Blank]
            /\ serving \subseteq serving'
            /\ UNCHANGED <<revision, stopped>>
        BY <2>4 DEF Replace, Goto
      <3>2. \A y \in Publishers : pc'[y] = "idle" /\ job'[y] = NoJob
        BY <3>1 DEF TypeOK, TurnInv
      <3> QED BY <3>1, <3>2 DEF TurnInv, NoJob, Publishers
    <2>5. CASE ReplaceFails(x)
      BY <2>5, MovedOn DEF ReplaceFails, Fail, Phases
    <2>6. CASE Unlink(x)
      BY <2>6, MovedOn DEF Unlink, Phases
    <2> QED BY <1>5, <2>1, <2>2, <2>3, <2>4, <2>5, <2>6 DEF Publish
  <1>6. CASE StatFile \/ OpenFile \/ CloseFile
    BY <1>6 DEF TurnInv, StatFile, OpenFile, CloseFile
  <1>7. CASE UNCHANGED vars
    BY <1>7 DEF TurnInv, vars
  <1> QED BY <1>1, <1>2, <1>3, <1>4, <1>5, <1>6, <1>7, Steps

LEMMA FileStep ==
    ASSUME Orderly, TypeOK, TypeOK', TurnInv, FileInv, [Next]_vars
    PROVE  FileInv'
  <1> USE DEF store, disk, publications
  <1>1. ASSUME NEW x \in Controllers, NEW action \in {"stop", "resume"}, NEW scope \in Scopes,
               NEW expected, NoChange(x, action, scope, expected)
        PROVE  FileInv'
    <2>1. \A y \in Publishers : pc[y] = "idle"
      BY <1>1, Alone DEF NoChange, Asked, Orderly
    <2>2. file # Absent => file.policy.stopped = stopped
      BY <1>1, <2>1 DEF NoChange, Asked, FileInv, Current, Publishers
    <2>3. /\ UNCHANGED <<revision, stopped, file, stamp, pc, serving>>
          /\ promised' = promised \/ (promised' = promised \cup {scope} /\ scope \in stopped)
      BY <1>1 DEF NoChange, AlreadySo
    <2>4. promised' \subseteq stopped
      BY <2>3 DEF FileInv
    <2> QED BY <2>2, <2>3, <2>4 DEF FileInv, Current
  <1>2. ASSUME NEW x \in Controllers, NEW action \in {"stop", "resume"}, NEW scope \in Scopes,
               NEW expected, Commit(x, action, scope, expected)
        PROVE  FileInv'
    <2>1. /\ pc' = [pc EXCEPT ![x] = "opening"]
          /\ promised' = promised \ {scope}
          /\ stopped' = stopped \cup {scope} \/ stopped' = stopped \ {scope}
          /\ UNCHANGED <<file, stamp, serving>>
      BY <1>2 DEF Commit
    <2>2. pc'[x] # "idle"
      BY <2>1 DEF TypeOK, Publishers
    <2> QED BY <2>1, <2>2 DEF FileInv
  <1>3. ASSUME NEW x \in Starters, Start(x) PROVE FileInv'
    <2>1. UNCHANGED <<revision, stopped, file, stamp, serving, promised>>
      BY <1>3 DEF Start
    <2>2. \A y \in Controllers : pc[y] = "idle"
      BY <1>3, Alone DEF Start, Publishers, Orderly
    <2> QED BY <2>1, <2>2 DEF FileInv, Current
  <1>4. ASSUME NEW x \in Starters, Die(x) PROVE FileInv'
    <2>1. UNCHANGED <<revision, stopped, file, stamp, promised>>
      BY <1>4 DEF Die
    <2>2. CASE x = "governor"
      BY <1>4, <2>1, <2>2 DEF Die, FileInv, Current
    <2>3. CASE x # "governor"
      <3>1. \A y \in Controllers : pc'[y] = pc[y]
        BY <1>4, <2>3 DEF Die, Publishers, Starters, Controllers
      <3>2. "governor" \in serving' => "governor" \in serving
        BY <1>4 DEF Die
      <3> QED BY <2>1, <3>1, <3>2 DEF FileInv, Current
    <2> QED BY <2>2, <2>3
  <1>5. ASSUME NEW x \in Publishers, Publish(x) PROVE FileInv'
    <2>1. CASE OpenSnapshot(x) \/ NumberSnapshot(x) \/ CopySnapshot(x)
      <3>1. /\ UNCHANGED <<revision, stopped, file, stamp, serving, promised>>
            /\ pc[x] # "idle"
            /\ \E phase \in Phases \ {"idle"} : pc' = [pc EXCEPT ![x] = phase]
        BY <2>1 DEF OpenSnapshot, NumberSnapshot, CopySnapshot, Phases
      <3>2. \A y \in Publishers : pc'[y] = "idle" => pc[y] = "idle"
        BY <3>1 DEF TypeOK
      <3> QED BY <3>1, <3>2 DEF FileInv, Current, Publishers
    <2>2. CASE CheckSnapshot(x) \/ ReplaceFails(x)
      <3>1. /\ UNCHANGED <<revision, stopped, file, stamp, serving, promised>>
            /\ Goto(x, "numbering") \/ Fail(x)
        BY <2>2 DEF CheckSnapshot, ReplaceFails
      <3>2. \A y \in Controllers : pc'[y] = "idle" => pc[y] = "idle"
        BY <3>1 DEF TypeOK, Goto, Fail, Publishers
      <3> QED BY <3>1, <3>2 DEF FileInv, Current
    <2>3. CASE Replace(x)
      <3>1. /\ file' = [stamp |-> stamp + 1, policy |-> draft[x]]
            /\ stamp' = stamp + 1
            /\ promised' = IF job[x].action = "stop"
                           THEN promised \cup {job[x].scope} ELSE promised
            /\ pc[x] = "replacing"
            /\ UNCHANGED <<revision, stopped>>
        BY <2>3 DEF Replace
      <3>2. draft[x] = Current
        <4>1. draft[x].revision = revision /\ draft[x].stopped = stopped
          BY <3>1 DEF TurnInv
        <4>2. draft[x] \in Policy
          BY DEF TypeOK
        <4> QED BY <4>1, <4>2 DEF Policy, Current
      <3>3. promised' \subseteq stopped
        BY <3>1 DEF FileInv, TurnInv
      <3>4. file'.stamp = stamp' /\ file'.policy = Current
        BY <3>1, <3>2
      <3>5. Current' = Current /\ Current.stopped = stopped
        BY <3>1 DEF Current
      <3> QED BY <3>1, <3>3, <3>4, <3>5 DEF FileInv
    <2>4. CASE Unlink(x)
      <3>1. /\ file' = Absent
            /\ UNCHANGED <<revision, stopped, stamp, promised>>
        BY <2>4 DEF Unlink, Blocked, Orderly
      <3> QED BY <3>1 DEF FileInv
    <2> QED BY <1>5, <2>1, <2>2, <2>3, <2>4 DEF Publish
  <1>6. CASE StatFile \/ OpenFile \/ CloseFile
    BY <1>6 DEF FileInv, Current, StatFile, OpenFile, CloseFile
  <1>7. CASE UNCHANGED vars
    BY <1>7 DEF FileInv, Current, vars
  <1> QED BY <1>1, <1>2, <1>3, <1>4, <1>5, <1>6, <1>7, Steps

LEMMA ReaderStep ==
    ASSUME TypeOK, CacheInv, FileInv, ReaderInv, [Next]_vars
    PROVE  ReaderInv'
  <1> USE DEF store, disk, publications, NoCache
  <1>1. ASSUME NEW x \in Controllers, NEW action \in {"stop", "resume"}, NEW scope \in Scopes,
               NEW expected, NoChange(x, action, scope, expected)
        PROVE  ReaderInv'
    BY <1>1 DEF ReaderInv, NoChange, reader
  <1>2. ASSUME NEW x \in Controllers, NEW action \in {"stop", "resume"}, NEW scope \in Scopes,
               NEW expected, Commit(x, action, scope, expected)
        PROVE  ReaderInv'
    <2>1. /\ held' = held \ {scope}
          /\ promised' = promised \ {scope}
          /\ UNCHANGED reader
      BY <1>2 DEF Commit
    <2> QED BY <2>1 DEF ReaderInv, reader
  <1>3. ASSUME NEW x \in Starters, Start(x) PROVE ReaderInv'
    BY <1>3 DEF ReaderInv, Start, reader
  <1>4. ASSUME NEW x \in Starters, Die(x) PROVE ReaderInv'
    BY <1>4 DEF ReaderInv, Die, reader
  <1>5. ASSUME NEW x \in Publishers, Publish(x) PROVE ReaderInv'
    <2>1. UNCHANGED <<reader, held>> /\ promised \subseteq promised'
      BY <1>5 DEF Publish, OpenSnapshot, CheckSnapshot, NumberSnapshot, CopySnapshot,
                  Replace, ReplaceFails, Unlink
    <2> QED BY <2>1 DEF ReaderInv, reader
  <1>6. CASE StatFile
    <2>1. file # Absent /\ cache # Absent /\ file.stamp = cache.stamp
            => promised \cap Published \subseteq cache.policy.stopped
      BY DEF CacheInv, CacheHonest, FileInv
    <2> QED BY <1>6, <2>1 DEF ReaderInv, StatFile
  <1>7. CASE OpenFile
    BY <1>7 DEF ReaderInv, FileInv, OpenFile
  <1>8. CASE CloseFile
    BY <1>8 DEF ReaderInv, CloseFile
  <1>9. CASE UNCHANGED vars
    BY <1>9 DEF ReaderInv, vars, reader
  <1> QED BY <1>1, <1>2, <1>3, <1>4, <1>5, <1>6, <1>7, <1>8, <1>9, Steps

LEMMA StopInvAlways ==
    ASSUME Orderly
    PROVE  Spec => []StopInv
  <1>1. Init => StopInv
    <2> SUFFICES ASSUME Init PROVE StopInv
      OBVIOUS
    <2>1. TypeOK
      BY InitTyped
    <2>2. CacheInv
      BY <2>1, AbsentAssumption DEF Init, CacheInv, CacheHonest, NoCache
    <2>3. TurnInv
      BY DEF Init, TurnInv, NoJob, Publishers
    <2>4. FileInv
      BY DEF Init, FileInv, Current, Blank
    <2>5. ReaderInv
      BY DEF Init, ReaderInv
    <2> QED BY <2>2, <2>3, <2>4, <2>5 DEF StopInv
  <1>2. StopInv /\ [Next]_vars => StopInv'
    <2> SUFFICES ASSUME StopInv, [Next]_vars PROVE StopInv'
      OBVIOUS
    <2>1. TypeOK /\ CacheInv /\ TurnInv /\ FileInv /\ ReaderInv
      BY DEF StopInv, CacheInv
    <2>2. CacheInv' /\ TypeOK'
      BY <2>1, CacheStep, TypedStep
    <2>3. TurnInv'
      BY <2>1, TurnStep DEF Orderly
    <2>4. FileInv'
      BY <2>1, <2>2, FileStep
    <2>5. ReaderInv'
      BY <2>1, ReaderStep
    <2> QED BY <2>2, <2>3, <2>4, <2>5 DEF StopInv
  <1> QED BY <1>1, <1>2, PTL DEF Spec

\* An acknowledged stop holds, for any apps and however many controls,
\* failures, deaths and restarts, where publications do not overlap and an open
\* file can be replaced (store.py:370-379, control_policy.py:53-77).  The runs
\* MCControlPlane_overlap and MCControlPlane_blocked show both are needed.
THEOREM StopHoldsAlways ==
    ASSUME Orderly
    PROVE  Spec => []StopHolds
  <1>1. StopInv => StopHolds
    BY DEF StopInv, ReaderInv, StopHolds, Allowed, Published
  <1> QED BY <1>1, StopInvAlways, PTL

\* Between controls the file of a serving Governor is the database's state, or
\* there is none, under the same conditions (store.py:374-377).
THEOREM QuietAgreementAlways ==
    ASSUME Orderly
    PROVE  Spec => []QuietAgreement
  <1>1. StopInv => QuietAgreement
    <2> SUFFICES ASSUME StopInv, "governor" \in serving, InProgress = {}, file # Absent
                 PROVE  file \in [stamp : {stamp}, policy : {Current}]
      BY DEF QuietAgreement
    <2>1. file \in Stamped /\ file.stamp = stamp
      BY DEF StopInv, CacheInv, TypeOK, FileInv
    <2>2. file.policy = Current
      BY DEF StopInv, FileInv, InProgress, Publishers
    <2> QED BY <2>1, <2>2 DEF Stamped
  <1> QED BY <1>1, StopInvAlways, PTL
-----------------------------------------------------------------------------
LEMMA NoFalseAlarmStep ==
    ASSUME TypeOK, TurnInv, [Next]_vars,
           NEW x \in Controllers, pc[x] = "checking"
    PROVE  pc'[x] # "unlinking"
  <1> USE DEF store, disk, publications
  <1>1. pc[x] # "idle" /\ x \in Publishers /\ draft[x].revision = revision
    BY DEF TurnInv, Publishers
  <1>2. CASE pc' = pc
    BY <1>2
  <1>3. ASSUME NEW y \in Controllers, NEW action, NEW scope, NEW expected,
               Commit(y, action, scope, expected)
        PROVE  pc'[x] # "unlinking"
    BY <1>3 DEF Commit, TypeOK
  <1>4. ASSUME NEW y \in Starters, Start(y) PROVE pc'[x] # "unlinking"
    BY <1>4 DEF Start, TypeOK
  <1>5. ASSUME NEW y \in Starters, Die(y) PROVE pc'[x] # "unlinking"
    BY <1>1, <1>5 DEF Die
  <1>6. ASSUME NEW y \in Publishers, Publish(y) PROVE pc'[x] # "unlinking"
    <2>1. pc[y] # "idle"
      BY <1>6 DEF Publish, OpenSnapshot, CheckSnapshot, NumberSnapshot, CopySnapshot,
                  Replace, ReplaceFails, Unlink
    <2>2. y = x
      BY <1>1, <2>1 DEF TurnInv
    <2>3. CheckSnapshot(x)
      BY <1>6, <2>2 DEF Publish, OpenSnapshot, NumberSnapshot, CopySnapshot,
                        Replace, ReplaceFails, Unlink
    <2>4. Goto(x, "numbering")
      BY <1>1, <2>3 DEF CheckSnapshot
    <2> QED BY <1>1, <2>4 DEF Goto, TypeOK
  <1> QED
    BY <1>2, <1>3, <1>4, <1>5, <1>6, Steps
       DEF NoChange, StatFile, OpenFile, CloseFile, vars

\* Where publications do not overlap, no control takes a good database for a bad
\* one and withdraws the policy (store.py:232-288, 371-379), for any apps and
\* however many controls, failures and deaths.  That it is so only there is
\* what the overlap of MCControlPlane_overlap shows from the other side.
THEOREM NoFalseAlarmAlways ==
    ASSUME ~MayOverlap
    PROVE  Spec => NoFalseAlarm
  <1> DEFINE Inv == TypeOK /\ TurnInv
  <1>1. Init => Inv
    BY InitTyped DEF Init, TurnInv, NoJob, Publishers
  <1>2. Inv /\ [Next]_vars => Inv'
    BY TypedStep, TurnStep
  <1>3. Inv /\ [Next]_vars
        => [\A x \in Controllers : pc[x] = "checking" => pc'[x] # "unlinking"]_vars
    BY NoFalseAlarmStep
  <1> QED BY <1>1, <1>2, <1>3, PTL DEF Spec, NoFalseAlarm
=============================================================================

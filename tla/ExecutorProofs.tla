--------------------------- MODULE ExecutorProofs ---------------------------
(***************************************************************************)
(* Proofs about Executor: its type invariant, that the oldest snapshot     *)
(* undoes, that what the guards protect gets no other value, that answers  *)
(* are true, and that it implements ReversibleActions.                     *)
(***************************************************************************)
EXTENDS Executor, SequenceTheorems, TLAPS

-----------------------------------------------------------------------------
(* The inductive strengthening of OldestSnapshotUndoes and                 *)
(* ProtectedStaysPut.                                                      *)

\* What a target can have come to from its origin.
ReachableMachine ==
  \A t \in Targets : machine[t] \in Reachable(Kind[t], origin[t])

\* A snapshot's entry was captured from such a value.
CapturedEntries ==
  \A i \in DOMAIN snapshots, t \in Targets : Lists(i, t) =>
    \E v \in Reachable(Kind[t], origin[t]), read \in BOOLEAN :
      snapshots[i][t] = Captured(Kind[t], v, read)

\* A target that some snapshot lists has an oldest one, and that one is of the
\* target's origin; a target that none lists and that was not erased still is
\* at its origin.
OldestIsOrigin ==
  \A t \in Targets :
    /\ (\E i \in DOMAIN snapshots : Lists(i, t)) => \E i \in DOMAIN snapshots : Oldest(i, t)
    /\ Kind[t] # "powershell" /\ machine[t] # origin[t] /\ t \notin lost
         => \E i \in DOMAIN snapshots : Lists(i, t)
    /\ t \notin unnoticed \cup lost => \A i \in DOMAIN snapshots :
         Oldest(i, t) => snapshots[i][t] = Captured(Kind[t], origin[t], TRUE)

\* Changes begin when the action's snapshot is in the database.
SnapshotFirst ==
  req.phase = "apply" => \A t \in Snapshotted(req.action) : Lists(req.snap, t)

\* A write that the guards let through erases t.
Exposed(t) == \E u \in Registry \ Protected : t \in Swept(u)

\* Every snapshot holds the origin of a guarded target, or that it was erased.
GuardedEntries ==
  \A t \in Targets : IsGuarded(t) /\ Faithful(Kind[t], origin[t]) /\ t \notin unnoticed =>
    \A i \in DOMAIN snapshots :
      Lists(i, t) => \/ snapshots[i][t] = Captured(Kind[t], origin[t], TRUE)
                     \/ snapshots[i][t] = None /\ Exposed(t)

IInv ==
  /\ ReachableMachine
  /\ CapturedEntries
  /\ OldestIsOrigin
  /\ SnapshotFirst
  /\ GuardedEntries
  /\ ProtectedStaysPut

-----------------------------------------------------------------------------
(* The inductive strengthening of StatusIsTrue.                            *)

ActionUnderWay == ~Idle /\ req.action # RestoreRequest

\* Nothing is answered while a request is served; only an action that has
\* targets goes through the phases, and only a failed one is rolled back.
OneRequest ==
  /\ ~Idle => reply = NoReply /\ req.phase # "idle"
  /\ ActionUnderWay => req.action \in ActionIds /\ ~IsManualOnly(req.action)
  /\ ActionUnderWay /\ req.phase = "restore" => req.failed
  /\ ~ActionUnderWay => req.phase \in {"idle", "restore"}

\* The action's snapshot holds what its targets were before it.
SnapshotOfBefore ==
  ActionUnderWay => \A t \in Targets :
    /\ Lists(req.snap, t) <=> t \in Snapshotted(req.action)
    /\ Lists(req.snap, t) =>
         \E read \in BOOLEAN : /\ snapshots[req.snap][t] = Captured(Kind[t], before[t], read)
                               /\ t \notin unnoticed => read = TRUE

OwnTargetsOnly ==
  ActionUnderWay => \A t \in Targets \ DOMAIN Goals[req.action] :
    machine[t] = before[t] \/ (machine[t] = "missing" /\ ErasedBy(req.action, t))

\* Until a change fails, each target is where the counts say: as asked, unless a
\* later write of the action erased it.
Kept == {t \in req.succeeded : machine[t] = Effect[req.action][t][before[t]]}
Gone == UNION {Swept(t) : t \in Kept}
CountsAreTrue ==
  ActionUnderWay /\ ~req.failed =>
    LET effect == Effect[req.action] IN
    /\ DOMAIN Goals[req.action] = req.todo \cup req.succeeded \cup req.skipped
    /\ req.todo \cap (req.succeeded \cup req.skipped) = {}
    /\ req.phase = "record" => req.todo = {}
    /\ req.succeeded \subseteq DOMAIN effect /\ req.succeeded \subseteq Kept \cup Gone
    /\ \A t \in Targets \ Kept : machine[t] = IF t \in Gone THEN "missing" ELSE before[t]
    /\ \A t \in req.skipped \cap DOMAIN effect :
         t \notin Registry /\ effect[t][before[t]] = before[t]

\* The action's targets are where a change can have brought them, and what is
\* restored is where it was.
AwaitsRestore(t) == req.phase = "apply" \/ (req.phase = "restore" /\ t \in req.todo)
CanBeRestored(t) ==
  t \notin req.bad /\ Faithful(Kind[t], before[t]) /\ t \notin unnoticed
RestoresUndo ==
  ActionUnderWay => \A t \in Targets : t \in Snapshotted(req.action) =>
    /\ machine[t] \in Reachable(Kind[t], before[t])
    /\ ~AwaitsRestore(t) /\ req.failed /\ req.phase # "record_rollback_failed"
         /\ CanBeRestored(t) => machine[t] = before[t]

StatusInv ==
  /\ OneRequest /\ SnapshotOfBefore /\ OwnTargetsOnly
  /\ CountsAreTrue /\ RestoresUndo /\ StatusIsTrue

-----------------------------------------------------------------------------
(* The atomic executor.                                                    *)

\* The machines and services for which the executor is atomic, and the invariant it needs.
Dependable ==
  /\ ~ReadMayFail /\ ~RestoreMayFail /\ ~DbMayFail /\ MaxCrashes = 0
  /\ \A t \in Targets : Kind[t] \in {"registry", "service", "bcd", "file_rename"}
  /\ \A m \in Origins, t \in Targets : m[t] # "text1"
  /\ \A a \in ActionIds : \A t \in DOMAIN Goals[a] : Goals[a][t] # "text1"
  /\ \A key \in DOMAIN Inside : Inside[key] = {}

\* Every value was read, is one that a snapshot can hold, and has its key.
AllRead ==
  /\ unnoticed = {} /\ buried = {}
  /\ \A t \in Targets : machine[t] # "text1" /\ before[t] # "text1"
  /\ \A i \in DOMAIN snapshots, t \in Targets : Lists(i, t) =>
       \E v \in Reachable(Kind[t], origin[t]) : snapshots[i][t] = Captured(Kind[t], v, TRUE)

\* The action that is under way took the last snapshot, and once it is rolled
\* back nothing is left of it.
ActionUndone ==
  ActionUnderWay =>
    /\ req.snap = Len(snapshots) /\ req.phase # "record_rollback_failed"
    /\ \A t \in Snapshotted(req.action) :
         req.failed /\ ~AwaitsRestore(t) => machine[t] = before[t]

\* A rollback.restore has put back the targets it is done with.
RequestUndoes ==
  ~Idle /\ req.action = RestoreRequest => \A t \in Targets :
    machine[t] = IF t \in req.todo \/ UndoRecord(req.snap)[t] = Unlisted THEN before[t]
                 ELSE UndoRecord(req.snap)[t]

AtomicInv == AllRead /\ ActionUndone /\ RequestUndoes

-----------------------------------------------------------------------------
(* One change at a time.                                                   *)

LEMMA KindNames ==
  Kinds = {"registry", "service", "task", "appx", "bcd", "power", "file_rename", "powershell"}
BY DEF Kinds, ValuesOf

\* Capturing, applying and restoring stay within the kind's values.
LEMMA CapturedType ==
  ASSUME NEW kind \in Kinds, kind # "powershell", NEW v \in ValuesOf[kind], NEW read \in BOOLEAN
  PROVE  Captured(kind, v, read) \in ValuesOf[kind] \cup {None}
BY KindNames DEF Captured, Probed, ValuesOf

LEMMA AppliedType ==
  ASSUME NEW kind \in Kinds, NEW v \in ValuesOf[kind], NEW goal \in GoalsOf[kind]
  PROVE  Applied(kind, v, goal) \in ValuesOf[kind]
BY KindNames DEF Applied, GoalsOf, ValuesOf

LEMMA RestoredType ==
  ASSUME NEW kind \in Kinds, kind # "powershell",
         NEW c \in ValuesOf[kind] \cup {None}, NEW v \in ValuesOf[kind]
  PROVE  Restored(kind, c, v) \in ValuesOf[kind]
BY KindNames DEF Restored, ValuesOf, None

\* A target stays within what it can come to.
LEMMA OriginReachable ==
  ASSUME NEW kind \in Kinds, NEW o \in ValuesOf[kind]
  PROVE  o \in Reachable(kind, o)
BY KindNames DEF Reachable, ValuesOf

LEMMA AppliedReachable ==
  ASSUME NEW kind \in Kinds, NEW o \in ValuesOf[kind], NEW v \in Reachable(kind, o),
         NEW goal \in GoalsOf[kind], ~Skips(kind, v, goal, FALSE)
  PROVE  Applied(kind, v, goal) \in Reachable(kind, o)
BY KindNames DEF Applied, Reachable, Skips, GoalsOf, ValuesOf

LEMMA RestoredReachable ==
  ASSUME NEW kind \in Kinds, kind # "powershell", NEW o \in ValuesOf[kind],
         NEW u \in Reachable(kind, o), NEW read \in BOOLEAN, NEW v \in Reachable(kind, o),
         ~RestoreRefused(kind, Captured(kind, u, read), v)
  PROVE  Restored(kind, Captured(kind, u, read), v) \in Reachable(kind, o)
BY KindNames DEF Restored, RestoreRefused, Captured, Probed, Reachable, ValuesOf, None

\* What a snapshot can bring back, it brings back.
LEMMA FaithfulUndoes ==
  ASSUME NEW kind \in Kinds, NEW o \in ValuesOf[kind], Faithful(kind, o),
         NEW v \in Reachable(kind, o)
  PROVE  AfterRestore(kind, Captured(kind, o, TRUE), v) = o
BY KindNames DEF AfterRestore, RestoreRefused, Restored, Captured, Probed, Faithful,
                 Reachable, ValuesOf, None

-----------------------------------------------------------------------------
(* Type correctness.                                                       *)

LEMMA MachineUpdate ==
  ASSUME NEW m \in Machines, NEW t \in Targets, NEW v \in ValuesOf[Kind[t]]
  PROVE  [m EXCEPT ![t] = v] \in Machines
<1>1. v \in Values
  BY KindAssumption DEF Values
<1> QED BY <1>1, KindAssumption DEF Machines

\* What a write erases are other registry values, and what those would erase, too.
LEMMA SweptFacts ==
  ASSUME NEW t \in Targets
  PROVE  /\ Swept(t) \subseteq Registry \ {t} /\ Swept(t) \subseteq Targets
         /\ Beside(t) \subseteq Registry /\ Below(t) \subseteq Registry
         /\ t \notin Registry => Swept(t) = {} /\ Below(t) = {}
         /\ \A u \in Swept(t) : \A v \in Swept(u) : v = t \/ v \in Swept(t)
<1>1. /\ Swept(t) \subseteq Registry \ {t} /\ Swept(t) \subseteq Targets
      /\ Beside(t) \subseteq Registry /\ Below(t) \subseteq Registry
      /\ t \notin Registry => Swept(t) = {} /\ Below(t) = {}
  BY DEF Swept, Beside, Below, Registry
<1>2. ASSUME NEW u \in Swept(t), NEW v \in Swept(u) PROVE v = t \/ v \in Swept(t)
  <2>1. /\ t \in Registry /\ u \in Registry /\ v \in Registry
        /\ Key[u] = Key[t] \/ Key[u] \in Inside[Key[t]]
        /\ Key[v] = Key[u] \/ Key[v] \in Inside[Key[u]]
    BY <1>2 DEF Swept, Beside, Below
  <2>2. Key[t] \in DOMAIN Inside
    BY <2>1, KeyAssumption
  <2>3. Key[v] = Key[t] \/ Key[v] \in Inside[Key[t]]
    BY <2>1, <2>2, KeyAssumption
  <2> QED BY <2>1, <2>3 DEF Swept, Beside, Below
<1> QED BY <1>1, <1>2

\* A write gives its target the new value and erases others.
LEMMA WriteEffect ==
  ASSUME TypeOK, NEW t \in Targets, NEW v \in ValuesOf[Kind[t]], Write(t, v)
  PROVE  /\ machine' \in Machines /\ machine'[t] = v
         /\ \A u \in Targets \ {t} :
              machine'[u] = IF u \in Swept(t) THEN "missing" ELSE machine[u]
         /\ buried' \subseteq Registry /\ lost' \subseteq Registry /\ lost \subseteq lost'
<1>1. \A u \in Targets : machine'[u] = IF u = t THEN v
                                       ELSE IF u \in Swept(t) THEN "missing" ELSE machine[u]
  BY DEF Write
<1>2. \A u \in Targets : machine'[u] \in ValuesOf[Kind[u]]
  <2> SUFFICES ASSUME NEW u \in Targets PROVE machine'[u] \in ValuesOf[Kind[u]]
    OBVIOUS
  <2>1. CASE u = t
    BY <1>1, <2>1
  <2>2. CASE u # t /\ u \in Swept(t)
    BY <1>1, <2>2, SweptFacts DEF Registry, ValuesOf
  <2>3. CASE u # t /\ u \notin Swept(t)
    BY <1>1, <2>3 DEF TypeOK, Machines
  <2> QED BY <2>1, <2>2, <2>3
<1>3. \A u \in Targets : machine'[u] \in Values
  BY <1>2, KindAssumption DEF Values
<1>4. machine' \in Machines
  BY <1>2, <1>3 DEF Machines, Write
<1>5. buried' \subseteq Registry /\ lost' \subseteq Registry /\ lost \subseteq lost'
  BY SweptFacts DEF Write, TypeOK
<1> QED BY <1>1, <1>4, <1>5

LEMMA GoalTypes ==
  ASSUME NEW a \in ActionIds
  PROVE  /\ DOMAIN Goals[a] \subseteq Targets
         /\ Snapshotted(a) \subseteq DOMAIN Goals[a]
         /\ \A t \in DOMAIN Goals[a] : Goals[a][t] \in GoalsOf[Kind[t]]
BY GoalsAssumption DEF Snapshotted

\* The next snapshot.
Capture(a, unread) ==
  [t \in Targets |-> IF t \in Snapshotted(a)
                     THEN Captured(Kind[t], machine[t], t \notin unread) ELSE Unlisted]

LEMMA CaptureType ==
  ASSUME TypeOK, NEW a \in ActionIds, NEW unread
  PROVE  \A t \in Targets :
           /\ Capture(a, unread)[t] \in ValuesOf[Kind[t]] \cup {None, Unlisted}
           /\ Capture(a, unread)[t] # Unlisted => t \in Snapshotted(a) /\ Kind[t] # "powershell"
           /\ t \in Snapshotted(a) => Capture(a, unread)[t] # Unlisted
<1> SUFFICES ASSUME NEW t \in Targets
             PROVE  /\ Capture(a, unread)[t] \in ValuesOf[Kind[t]] \cup {None, Unlisted}
                    /\ Capture(a, unread)[t] # Unlisted
                         => t \in Snapshotted(a) /\ Kind[t] # "powershell"
                    /\ t \in Snapshotted(a) => Capture(a, unread)[t] # Unlisted
  OBVIOUS
<1>1. CASE t \notin Snapshotted(a)
  BY <1>1 DEF Capture
<1>2. CASE t \in Snapshotted(a)
  <2>1. Kind[t] \in Kinds /\ Kind[t] # "powershell" /\ machine[t] \in ValuesOf[Kind[t]]
    BY <1>2, KindAssumption DEF Snapshotted, TypeOK, Machines
  <2>2. Captured(Kind[t], machine[t], t \notin unread) \in ValuesOf[Kind[t]] \cup {None}
    BY <2>1, CapturedType
  <2>3. Unlisted \notin ValuesOf[Kind[t]] \cup {None}
    BY <2>1, KindNames DEF ValuesOf, Unlisted, None
  <2> QED BY <1>2, <2>1, <2>2, <2>3 DEF Capture
<1> QED BY <1>1, <1>2

LEMMA NoRequestType == NoRequest \in Requests
BY DEF NoRequest, Requests, Phases

LEMMA InitType == Init => TypeOK
<1> SUFFICES ASSUME Init PROVE TypeOK
  OBVIOUS
<1>1. machine \in Machines
  BY OriginsAssumption DEF Init
<1>2. req \in Requests /\ reply \in Replies
  BY DEF Init, NoRequest, NoReply, Reply, Requests, Replies, Phases, Statuses
<1> QED BY <1>1, <1>2, BoundsAssumption DEF Init, TypeOK, Idle, NoRequest

LEMMA NextType == TypeOK /\ [Next]_vars => TypeOK'
<1> SUFFICES ASSUME TypeOK, [Next]_vars PROVE TypeOK'
  OBVIOUS
<1> USE DEF history, world
<1>1. ASSUME NEW a \in ActionIds, RecordManualOnly(a) \/ EndsUnchanged(a) PROVE TypeOK'
  <2>1. reply' \in Replies
    BY <1>1 DEF RecordManualOnly, EndsUnchanged, OrError, Reply, Replies, Statuses
  <2> QED BY <1>1, <2>1 DEF RecordManualOnly, EndsUnchanged, TypeOK, Idle, Lists, Listed
<1>2. ASSUME NEW a \in ActionIds,
             NEW unread \in SUBSET {t \in DOMAIN Goals[a] : Kind[t] \in Probed},
             TakeSnapshot(a, unread)
      PROVE  TypeOK'
  <2>1. snapshots' = Append(snapshots, Capture(a, unread))
    BY <1>2 DEF TakeSnapshot, Capture
  <2>2. Capture(a, unread) \in [Targets -> Values \cup {None, Unlisted}]
    BY CaptureType, KindAssumption DEF Capture, Values
  <2>3. snapshots' \in Seq([Targets -> Values \cup {None, Unlisted}])
    BY <2>1, <2>2 DEF TypeOK
  <2>4. /\ Len(snapshots') = Len(snapshots) + 1
        /\ \A i \in DOMAIN snapshots' :
             snapshots'[i] = IF i \in DOMAIN snapshots THEN snapshots[i] ELSE Capture(a, unread)
    BY <2>1, <2>2 DEF TypeOK
  <2>5. \A i \in DOMAIN snapshots', t \in Targets :
          /\ snapshots'[i][t] \in ValuesOf[Kind[t]] \cup {None, Unlisted}
          /\ snapshots'[i][t] # Unlisted => Kind[t] # "powershell"
    BY <2>4, CaptureType DEF TypeOK, Lists
  <2>6. reply' \in Replies
    BY <1>2 DEF TakeSnapshot, Reply, NoReply, Replies, Statuses
  <2>7. Len(snapshots') <= MaxSnapshots /\ unnoticed' \subseteq Targets
    BY <1>2, <2>4, GoalTypes, BoundsAssumption DEF TakeSnapshot, TypeOK
  <2>8. \/ req' = NoRequest
        \/ /\ req' \in Requests /\ req'.phase = "apply" /\ req'.action = a
           /\ req'.snap = Len(snapshots) + 1 /\ req'.todo = DOMAIN Goals[a]
    <3>1. CASE UNCHANGED req
      BY <1>2, <3>1 DEF TakeSnapshot, Idle
    <3>2. CASE req' = [NoRequest EXCEPT !.phase = "apply", !.action = a,
                                        !.snap = Len(snapshots) + 1, !.todo = DOMAIN Goals[a]]
      <4>1. Len(snapshots) + 1 \in Nat /\ DOMAIN Goals[a] \in SUBSET Targets
        BY GoalTypes DEF TypeOK
      <4>2. req' = [phase |-> "apply", action |-> a, snap |-> Len(snapshots) + 1,
                    todo |-> DOMAIN Goals[a], succeeded |-> {}, skipped |-> {},
                    failed |-> FALSE, restored |-> {}, bad |-> {}]
        BY <3>2 DEF NoRequest
      <4> QED BY <4>1, <4>2 DEF Requests, Phases
    <3> QED BY <1>2, <3>1, <3>2 DEF TakeSnapshot
  <2>9. req' \in Requests
    BY <2>8, NoRequestType
  <2>10. Len(snapshots) + 1 \in DOMAIN snapshots'
    BY <2>3, <2>4
  <2> QED
    BY <1>2, <2>3, <2>5, <2>6, <2>7, <2>8, <2>9, <2>10
       DEF TakeSnapshot, TypeOK, Idle, NoRequest, Lists, Listed
<1>3. ASSUME NEW i \in DOMAIN snapshots, RequestRestore(i) PROVE TypeOK'
  <2>1. /\ req' \in Requests /\ req'.phase = "restore"
        /\ req'.snap = i /\ req'.todo = Listed(i)
    <3>1. req' = [phase |-> "restore", action |-> RestoreRequest, snap |-> i,
                  todo |-> Listed(i), succeeded |-> {}, skipped |-> {},
                  failed |-> FALSE, restored |-> {}, bad |-> {}]
      BY <1>3 DEF RequestRestore, NoRequest
    <3>2. i \in Nat /\ Listed(i) \in SUBSET Targets
      BY DEF TypeOK, Listed
    <3> QED BY <3>1, <3>2 DEF Requests, Phases
  <2>2. reply' \in Replies
    BY <1>3 DEF RequestRestore, Reply, NoReply, Replies, Statuses
  <2> QED BY <1>3, <2>1, <2>2, BoundsAssumption DEF RequestRestore, TypeOK, Idle, NoRequest, Lists, Listed
<1>4. ASSUME NEW t \in Targets, Change(t) PROVE TypeOK'
  <2>1. /\ req.phase = "apply" /\ req.action \in ActionIds
        /\ t \in DOMAIN Goals[req.action] /\ Kind[t] \in Kinds
        /\ Goals[req.action][t] \in GoalsOf[Kind[t]] /\ machine[t] \in ValuesOf[Kind[t]]
    BY <1>4, GoalTypes, KindAssumption
       DEF Change, SkipChange, ApplyChange, FailChange, IsNext, Applying, IsFirst, TypeOK, Machines
  <2>2. machine' \in Machines /\ buried' \subseteq Registry /\ lost' \subseteq Registry
    <3>1. CASE UNCHANGED world
      BY <3>1 DEF TypeOK
    <3>2. CASE ApplyChange(t)
      <4>1. Applied(Kind[t], machine[t], Goals[req.action][t]) \in ValuesOf[Kind[t]]
        BY <2>1, AppliedType
      <4> HIDE DEF Applied, Write
      <4> QED BY <3>2, <4>1, WriteEffect DEF ApplyChange
    <3>3. CASE Kind[t] = "powershell" /\ Write(t, "on")
      <4>1. "on" \in ValuesOf[Kind[t]]
        BY <3>3 DEF ValuesOf
      <4> QED BY <3>3, <4>1, WriteEffect
    <3>4. CASE Kind[t] = "registry" /\ Write(t, "missing")
      <4>1. "missing" \in ValuesOf[Kind[t]]
        BY <3>4 DEF ValuesOf
      <4> QED BY <3>4, <4>1, WriteEffect
    <3> QED BY <1>4, <3>1, <3>2, <3>3, <3>4 DEF Change, SkipChange, FailChange
  <2>3. /\ req' \in Requests
        /\ req'.phase = req.phase /\ req'.action = req.action /\ req'.snap = req.snap
        /\ req'.todo \subseteq req.todo
    <3>1. req \in Requests
      BY DEF TypeOK
    <3>2. CASE SkipChange(t)
      BY <3>1, <3>2 DEF SkipChange, Requests
    <3>3. CASE ApplyChange(t)
      BY <3>1, <3>3 DEF ApplyChange, Requests
    <3>4. CASE FailChange(t)
      BY <3>1, <3>4 DEF FailChange, Requests
    <3> QED BY <1>4, <3>2, <3>3, <3>4 DEF Change
  <2> QED
    BY <1>4, <2>1, <2>2, <2>3
       DEF Change, SkipChange, ApplyChange, FailChange, TypeOK, Idle, NoRequest, Lists, Listed
<1>5. ASSUME NEW t \in Targets, Restore(t) PROVE TypeOK'
  <2>1. /\ req.phase = "restore" /\ t \in Listed(req.snap) /\ req.snap \in DOMAIN snapshots
    BY <1>5
       DEF Restore, RestoreValue, RestoreFails, RemovalIgnored, IsNextRestore, IsFirst, TypeOK,
           Idle, NoRequest
  <2>2. machine' \in Machines /\ buried' = buried /\ lost' = lost
    <3>1. CASE RestoreValue(t)
      <4>1. /\ Kind[t] \in Kinds /\ Kind[t] # "powershell" /\ machine[t] \in ValuesOf[Kind[t]]
            /\ Captive(t) \in ValuesOf[Kind[t]] \cup {None}
        BY <2>1, KindAssumption DEF Captive, Lists, Listed, TypeOK, Machines
      <4>2. Restored(Kind[t], Captive(t), machine[t]) \in ValuesOf[Kind[t]]
        BY <4>1, RestoredType
      <4> QED BY <3>1, <4>2, MachineUpdate DEF RestoreValue, TypeOK
    <3> QED BY <1>5, <3>1 DEF Restore, RestoreFails, RemovalIgnored, TypeOK
  <2>3. /\ req' \in Requests
        /\ req'.phase = req.phase /\ req'.action = req.action /\ req'.snap = req.snap
        /\ req'.todo \subseteq req.todo
    <3>1. req \in Requests
      BY DEF TypeOK
    <3>2. CASE RestoreValue(t)
      BY <3>1, <3>2 DEF RestoreValue, Requests
    <3>3. CASE RestoreFails(t)
      BY <3>1, <3>3 DEF RestoreFails, Requests
    <3>4. CASE RemovalIgnored(t)
      BY <3>1, <3>4 DEF RemovalIgnored, Requests
    <3> QED BY <1>5, <3>2, <3>3, <3>4 DEF Restore
  <2> QED
    BY <1>5, <2>1, <2>2, <2>3
       DEF Restore, RestoreValue, RestoreFails, RemovalIgnored, TypeOK, Idle, NoRequest, Lists, Listed
<1>6. CASE ShellHealth
  <2>1. /\ req' \in Requests
        /\ req'.phase \in {req.phase, "record"} /\ req'.action = req.action
        /\ req'.snap = req.snap /\ req'.todo = req.todo
    BY <1>6 DEF ShellHealth, Requests, Phases, TypeOK
  <2> QED BY <1>6, <2>1 DEF ShellHealth, Applying, TypeOK, Idle, NoRequest, Lists, Listed
<1>7. CASE StartRollback
  <2>1. /\ req' \in Requests
        /\ req'.phase = "restore" /\ req'.snap = req.snap /\ req'.todo = Listed(req.snap)
    <3>1. Listed(req.snap) \in SUBSET Targets /\ req \in Requests
      BY DEF Listed, TypeOK
    <3>2. req.phase = "apply" /\ req' = [req EXCEPT !.phase = "restore", !.todo = Listed(req.snap)]
      BY <1>7 DEF StartRollback
    <3> HIDE DEF Listed
    <3> QED BY <3>1, <3>2 DEF Requests, Phases
  <2> QED BY <1>7, <2>1 DEF StartRollback, TypeOK, Idle, NoRequest, Lists, Listed
<1>8. CASE FinishRestore \/ RestoreErrs \/ RecordOutcome
  <2>1. \/ req' = NoRequest
        \/ /\ req' \in Requests /\ ~Idle /\ req'.snap = req.snap
           /\ req'.phase \in {"record", "record_rollback_failed"}
    <3>1. CASE req' = NoRequest
      BY <3>1
    <3>2. ASSUME NEW phase \in {"record", "record_rollback_failed"}, ~Idle,
                 req' = [req EXCEPT !.phase = phase]
          PROVE  /\ req' \in Requests /\ ~Idle /\ req'.snap = req.snap
                 /\ req'.phase \in {"record", "record_rollback_failed"}
      BY <3>2 DEF Requests, Phases, TypeOK
    <3>3. ~Idle
      BY <1>8 DEF FinishRestore, RestoreErrs, RecordOutcome, Idle, NoRequest
    <3>4. \/ req' = NoRequest \/ req' = [req EXCEPT !.phase = "record"]
          \/ req' = [req EXCEPT !.phase = "record_rollback_failed"]
      BY <1>8 DEF FinishRestore, RestoreErrs, RecordOutcome, Answer
    <3> QED BY <3>1, <3>2, <3>3, <3>4
  <2>2. req' \in Requests
    BY <2>1, NoRequestType
  <2>3. reply' \in Replies
    BY <1>8
       DEF FinishRestore, RestoreErrs, RecordOutcome, Answer, Reply, Replies, Requests, Statuses,
           RestoreStatus, Status, OrError, TypeOK
  <2> QED
    BY <1>8, <2>1, <2>2, <2>3
       DEF FinishRestore, RestoreErrs, RecordOutcome, TypeOK, Idle, NoRequest, Lists, Listed
<1>9. CASE Crash
  <2>1. req' \in Requests /\ reply' \in Replies
    BY <1>9 DEF Crash, NoRequest, NoReply, Reply, Requests, Replies, Phases, Statuses
  <2> QED BY <1>9, <2>1, BoundsAssumption DEF Crash, TypeOK, Idle, NoRequest, Lists, Listed
<1>10. CASE UNCHANGED vars
  BY <1>10 DEF vars, TypeOK, Idle, NoRequest, Lists, Listed
<1> QED BY <1>1, <1>2, <1>3, <1>4, <1>5, <1>6, <1>7, <1>8, <1>9, <1>10 DEF Next, Request

\* The values, the snapshots and the request being served are well formed in
\* every state of the executor, for every set of targets and actions.
THEOREM TypeCorrect == Spec => []TypeOK
BY InitType, NextType, PTL DEF Spec

-----------------------------------------------------------------------------
(* The inductive invariant.                                                *)

LEMMA InitInv == Init => IInv
<1> SUFFICES ASSUME Init PROVE IInv
  OBVIOUS
<1>1. \A t \in Targets : origin[t] \in ValuesOf[Kind[t]] /\ Kind[t] \in Kinds
  BY OriginsAssumption, KindAssumption DEF Init, Machines
<1>2. ReachableMachine
  BY <1>1, OriginReachable DEF Init, ReachableMachine
<1>3. OldestIsOrigin /\ CapturedEntries /\ GuardedEntries
  BY DEF Init, OldestIsOrigin, CapturedEntries, GuardedEntries
<1>4. SnapshotFirst /\ ProtectedStaysPut
  BY DEF Init, SnapshotFirst, NoRequest, ProtectedStaysPut
<1> QED BY <1>2, <1>3, <1>4 DEF IInv

\* Steps that leave the machine and the snapshots alone.
LEMMA QuietStep ==
  ASSUME IInv, UNCHANGED <<machine, snapshots, origin, lost>>, unnoticed \subseteq unnoticed',
         SnapshotFirst'
  PROVE  IInv'
<1>1. ReachableMachine' /\ CapturedEntries'
  BY DEF IInv, ReachableMachine, CapturedEntries, Lists
<1>2. OldestIsOrigin'
  BY DEF IInv, OldestIsOrigin, Oldest, Lists
<1>3. GuardedEntries' /\ ProtectedStaysPut'
  BY DEF IInv, GuardedEntries, ProtectedStaysPut, Lists, IsGuarded
<1> QED BY <1>1, <1>2, <1>3 DEF IInv

\* A script gave targets new values: listed ones, or erased ones; a guarded one
\* its origin, if it did not erase it.
LEMMA MachineStep ==
  ASSUME TypeOK, IInv, UNCHANGED <<snapshots, origin, unnoticed>>, lost \subseteq lost',
         \A t \in Targets : machine'[t] # machine[t] =>
           /\ machine'[t] \in Reachable(Kind[t], origin[t])
           /\ \/ Kind[t] = "powershell" \/ t \in lost'
              \/ \E i \in DOMAIN snapshots : Lists(i, t)
           /\ IsGuarded(t) /\ Faithful(Kind[t], origin[t]) /\ t \notin unnoticed =>
                machine'[t] = origin[t] \/ (machine'[t] = "missing" /\ Exposed(t)),
         SnapshotFirst'
  PROVE  IInv'
<1>1. ReachableMachine'
  BY DEF IInv, ReachableMachine
<1>2. CapturedEntries' /\ GuardedEntries'
  BY DEF IInv, CapturedEntries, GuardedEntries, Lists, IsGuarded
<1>3. OldestIsOrigin'
  BY DEF IInv, OldestIsOrigin, Oldest, Lists
<1>4. ProtectedStaysPut'
  BY DEF IInv, ProtectedStaysPut, IsGuarded, Exposed
<1> QED BY <1>1, <1>2, <1>3, <1>4 DEF IInv

\* A change that the guards let through wrote the value v.
LEMMA WriteStep ==
  ASSUME TypeOK, IInv, NEW t \in Targets, ~IsGuarded(t), NEW v \in ValuesOf[Kind[t]],
         Write(t, v), UNCHANGED <<snapshots, origin, unnoticed>>,
         v \in Reachable(Kind[t], origin[t]),
         Kind[t] = "powershell" \/ \E i \in DOMAIN snapshots : Lists(i, t),
         SnapshotFirst'
  PROVE  IInv'
<1>1. /\ machine'[t] = v /\ lost \subseteq lost'
      /\ \A u \in Targets \ {t} : machine'[u] = IF u \in Swept(t) THEN "missing" ELSE machine[u]
  BY WriteEffect
<1>2. ASSUME NEW u \in Targets, machine'[u] # machine[u], u # t
      PROVE  /\ machine'[u] \in Reachable(Kind[u], origin[u])
             /\ u \in lost' \/ \E i \in DOMAIN snapshots : Lists(i, u)
             /\ machine'[u] = "missing" /\ (IsGuarded(u) => Exposed(u))
  <2>1. u \in Swept(t) /\ machine'[u] = "missing" /\ machine[u] # "missing"
    BY <1>1, <1>2
  <2>2. u \in Registry /\ t \in Registry
    BY <2>1, SweptFacts
  <2>3. "missing" \in Reachable(Kind[u], origin[u])
    BY <2>2 DEF Registry, Reachable, ValuesOf
  <2>4. u \in lost' \/ \E i \in DOMAIN snapshots : Lists(i, u)
    BY <2>1 DEF Write
  <2>5. t \notin Protected
    BY <2>2 DEF IsGuarded, Guarded, Registry
  <2> QED BY <2>1, <2>2, <2>3, <2>4, <2>5 DEF Exposed
<1>3. \A u \in Targets : machine'[u] # machine[u] =>
           /\ machine'[u] \in Reachable(Kind[u], origin[u])
           /\ \/ Kind[u] = "powershell" \/ u \in lost'
              \/ \E i \in DOMAIN snapshots : Lists(i, u)
           /\ IsGuarded(u) /\ Faithful(Kind[u], origin[u]) /\ u \notin unnoticed =>
                machine'[u] = origin[u] \/ (machine'[u] = "missing" /\ Exposed(u))
  BY <1>1, <1>2
<1> HIDE DEF Write
<1> QED BY <1>1, <1>3, MachineStep

\* What restoring an entry of a snapshot does to its target.
LEMMA RestoreEntry ==
  ASSUME TypeOK, IInv, NEW t \in Targets, req.snap \in DOMAIN snapshots, Lists(req.snap, t),
         ~Refused(t)
  PROVE  /\ Restored(Kind[t], Captive(t), machine[t]) \in Reachable(Kind[t], origin[t])
         /\ IsGuarded(t) /\ Faithful(Kind[t], origin[t]) /\ t \notin unnoticed
              => \/ Restored(Kind[t], Captive(t), machine[t]) = origin[t]
                 \/ Restored(Kind[t], Captive(t), machine[t]) = "missing" /\ Exposed(t)
<1>1. /\ Kind[t] \in Kinds /\ Kind[t] # "powershell"
      /\ origin[t] \in ValuesOf[Kind[t]] /\ machine[t] \in Reachable(Kind[t], origin[t])
  BY KindAssumption DEF TypeOK, Machines, IInv, ReachableMachine
<1>2. PICK u \in Reachable(Kind[t], origin[t]), read \in BOOLEAN :
        Captive(t) = Captured(Kind[t], u, read)
  BY DEF IInv, CapturedEntries, Captive
<1>3. Restored(Kind[t], Captive(t), machine[t]) \in Reachable(Kind[t], origin[t])
  BY <1>1, <1>2, RestoredReachable DEF Refused
<1>4. ASSUME IsGuarded(t), Faithful(Kind[t], origin[t]), t \notin unnoticed
      PROVE  \/ Restored(Kind[t], Captive(t), machine[t]) = origin[t]
             \/ Restored(Kind[t], Captive(t), machine[t]) = "missing" /\ Exposed(t)
  <2>1. CASE Captive(t) = Captured(Kind[t], origin[t], TRUE)
    <3>1. AfterRestore(Kind[t], Captive(t), machine[t]) = origin[t]
      BY <1>1, <1>4, <2>1, FaithfulUndoes
    <3> QED BY <3>1 DEF AfterRestore, Refused
  <2>2. CASE Captive(t) = None /\ Exposed(t)
    <3>1. Kind[t] = "registry"
      BY <2>2, SweptFacts DEF Exposed, Registry
    <3> QED BY <2>2, <3>1 DEF Restored
  <2> QED BY <1>4, <2>1, <2>2 DEF IInv, GuardedEntries, Captive
<1> QED BY <1>3, <1>4

\* A new snapshot was inserted.
LEMMA SnapshotStep ==
  ASSUME TypeOK, IInv, NEW a \in ActionIds, NEW unread \in SUBSET Targets,
         snapshots' = Append(snapshots, Capture(a, unread)),
         unnoticed' = unnoticed \cup unread, UNCHANGED <<machine, origin, lost>>,
         SnapshotFirst'
  PROVE  IInv'
<1>0. PICK n \in Nat : n = Len(snapshots) + 1
  BY DEF TypeOK
<1> DEFINE new == Capture(a, unread)
<1>1. /\ DOMAIN snapshots = 1..(n - 1) /\ n \in Nat \ {0}
      /\ DOMAIN snapshots' = 1..n
      /\ snapshots'[n] = new
      /\ \A i \in 1..(n - 1) : snapshots'[i] = snapshots[i]
  BY <1>0 DEF TypeOK
<1>2. \A i \in 1..(n - 1), t \in Targets : Lists(i, t)' <=> Lists(i, t)
  BY <1>1 DEF Lists
<1>3. \A t \in Targets : Lists(n, t)' => /\ t \in Snapshotted(a)
                                         /\ new[t] = Captured(Kind[t], machine[t], t \notin unread)
  BY <1>1, CaptureType DEF Lists, Capture
<1>4. \A t \in Targets : machine[t] \in Reachable(Kind[t], origin[t])
  BY DEF IInv, ReachableMachine
<1>5. ReachableMachine' /\ ProtectedStaysPut'
  BY <1>4 DEF IInv, ReachableMachine, ProtectedStaysPut, IsGuarded
<1>6. CapturedEntries'
  <2> SUFFICES ASSUME NEW i \in 1..n, NEW t \in Targets, Lists(i, t)'
               PROVE  \E v \in Reachable(Kind[t], origin[t]), read \in BOOLEAN :
                        snapshots'[i][t] = Captured(Kind[t], v, read)
    BY <1>1 DEF CapturedEntries
  <2>1. CASE i = n
    BY <1>1, <1>3, <1>4, <2>1
  <2>2. CASE i \in 1..(n - 1)
    BY <1>1, <1>2, <2>2 DEF IInv, CapturedEntries
  <2> QED BY <1>1, <2>1, <2>2
<1>7. GuardedEntries'
  <2> SUFFICES ASSUME NEW i \in 1..n, NEW t \in Targets, Lists(i, t)', IsGuarded(t),
                      Faithful(Kind[t], origin[t]), t \notin unnoticed'
               PROVE  \/ snapshots'[i][t] = Captured(Kind[t], origin[t], TRUE)
                      \/ snapshots'[i][t] = None /\ Exposed(t)
    BY <1>1 DEF GuardedEntries, IsGuarded
  <2>1. t \notin unnoticed /\ t \notin unread
    OBVIOUS
  <2>2. CASE i = n
    <3>1. snapshots'[n][t] = Captured(Kind[t], machine[t], TRUE)
      BY <1>1, <1>3, <2>1, <2>2
    <3>2. CASE machine[t] = origin[t]
      BY <2>2, <3>1, <3>2
    <3>3. CASE machine[t] = "missing" /\ Exposed(t)
      <4>1. Kind[t] = "registry"
        BY <3>3, SweptFacts DEF Exposed, Registry
      <4> QED BY <2>2, <3>1, <3>3, <4>1 DEF Captured, Probed
    <3> QED BY <2>1, <3>2, <3>3 DEF IInv, ProtectedStaysPut, Exposed
  <2>3. CASE i \in 1..(n - 1)
    BY <1>1, <1>2, <2>1, <2>3 DEF IInv, GuardedEntries
  <2>4. i = n \/ i \in 1..(n - 1)
    BY <1>1
  <2> QED BY <2>2, <2>3, <2>4
<1>8. OldestIsOrigin'
  <2> SUFFICES ASSUME NEW t \in Targets
               PROVE  /\ (\E i \in 1..n : Lists(i, t)') => \E i \in 1..n : Oldest(i, t)'
                      /\ Kind[t] # "powershell" /\ machine[t] # origin[t] /\ t \notin lost
                           => \E i \in 1..n : Lists(i, t)'
                      /\ t \notin unnoticed' \cup lost => \A i \in 1..n :
                           Oldest(i, t)' => snapshots'[i][t] = Captured(Kind[t], origin[t], TRUE)
    BY <1>1 DEF OldestIsOrigin
  <2>1. \A i \in 1..(n - 1) : Oldest(i, t)' <=> Oldest(i, t)
    BY <1>1, <1>2 DEF Oldest
  <2>2. Oldest(n, t)' <=> Lists(n, t)' /\ \A i \in 1..(n - 1) : ~Lists(i, t)
    BY <1>1, <1>2 DEF Oldest
  <2>3. /\ (\E i \in 1..(n - 1) : Lists(i, t)) => \E i \in 1..(n - 1) : Oldest(i, t)
        /\ Kind[t] # "powershell" /\ machine[t] # origin[t] /\ t \notin lost
             => \E i \in 1..(n - 1) : Lists(i, t)
        /\ t \notin unnoticed \cup lost => \A i \in 1..(n - 1) :
             Oldest(i, t) => snapshots[i][t] = Captured(Kind[t], origin[t], TRUE)
    BY <1>1 DEF IInv, OldestIsOrigin
  <2>4. \A i \in 1..n : i = n \/ i \in 1..(n - 1)
    BY <1>1
  <2>5. n \in 1..n /\ 1..(n - 1) \subseteq 1..n
    BY <1>1
  <2>6. (\E i \in 1..n : Lists(i, t)') => \E i \in 1..n : Oldest(i, t)'
    <3>1. CASE \E i \in 1..(n - 1) : Lists(i, t)
      BY <2>1, <2>3, <2>5, <3>1
    <3>2. CASE \A i \in 1..(n - 1) : ~Lists(i, t)
      BY <1>2, <2>2, <2>4, <2>5, <3>2
    <3> QED BY <3>1, <3>2
  <2>7. Kind[t] # "powershell" /\ machine[t] # origin[t] /\ t \notin lost
          => \E i \in 1..n : Lists(i, t)'
    BY <1>2, <2>3, <2>5
  <2>8. ASSUME t \notin unnoticed' \cup lost, NEW i \in 1..n, Oldest(i, t)'
        PROVE  snapshots'[i][t] = Captured(Kind[t], origin[t], TRUE)
    <3>1. CASE i \in 1..(n - 1)
      BY <1>1, <2>1, <2>3, <2>8, <3>1
    <3>2. CASE i = n
      <4>1. Lists(n, t)' /\ \A j \in 1..(n - 1) : ~Lists(j, t)
        BY <2>2, <2>8, <3>2
      <4>2. Kind[t] # "powershell"
        BY <1>3, <4>1 DEF Snapshotted
      <4>3. machine[t] = origin[t]
        BY <2>3, <2>8, <4>1, <4>2
      <4> QED BY <1>1, <1>3, <2>8, <3>2, <4>1, <4>3
    <3> QED BY <2>4, <3>1, <3>2
  <2> QED BY <2>6, <2>7, <2>8
<1> QED BY <1>5, <1>6, <1>7, <1>8 DEF IInv

LEMMA NextInv == TypeOK /\ IInv /\ [Next]_vars => IInv'
<1> SUFFICES ASSUME TypeOK, IInv, [Next]_vars PROVE IInv'
  OBVIOUS
<1> USE DEF history, world
<1>1. ASSUME NEW a \in ActionIds, RecordManualOnly(a) \/ EndsUnchanged(a) PROVE IInv'
  <2>1. SnapshotFirst'
    BY <1>1 DEF RecordManualOnly, EndsUnchanged, IInv, SnapshotFirst, Lists
  <2> QED BY <1>1, <2>1, QuietStep DEF RecordManualOnly, EndsUnchanged
<1>2. ASSUME NEW a \in ActionIds,
             NEW unread \in SUBSET {t \in DOMAIN Goals[a] : Kind[t] \in Probed},
             TakeSnapshot(a, unread)
      PROVE  IInv'
  <2>1. snapshots' = Append(snapshots, Capture(a, unread))
    BY <1>2 DEF TakeSnapshot, Capture
  <2>2. snapshots'[Len(snapshots) + 1] = Capture(a, unread)
    BY <2>1 DEF TypeOK
  <2>3. \/ req'.phase = "idle"
        \/ req'.action = a /\ req'.snap = Len(snapshots) + 1
    <3>1. CASE UNCHANGED req
      BY <1>2, <3>1 DEF TakeSnapshot, Idle, NoRequest
    <3>2. CASE req' = [NoRequest EXCEPT !.phase = "apply", !.action = a,
                                        !.snap = Len(snapshots) + 1, !.todo = DOMAIN Goals[a]]
      BY <3>2 DEF NoRequest
    <3> QED BY <1>2, <3>1, <3>2 DEF TakeSnapshot
  <2>4. SnapshotFirst'
    BY <2>2, <2>3, CaptureType, GoalTypes DEF SnapshotFirst, Lists
  <2>5. unread \in SUBSET Targets
    BY GoalTypes
  <2> QED BY <1>2, <2>1, <2>4, <2>5, SnapshotStep DEF TakeSnapshot
<1>3. ASSUME NEW i \in DOMAIN snapshots, RequestRestore(i) PROVE IInv'
  <2>1. SnapshotFirst'
    BY <1>3 DEF RequestRestore, NoRequest, SnapshotFirst
  <2> QED BY <1>3, <2>1, QuietStep DEF RequestRestore
<1>4. ASSUME NEW t \in Targets, Change(t) PROVE IInv'
  <2>1. /\ req'.phase = req.phase /\ req'.action = req.action /\ req'.snap = req.snap
        /\ UNCHANGED <<snapshots, origin, unnoticed>>
    BY <1>4 DEF Change, SkipChange, ApplyChange, FailChange, TypeOK, Requests
  <2>2. SnapshotFirst'
    BY <2>1 DEF IInv, SnapshotFirst, Lists
  <2>3. /\ req.phase = "apply" /\ req.action \in ActionIds
        /\ t \in DOMAIN Goals[req.action] /\ req.snap \in DOMAIN snapshots
    BY <1>4
       DEF Change, SkipChange, ApplyChange, FailChange, IsNext, Applying, IsFirst, TypeOK,
           Idle, NoRequest
  <2>4. /\ Kind[t] \in Kinds /\ Goals[req.action][t] \in GoalsOf[Kind[t]]
        /\ origin[t] \in ValuesOf[Kind[t]] /\ machine[t] \in Reachable(Kind[t], origin[t])
    BY <2>3, GoalTypes, KindAssumption DEF TypeOK, Machines, IInv, ReachableMachine
  <2>5. Kind[t] = "powershell" \/ \E i \in DOMAIN snapshots : Lists(i, t)
    BY <2>3 DEF Snapshotted, IInv, SnapshotFirst
  <2>6. CASE UNCHANGED world
    BY <2>1, <2>2, <2>6, QuietStep
  <2>7. CASE ApplyChange(t)
    <3>1. ~IsGuarded(t) /\ ~Skips(Kind[t], machine[t], Goals[req.action][t], FALSE)
      BY <2>7 DEF ApplyChange, IsSkipped, IsGuarded, Skips
    <3>2. /\ Applied(Kind[t], machine[t], Goals[req.action][t]) \in Reachable(Kind[t], origin[t])
          /\ Applied(Kind[t], machine[t], Goals[req.action][t]) \in ValuesOf[Kind[t]]
      BY <2>4, <3>1, AppliedReachable, AppliedType DEF TypeOK, Machines
    <3>3. Write(t, Applied(Kind[t], machine[t], Goals[req.action][t]))
      BY <2>7 DEF ApplyChange
    <3> HIDE DEF Applied, Write
    <3> QED BY <2>1, <2>2, <2>5, <3>1, <3>2, <3>3, WriteStep
  <2>8. CASE FailChange(t) /\ ~UNCHANGED world
    <3>1. PICK v \in {"on", "missing"} :
            /\ ~IsGuarded(t) /\ Write(t, v)
            /\ v = "on" => Kind[t] = "powershell"
            /\ v = "missing" => Kind[t] = "registry"
      BY <2>8 DEF FailChange
    <3>2. v \in Reachable(Kind[t], origin[t]) /\ v \in ValuesOf[Kind[t]]
      BY <3>1 DEF Reachable, ValuesOf
    <3> HIDE DEF Write
    <3> QED BY <2>1, <2>2, <2>5, <3>1, <3>2, WriteStep
  <2> QED BY <1>4, <2>6, <2>7, <2>8 DEF Change, SkipChange
<1>5. ASSUME NEW t \in Targets, Restore(t) PROVE IInv'
  <2>1. /\ req.phase = "restore" /\ req.snap \in DOMAIN snapshots /\ Lists(req.snap, t)
    BY <1>5
       DEF Restore, RestoreValue, RestoreFails, RemovalIgnored, IsNextRestore, IsFirst, TypeOK,
           Idle, NoRequest, Listed
  <2>2. req'.phase = req.phase
    BY <1>5 DEF Restore, RestoreValue, RestoreFails, RemovalIgnored, TypeOK, Requests
  <2>3. SnapshotFirst'
    BY <2>1, <2>2 DEF SnapshotFirst
  <2>4. CASE RestoreValue(t)
    <3>1. ~Refused(t) /\ UNCHANGED <<snapshots, origin, unnoticed>>
          /\ machine' = [machine EXCEPT ![t] = Restored(Kind[t], Captive(t), machine[t])]
      BY <2>4 DEF RestoreValue
    <3>2. /\ Restored(Kind[t], Captive(t), machine[t]) \in Reachable(Kind[t], origin[t])
          /\ IsGuarded(t) /\ Faithful(Kind[t], origin[t]) /\ t \notin unnoticed
               => \/ Restored(Kind[t], Captive(t), machine[t]) = origin[t]
                  \/ Restored(Kind[t], Captive(t), machine[t]) = "missing" /\ Exposed(t)
      BY <2>1, <3>1, RestoreEntry
    <3>3. \A u \in Targets : machine'[u] # machine[u] => u = t
      BY <3>1 DEF TypeOK, Machines
    <3>4. machine'[t] = Restored(Kind[t], Captive(t), machine[t]) /\ lost' = lost
      BY <2>4 DEF RestoreValue, TypeOK, Machines
    <3> HIDE DEF Captive, Refused
    <3> QED BY <2>1, <2>3, <3>1, <3>2, <3>3, <3>4, MachineStep
  <2>5. CASE RestoreFails(t) \/ RemovalIgnored(t)
    BY <2>3, <2>5, QuietStep DEF RestoreFails, RemovalIgnored
  <2> QED BY <1>5, <2>4, <2>5 DEF Restore
<1>6. CASE ShellHealth \/ StartRollback
  <2>1. SnapshotFirst'
    BY <1>6 DEF ShellHealth, StartRollback, IInv, SnapshotFirst, Lists, TypeOK, Requests
  <2> QED BY <1>6, <2>1, QuietStep DEF ShellHealth, StartRollback
<1>7. CASE FinishRestore \/ RestoreErrs \/ RecordOutcome \/ Crash
  <2>1. req'.phase # "apply"
    BY <1>7
       DEF FinishRestore, RestoreErrs, RecordOutcome, Crash, Answer, NoRequest, TypeOK, Requests
  <2>2. SnapshotFirst'
    BY <2>1 DEF SnapshotFirst
  <2> QED BY <1>7, <2>2, QuietStep DEF FinishRestore, RestoreErrs, RecordOutcome, Crash
<1>8. CASE UNCHANGED vars
  <2>1. SnapshotFirst'
    BY <1>8 DEF vars, IInv, SnapshotFirst, Lists
  <2> QED BY <1>8, <2>1, QuietStep DEF vars
<1> QED BY <1>1, <1>2, <1>3, <1>4, <1>5, <1>6, <1>7, <1>8 DEF Next, Request

LEMMA InvUndoes == TypeOK /\ IInv => OldestSnapshotUndoes
<1> SUFFICES ASSUME TypeOK, IInv, NEW t \in Targets,
                    machine[t] # origin[t], Kind[t] # "powershell", t \notin lost
             PROVE  \E i \in DOMAIN snapshots :
                      /\ Oldest(i, t)
                      /\ Faithful(Kind[t], origin[t]) /\ t \notin unnoticed \cup buried =>
                           AfterRestore(Kind[t], snapshots[i][t], machine[t]) = origin[t]
  BY DEF OldestSnapshotUndoes
<1>1. /\ Kind[t] \in Kinds /\ origin[t] \in ValuesOf[Kind[t]]
      /\ machine[t] \in Reachable(Kind[t], origin[t])
  BY KindAssumption DEF TypeOK, Machines, IInv, ReachableMachine
<1>2. PICK i \in DOMAIN snapshots : Oldest(i, t)
  BY DEF IInv, OldestIsOrigin
<1>3. t \notin unnoticed => snapshots[i][t] = Captured(Kind[t], origin[t], TRUE)
  BY <1>2 DEF IInv, OldestIsOrigin
<1> QED BY <1>1, <1>2, <1>3, FaithfulUndoes

LEMMA Inductive == Spec => [](TypeOK /\ IInv)
<1>1. Init => TypeOK /\ IInv
  BY InitType, InitInv
<1>2. (TypeOK /\ IInv) /\ [Next]_vars => (TypeOK /\ IInv)'
  BY NextType, NextInv
<1> QED BY <1>1, <1>2, PTL DEF Spec

\* Whatever the actions, however many requests, failures and kills: a target
\* that has left its first value is in a snapshot, and the oldest snapshot
\* that lists it brings that value back, if a snapshot can and no script
\* failed on it without the code noticing.
THEOREM OldestSnapshotAlwaysUndoes == Spec => []OldestSnapshotUndoes
BY Inductive, InvUndoes, PTL

\* No request, and no rollback, changes what the guards protect, under the
\* same two conditions.
THEOREM ProtectedAlwaysStaysPut == Spec => []ProtectedStaysPut
<1>1. IInv => ProtectedStaysPut
  BY DEF IInv
<1> QED BY <1>1, Inductive, PTL

-----------------------------------------------------------------------------
(* What is answered is what happened.                                      *)

LEMMA EffectIs ==
  ASSUME NEW a \in ActionIds
  PROVE  /\ DOMAIN Effect[a] = {t \in DOMAIN Goals[a] : ~IsGuarded(t)}
         /\ \A t \in DOMAIN Effect[a] : \A v \in ValuesOf[Kind[t]] :
              Effect[a][t][v] = IF Skips(Kind[t], v, Goals[a][t], FALSE) THEN v
                                ELSE Applied(Kind[t], v, Goals[a][t])
BY DEF Effect

LEMMA TargetValues ==
  ASSUME TypeOK, NEW t \in Targets
  PROVE  /\ Kind[t] \in Kinds /\ machine[t] \in ValuesOf[Kind[t]] /\ before[t] \in ValuesOf[Kind[t]]
         /\ before[t] \in Reachable(Kind[t], before[t])
<1>1. Kind[t] \in Kinds /\ machine[t] \in ValuesOf[Kind[t]] /\ before[t] \in ValuesOf[Kind[t]]
  BY KindAssumption DEF TypeOK, Machines
<1> QED BY <1>1, OriginReachable

\* How far each step takes the request.
LEMMA ChangeOfRequest ==
  ASSUME TypeOK, OneRequest, NEW t \in Targets, Change(t)
  PROVE  /\ ActionUnderWay /\ ActionUnderWay' /\ ~Idle' /\ t \in req.todo /\ ~req.failed
         /\ req.phase = "apply" /\ req'.phase = "apply" /\ t \in DOMAIN Goals[req.action]
         /\ req'.action = req.action /\ req'.snap = req.snap
         /\ UNCHANGED <<snapshots, reply, before, origin, unnoticed>>
<1>1. req.phase = "apply" /\ ~req.failed /\ t \in req.todo
  BY DEF Change, SkipChange, ApplyChange, FailChange, IsNext, Applying, IsFirst
<1>2. req'.phase = req.phase /\ req'.action = req.action /\ req'.snap = req.snap
  BY DEF Change, SkipChange, ApplyChange, FailChange, TypeOK, Requests
<1>3. ActionUnderWay /\ t \in DOMAIN Goals[req.action]
  BY <1>1 DEF OneRequest, TypeOK
<1>4. ~Idle'
  BY <1>1, <1>2 DEF Idle, NoRequest
<1>5. UNCHANGED <<snapshots, reply, before, origin, unnoticed>>
  BY DEF Change, SkipChange, ApplyChange, FailChange, history
<1> QED BY <1>1, <1>2, <1>3, <1>4, <1>5 DEF ActionUnderWay

LEMMA RestoreOfRequest ==
  ASSUME TypeOK, NEW t \in Targets, Restore(t)
  PROVE  /\ ~Idle /\ ~Idle' /\ t \in req.todo /\ t \in Listed(req.snap)
         /\ req.phase = "restore" /\ req'.phase = "restore"
         /\ req'.action = req.action /\ req'.snap = req.snap /\ req'.failed = req.failed
         /\ req'.todo = req.todo \ {t} /\ req.bad \subseteq req'.bad
         /\ UNCHANGED <<snapshots, reply, before, origin>> /\ unnoticed \subseteq unnoticed'
<1>1. req.phase = "restore" /\ t \in req.todo
  BY DEF Restore, RestoreValue, RestoreFails, RemovalIgnored, IsNextRestore, IsFirst
<1>2. /\ req'.phase = req.phase /\ req'.action = req.action /\ req'.snap = req.snap
      /\ req'.failed = req.failed /\ req'.todo = req.todo \ {t} /\ req.bad \subseteq req'.bad
  <2>1. req \in Requests
    BY DEF TypeOK
  <2>2. CASE RestoreValue(t)
    BY <2>1, <2>2 DEF RestoreValue, Requests
  <2>3. CASE RestoreFails(t)
    BY <2>1, <2>3 DEF RestoreFails, Requests
  <2>4. CASE RemovalIgnored(t)
    BY <2>1, <2>4 DEF RemovalIgnored, Requests
  <2> QED BY <2>2, <2>3, <2>4 DEF Restore
<1>3. ~Idle /\ ~Idle' /\ t \in Listed(req.snap)
  BY <1>1, <1>2 DEF Idle, NoRequest, TypeOK
<1>4. UNCHANGED <<snapshots, reply, before, origin>> /\ unnoticed \subseteq unnoticed'
  BY DEF Restore, RestoreValue, RestoreFails, RemovalIgnored, history
<1> QED BY <1>1, <1>2, <1>3, <1>4

\* A request that ends, and one that begins without a snapshot.
LEMMA IdleSteps ==
  ASSUME TypeOK,
         \/ \E a \in ActionIds : RecordManualOnly(a) \/ EndsUnchanged(a)
         \/ RecordOutcome \/ Crash
         \/ (FinishRestore \/ RestoreErrs) /\ req.action = RestoreRequest
  PROVE  Idle' /\ ~ActionUnderWay' /\ req'.phase = "idle"
<1>1. Idle'
  BY DEF RecordManualOnly, EndsUnchanged, RecordOutcome, Crash, FinishRestore, RestoreErrs,
         Answer, Idle
<1> QED BY <1>1 DEF Idle, ActionUnderWay, NoRequest

LEMMA SnapshotRequest ==
  ASSUME TypeOK, NEW a \in ActionIds, NEW unread, TakeSnapshot(a, unread)
  PROVE  /\ snapshots' = Append(snapshots, Capture(a, unread)) /\ before' = machine
         /\ UNCHANGED <<machine, origin, buried, lost>> /\ unnoticed' = unnoticed \cup unread
         /\ \/ Idle' /\ ~ActionUnderWay' /\ req'.phase = "idle" /\ reply'.status = "error"
            \/ /\ ~Idle' /\ ActionUnderWay' /\ ~IsManualOnly(a) /\ reply' = NoReply
               /\ req' = [phase |-> "apply", action |-> a, snap |-> Len(snapshots) + 1,
                          todo |-> DOMAIN Goals[a], succeeded |-> {}, skipped |-> {},
                          failed |-> FALSE, restored |-> {}, bad |-> {}]
<1>1. /\ snapshots' = Append(snapshots, Capture(a, unread)) /\ before' = machine /\ Idle
      /\ UNCHANGED <<machine, origin, buried, lost>> /\ unnoticed' = unnoticed \cup unread
      /\ ~IsManualOnly(a)
  BY DEF TakeSnapshot, Capture, world
<1>2. CASE reply' = Reply(a, "error", 0, {}) /\ UNCHANGED req
  BY <1>1, <1>2 DEF Idle, ActionUnderWay, NoRequest, Reply
<1>3. CASE /\ reply' = NoReply
           /\ req' = [NoRequest EXCEPT !.phase = "apply", !.action = a,
                                       !.snap = Len(snapshots) + 1, !.todo = DOMAIN Goals[a]]
  <2>1. req' = [phase |-> "apply", action |-> a, snap |-> Len(snapshots) + 1,
                todo |-> DOMAIN Goals[a], succeeded |-> {}, skipped |-> {},
                failed |-> FALSE, restored |-> {}, bad |-> {}]
    BY <1>3 DEF NoRequest
  <2>2. req'.phase = "apply" /\ req'.action = a
    BY <2>1
  <2>3. ~Idle' /\ ActionUnderWay'
    BY <2>2, RestoreRequestAssumption DEF Idle, NoRequest, ActionUnderWay, RestoreRequest
  <2> QED BY <1>1, <1>3, <2>1, <2>3
<1> QED BY <1>1, <1>2, <1>3 DEF TakeSnapshot

LEMMA RestoreRequested ==
  ASSUME TypeOK, NEW i \in DOMAIN snapshots, RequestRestore(i)
  PROVE  /\ ~Idle' /\ ~ActionUnderWay' /\ req'.phase = "restore" /\ reply' = NoReply
         /\ req'.action = RestoreRequest /\ req'.snap = i /\ req'.todo = Listed(i)
<1>1. /\ req'.phase = "restore" /\ req'.action = RestoreRequest /\ reply' = NoReply
      /\ req'.snap = i /\ req'.todo = Listed(i)
  BY DEF RequestRestore, NoRequest
<1> QED BY <1>1 DEF Idle, NoRequest, ActionUnderWay

\* The steps between the phases of an action.
LEMMA PhaseSteps ==
  ASSUME TypeOK, OneRequest,
         \/ ShellHealth \/ StartRollback
         \/ (FinishRestore \/ RestoreErrs) /\ req.action # RestoreRequest
  PROVE  /\ ~Idle /\ ActionUnderWay /\ ~Idle' /\ ActionUnderWay'
         /\ req'.action = req.action /\ req'.snap = req.snap /\ req'.bad = req.bad
         /\ UNCHANGED <<machine, buried, snapshots, reply, before, origin, unnoticed>>
         /\ req'.phase \in {"apply", "restore", "record", "record_rollback_failed"}
         /\ req'.phase = "restore" => req'.failed
<1>1. /\ req.phase \in {"apply", "restore"}
      /\ req.phase = "restore" => req.action # RestoreRequest
      /\ UNCHANGED <<machine, buried, snapshots, reply, before, origin, unnoticed>>
  BY DEF ShellHealth, Applying, StartRollback, FinishRestore, RestoreErrs, history, world
<1>2. ~Idle /\ ActionUnderWay
  <2>1. ~Idle
    BY <1>1 DEF Idle, NoRequest
  <2> QED BY <1>1, <2>1 DEF ActionUnderWay, OneRequest
<1>3. /\ req'.action = req.action /\ req'.snap = req.snap /\ req'.bad = req.bad
      /\ req'.phase \in {"apply", "restore", "record", "record_rollback_failed"}
      /\ req'.phase = "restore" => req'.failed
  BY <1>1, <1>2
     DEF ShellHealth, Applying, StartRollback, FinishRestore, RestoreErrs, TypeOK, Requests, ActionUnderWay
<1>4. ~Idle'
  BY <1>3 DEF Idle, NoRequest
<1> QED BY <1>1, <1>2, <1>3, <1>4 DEF ActionUnderWay

LEMMA OneRequestNext == TypeOK /\ OneRequest /\ [Next]_vars => OneRequest'
<1> SUFFICES ASSUME TypeOK, OneRequest, [Next]_vars PROVE OneRequest'
  OBVIOUS
<1>1. ASSUME \/ \E a \in ActionIds : RecordManualOnly(a) \/ EndsUnchanged(a)
             \/ RecordOutcome \/ Crash
             \/ (FinishRestore \/ RestoreErrs) /\ req.action = RestoreRequest
      PROVE  OneRequest'
  BY <1>1, IdleSteps DEF OneRequest
<1>2. ASSUME NEW a \in ActionIds, NEW unread, TakeSnapshot(a, unread) PROVE OneRequest'
  BY <1>2, SnapshotRequest DEF OneRequest, IsManualOnly
<1>3. ASSUME NEW i \in DOMAIN snapshots, RequestRestore(i) PROVE OneRequest'
  BY <1>3, RestoreRequested DEF OneRequest
<1>4. ASSUME NEW t \in Targets, Change(t) PROVE OneRequest'
  BY <1>4, ChangeOfRequest DEF OneRequest, ActionUnderWay, IsManualOnly
<1>5. ASSUME NEW t \in Targets, Restore(t) PROVE OneRequest'
  BY <1>5, RestoreOfRequest DEF OneRequest, ActionUnderWay, IsManualOnly
<1>6. ASSUME \/ ShellHealth \/ StartRollback
             \/ (FinishRestore \/ RestoreErrs) /\ req.action # RestoreRequest
      PROVE  OneRequest'
  BY <1>6, PhaseSteps DEF OneRequest, IsManualOnly
<1>7. CASE UNCHANGED vars
  BY <1>7 DEF vars, OneRequest, ActionUnderWay, Idle, IsManualOnly
<1> QED BY <1>1, <1>2, <1>3, <1>4, <1>5, <1>6, <1>7 DEF Next, Request

LEMMA SnapshotOfBeforeNext ==
  TypeOK /\ OneRequest /\ SnapshotOfBefore /\ [Next]_vars => SnapshotOfBefore'
<1> SUFFICES ASSUME TypeOK, OneRequest, SnapshotOfBefore, [Next]_vars PROVE SnapshotOfBefore'
  OBVIOUS
<1>0. ASSUME ActionUnderWay, req'.action = req.action, req'.snap = req.snap,
             UNCHANGED <<snapshots, before>>, unnoticed \subseteq unnoticed'
      PROVE  SnapshotOfBefore'
  BY <1>0 DEF SnapshotOfBefore, Lists, Snapshotted
<1>1. ASSUME ~ActionUnderWay' PROVE SnapshotOfBefore'
  BY <1>1 DEF SnapshotOfBefore
<1>2. ASSUME \/ \E a \in ActionIds : RecordManualOnly(a) \/ EndsUnchanged(a)
             \/ RecordOutcome \/ Crash
             \/ (FinishRestore \/ RestoreErrs) /\ req.action = RestoreRequest
      PROVE  SnapshotOfBefore'
  BY <1>1, <1>2, IdleSteps
<1>3. ASSUME NEW a \in ActionIds, NEW unread, TakeSnapshot(a, unread) PROVE SnapshotOfBefore'
  <2>1. PICK n \in Nat : n = Len(snapshots) + 1
    BY DEF TypeOK
  <2>2. snapshots'[n] = Capture(a, unread) /\ unnoticed' = unnoticed \cup unread /\ before' = machine
    BY <1>3, <2>1, SnapshotRequest DEF TypeOK
  <2>3. CASE req'.action = a /\ req'.snap = n
    <3>1. \A t \in Targets : Capture(a, unread)[t] # Unlisted <=> t \in Snapshotted(a)
      BY CaptureType
    <3>2. \A t \in Snapshotted(a) : \E read \in BOOLEAN :
            /\ Capture(a, unread)[t] = Captured(Kind[t], machine[t], read)
            /\ t \notin unread => read = TRUE
      <4>1. ASSUME NEW t \in Snapshotted(a)
            PROVE  /\ Capture(a, unread)[t] = Captured(Kind[t], machine[t], t \notin unread)
                   /\ (t \notin unread) \in BOOLEAN
        BY GoalTypes DEF Capture
      <4> QED BY <4>1
    <3> QED BY <2>2, <2>3, <3>1, <3>2 DEF SnapshotOfBefore, Lists, Snapshotted
  <2> QED BY <1>1, <1>3, <2>1, <2>3, SnapshotRequest
<1>4. ASSUME NEW i \in DOMAIN snapshots, RequestRestore(i) PROVE SnapshotOfBefore'
  BY <1>1, <1>4, RestoreRequested
<1>5. ASSUME NEW t \in Targets, Change(t) PROVE SnapshotOfBefore'
  BY <1>0, <1>5, ChangeOfRequest
<1>6. ASSUME NEW t \in Targets, Restore(t) PROVE SnapshotOfBefore'
  BY <1>0, <1>1, <1>6, RestoreOfRequest DEF ActionUnderWay
<1>7. ASSUME \/ ShellHealth \/ StartRollback
             \/ (FinishRestore \/ RestoreErrs) /\ req.action # RestoreRequest
      PROVE  SnapshotOfBefore'
  BY <1>0, <1>7, PhaseSteps
<1>8. CASE UNCHANGED vars
  BY <1>0, <1>1, <1>8 DEF vars, ActionUnderWay, Idle
<1> QED BY <1>2, <1>3, <1>4, <1>5, <1>6, <1>7, <1>8 DEF Next, Request

\* A restore script touches its own target.
LEMMA OneTarget ==
  ASSUME TypeOK, NEW t \in Targets, Restore(t)
  PROVE  \A u \in Targets \ {t} : machine'[u] = machine[u]
BY DEF Restore, RestoreValue, RestoreFails, RemovalIgnored, TypeOK, Machines, world

\* A change touches its own target and what its writing erases.
LEMMA OwnAndSwept ==
  ASSUME TypeOK, OneRequest, NEW t \in Targets, Change(t)
  PROVE  /\ \A u \in Targets \ {t} :
              \/ machine'[u] = machine[u]
              \/ u \in Swept(t) /\ machine'[u] = "missing" /\ t \in DOMAIN Effect[req.action]
         /\ \/ machine'[t] = machine[t]
            \/ /\ ApplyChange(t) /\ t \in DOMAIN Effect[req.action]
               /\ machine'[t] = Applied(Kind[t], machine[t], Goals[req.action][t])
               /\ ~Skips(Kind[t], machine[t], Goals[req.action][t], FALSE)
            \/ Kind[t] = "powershell" /\ machine'[t] = "on"
            \/ Kind[t] = "registry" /\ machine'[t] = "missing"
<1>1. req.action \in ActionIds /\ t \in DOMAIN Goals[req.action]
  BY ChangeOfRequest DEF OneRequest
<1>2. CASE UNCHANGED world
  BY <1>2 DEF world
<1>3. ASSUME NEW v \in ValuesOf[Kind[t]], Write(t, v), ~IsGuarded(t)
      PROVE  /\ \A u \in Targets \ {t} :
                  \/ machine'[u] = machine[u]
                  \/ u \in Swept(t) /\ machine'[u] = "missing" /\ t \in DOMAIN Effect[req.action]
             /\ machine'[t] = v
  <2> HIDE DEF Write
  <2> QED BY <1>1, <1>3, WriteEffect, EffectIs
<1>4. CASE ApplyChange(t)
  <2>1. /\ ~IsGuarded(t) /\ ~Skips(Kind[t], machine[t], Goals[req.action][t], FALSE)
        /\ Write(t, Applied(Kind[t], machine[t], Goals[req.action][t]))
    BY <1>4 DEF ApplyChange, IsSkipped, IsGuarded, Skips
  <2>2. Applied(Kind[t], machine[t], Goals[req.action][t]) \in ValuesOf[Kind[t]]
    BY <1>1, GoalTypes, AppliedType, TargetValues
  <2>3. t \in DOMAIN Effect[req.action]
    BY <1>1, <2>1, EffectIs
  <2> HIDE DEF Write, Applied
  <2> QED BY <1>3, <1>4, <2>1, <2>2, <2>3
<1>5. CASE FailChange(t) /\ ~UNCHANGED world
  <2>1. PICK v \in {"on", "missing"} :
          /\ ~IsGuarded(t) /\ Write(t, v)
          /\ v = "on" => Kind[t] = "powershell"
          /\ v = "missing" => Kind[t] = "registry"
    BY <1>5 DEF FailChange
  <2>2. v \in ValuesOf[Kind[t]]
    BY <2>1 DEF ValuesOf
  <2> HIDE DEF Write
  <2> QED BY <1>3, <2>1, <2>2
<1> QED BY <1>2, <1>4, <1>5 DEF Change, SkipChange

LEMMA OwnTargetsOnlyNext ==
  TypeOK /\ OneRequest /\ SnapshotOfBefore /\ OwnTargetsOnly /\ [Next]_vars => OwnTargetsOnly'
<1> SUFFICES ASSUME TypeOK, OneRequest, SnapshotOfBefore, OwnTargetsOnly, [Next]_vars
             PROVE  OwnTargetsOnly'
  OBVIOUS
<1>0. ASSUME ActionUnderWay, req'.action = req.action, UNCHANGED before,
             \A u \in Targets \ DOMAIN Goals[req.action] :
               machine'[u] = machine[u] \/ (machine'[u] = "missing" /\ ErasedBy(req.action, u))
      PROVE  OwnTargetsOnly'
  BY <1>0 DEF OwnTargetsOnly, ErasedBy
<1>1. ASSUME ~ActionUnderWay' PROVE OwnTargetsOnly'
  BY <1>1 DEF OwnTargetsOnly
<1>2. ASSUME \/ \E a \in ActionIds : RecordManualOnly(a) \/ EndsUnchanged(a)
             \/ RecordOutcome \/ Crash
             \/ (FinishRestore \/ RestoreErrs) /\ req.action = RestoreRequest
      PROVE  OwnTargetsOnly'
  BY <1>1, <1>2, IdleSteps
<1>3. ASSUME NEW a \in ActionIds, NEW unread, TakeSnapshot(a, unread) PROVE OwnTargetsOnly'
  BY <1>3, SnapshotRequest DEF OwnTargetsOnly
<1>4. ASSUME NEW i \in DOMAIN snapshots, RequestRestore(i) PROVE OwnTargetsOnly'
  BY <1>1, <1>4, RestoreRequested
<1>5. ASSUME NEW t \in Targets, Change(t) PROVE OwnTargetsOnly'
  BY <1>0, <1>5, ChangeOfRequest, OwnAndSwept DEF ErasedBy
<1>6. ASSUME NEW t \in Targets, Restore(t) PROVE OwnTargetsOnly'
  <2>1. CASE ActionUnderWay
    <3>1. t \in Listed(req.snap) /\ req.action \in ActionIds
      BY <1>6, <2>1, RestoreOfRequest DEF OneRequest
    <3>2. t \in DOMAIN Goals[req.action]
      BY <2>1, <3>1, GoalTypes DEF SnapshotOfBefore, Listed
    <3> QED BY <1>0, <1>6, <2>1, <3>2, RestoreOfRequest, OneTarget
  <2>2. CASE ~ActionUnderWay
    BY <1>1, <1>6, <2>2, RestoreOfRequest DEF ActionUnderWay
  <2> QED BY <2>1, <2>2
<1>7. ASSUME \/ ShellHealth \/ StartRollback
             \/ (FinishRestore \/ RestoreErrs) /\ req.action # RestoreRequest
      PROVE  OwnTargetsOnly'
  BY <1>0, <1>7, PhaseSteps
<1>8. CASE UNCHANGED vars
  BY <1>0, <1>1, <1>8 DEF vars, ActionUnderWay, Idle
<1> QED BY <1>2, <1>3, <1>4, <1>5, <1>6, <1>7, <1>8 DEF Next, Request

LEMMA CountsAreTrueNext ==
  TypeOK /\ OneRequest /\ CountsAreTrue /\ [Next]_vars => CountsAreTrue'
<1> SUFFICES ASSUME TypeOK, OneRequest, CountsAreTrue, [Next]_vars PROVE CountsAreTrue'
  OBVIOUS
<1>1. ASSUME ~ActionUnderWay' \/ req'.failed PROVE CountsAreTrue'
  BY <1>1 DEF CountsAreTrue
<1>2. ASSUME \/ \E a \in ActionIds : RecordManualOnly(a) \/ EndsUnchanged(a)
             \/ RecordOutcome \/ Crash
             \/ (FinishRestore \/ RestoreErrs) /\ req.action = RestoreRequest
      PROVE  CountsAreTrue'
  BY <1>1, <1>2, IdleSteps
<1>3. ASSUME NEW a \in ActionIds, NEW unread, TakeSnapshot(a, unread) PROVE CountsAreTrue'
  <2>1. CASE /\ req'.action = a /\ req'.todo = DOMAIN Goals[a] /\ req'.phase = "apply"
             /\ req'.succeeded = {} /\ req'.skipped = {} /\ machine' = before'
    BY <2>1 DEF CountsAreTrue, Kept, Gone
  <2> QED BY <1>1, <1>3, <2>1, SnapshotRequest
<1>4. ASSUME NEW i \in DOMAIN snapshots, RequestRestore(i) PROVE CountsAreTrue'
  BY <1>1, <1>4, RestoreRequested
<1>5. ASSUME NEW t \in Targets, Change(t) PROVE CountsAreTrue'
  <2>1. /\ ActionUnderWay /\ ~req.failed /\ t \in req.todo /\ req'.action = req.action
        /\ t \in DOMAIN Goals[req.action] /\ req.action \in ActionIds /\ UNCHANGED before
        /\ req'.phase = "apply"
    BY <1>5, ChangeOfRequest DEF OneRequest
  <2>2. /\ Kind[t] \in Kinds /\ Goals[req.action][t] \in GoalsOf[Kind[t]]
        /\ machine[t] \in ValuesOf[Kind[t]] /\ before[t] \in ValuesOf[Kind[t]]
    BY <2>1, GoalTypes, TargetValues
  <2>3. /\ DOMAIN Goals[req.action] = req.todo \cup req.succeeded \cup req.skipped
        /\ req.todo \cap (req.succeeded \cup req.skipped) = {}
        /\ req.succeeded \subseteq DOMAIN Effect[req.action] /\ req.succeeded \subseteq Kept \cup Gone
        /\ \A u \in Targets \ Kept : machine[u] = IF u \in Gone THEN "missing" ELSE before[u]
        /\ \A u \in req.skipped \cap DOMAIN Effect[req.action] :
             u \notin Registry /\ Effect[req.action][u][before[u]] = before[u]
    BY <2>1 DEF CountsAreTrue
  <2>4. /\ t \notin req.succeeded /\ t \notin Kept
        /\ machine[t] = before[t] \/ (t \in Registry /\ machine[t] = "missing")
    <3>1. t \in Gone => t \in Registry
      BY <2>3, SweptFacts DEF Gone, Kept, TypeOK, Requests
    <3> QED BY <2>1, <2>3, <3>1 DEF Kept
  <2>5. Kept \subseteq Targets /\ Kept \subseteq req.succeeded /\ req.succeeded \subseteq Targets
    BY DEF Kept, TypeOK, Requests
  <2>6. CASE SkipChange(t)
    <3>1. /\ req'.todo = req.todo \ {t} /\ req'.skipped = req.skipped \cup {t}
          /\ req'.succeeded = req.succeeded /\ UNCHANGED machine /\ IsSkipped(t)
      BY <2>6 DEF SkipChange, TypeOK, Requests, world
    <3>2. Kept' = Kept /\ Gone' = Gone
      BY <2>1, <3>1 DEF Kept, Gone
    <3>3. t \in DOMAIN Effect[req.action] =>
            t \notin Registry /\ Effect[req.action][t][before[t]] = before[t]
      <4>1. ASSUME t \in DOMAIN Effect[req.action]
            PROVE  Skips(Kind[t], machine[t], Goals[req.action][t], FALSE)
        BY <2>1, <3>1, <4>1, EffectIs DEF IsSkipped, IsGuarded, Skips
      <4>2. ASSUME t \in DOMAIN Effect[req.action] PROVE t \notin Registry
        BY <4>1, <4>2 DEF Skips, Registry
      <4>3. ASSUME t \in DOMAIN Effect[req.action]
            PROVE  Effect[req.action][t][before[t]] = before[t]
        <5>1. machine[t] = before[t]
          BY <2>4, <4>2, <4>3
        <5> HIDE DEF Skips, Applied
        <5> QED BY <2>1, <2>2, <4>1, <4>3, <5>1, EffectIs
      <4> QED BY <4>2, <4>3
    <3> QED BY <2>1, <2>3, <3>1, <3>2, <3>3 DEF CountsAreTrue
  <2>7. CASE ApplyChange(t)
    <3>1. /\ req'.todo = req.todo \ {t} /\ req'.succeeded = req.succeeded \cup {t}
          /\ req'.skipped = req.skipped /\ ~IsSkipped(t)
          /\ Write(t, Applied(Kind[t], machine[t], Goals[req.action][t]))
      BY <2>7 DEF ApplyChange, TypeOK, Requests
    <3>2. /\ t \in DOMAIN Effect[req.action]
          /\ ~Skips(Kind[t], machine[t], Goals[req.action][t], FALSE)
      BY <2>1, <3>1, EffectIs DEF IsSkipped, IsGuarded, Skips
    <3>3. /\ machine'[t] = Applied(Kind[t], machine[t], Goals[req.action][t])
          /\ \A u \in Targets \ {t} :
               machine'[u] = IF u \in Swept(t) THEN "missing" ELSE machine[u]
      <4>1. Applied(Kind[t], machine[t], Goals[req.action][t]) \in ValuesOf[Kind[t]]
        BY <2>2, AppliedType
      <4> HIDE DEF Write, Applied
      <4> QED BY <3>1, <4>1, WriteEffect
    <3>4. machine'[t] = Effect[req.action][t][before[t]]
      <4>1. Effect[req.action][t][before[t]] =
              IF Skips(Kind[t], before[t], Goals[req.action][t], FALSE) THEN before[t]
              ELSE Applied(Kind[t], before[t], Goals[req.action][t])
        BY <2>1, <2>2, <3>2, EffectIs
      <4>2. CASE machine[t] = before[t]
        BY <3>2, <3>3, <4>1, <4>2
      <4>3. CASE t \in Registry
        BY <3>3, <4>1, <4>3 DEF Registry, Skips, Applied
      <4> QED BY <2>4, <4>2, <4>3
    <3>5. \A u \in Swept(t) \cap req.succeeded : Effect[req.action][u][before[u]] # "missing"
      <4> SUFFICES ASSUME NEW u \in Swept(t), u \in req.succeeded
                   PROVE  Effect[req.action][u][before[u]] # "missing"
        OBVIOUS
      <4>1. u \in Targets /\ Kind[u] = "registry" /\ u \in DOMAIN Effect[req.action]
        BY <2>3, SweptFacts DEF Registry
      <4>2. /\ Effect[req.action][u][before[u]] = Goals[req.action][u]
            /\ Goals[req.action][u] \in GoalsOf["registry"]
        BY <2>1, <4>1, EffectIs, TargetValues, GoalTypes DEF Skips, Applied
      <4> QED BY <4>2 DEF GoalsOf
    <3>6. Kept' = (Kept \ Swept(t)) \cup {t}
      <4>1. Kept' = {u \in req.succeeded \cup {t} :
                       machine'[u] = Effect[req.action][u][before[u]]}
        BY <2>1, <3>1 DEF Kept
      <4>2. \A u \in req.succeeded :
              machine'[u] = Effect[req.action][u][before[u]] <=> u \in Kept \ Swept(t)
        BY <2>4, <2>5, <3>3, <3>5 DEF Kept
      <4> QED BY <2>4, <2>5, <3>4, <4>1, <4>2
    <3>7. \A u \in Targets \ {t} : u \in Gone' <=> u \in Gone \/ u \in Swept(t)
      <4>1. Gone' = UNION {Swept(v) : v \in Kept'}
        BY DEF Gone, Swept, Beside, Below
      <4>2. ASSUME NEW u \in Targets \ {t}, NEW v \in Kept, v \in Swept(t), u \in Swept(v)
            PROVE  u \in Swept(t)
        BY <4>2, SweptFacts
      <4> HIDE DEF Swept
      <4> QED BY <3>6, <4>1, <4>2 DEF Gone
    <3>8. ASSUME NEW u \in Targets \ Kept'
          PROVE  machine'[u] = IF u \in Gone' THEN "missing" ELSE before[u]
      <4>1. u # t
        BY <3>6, <3>8
      <4>2. CASE u \in Swept(t)
        BY <3>3, <3>7, <4>1, <4>2
      <4>3. CASE u \notin Swept(t)
        <5>1. u \notin Kept /\ machine'[u] = machine[u]
          BY <3>3, <3>6, <4>1, <4>3
        <5> QED BY <2>3, <3>7, <4>1, <4>3, <5>1
      <4> QED BY <4>2, <4>3
    <3>9. req'.succeeded \subseteq Kept' \cup Gone'
      BY <2>3, <2>5, <3>1, <3>6, <3>7
    <3>10. /\ DOMAIN Goals[req.action] = req'.todo \cup req'.succeeded \cup req'.skipped
           /\ req'.todo \cap (req'.succeeded \cup req'.skipped) = {}
           /\ req'.succeeded \subseteq DOMAIN Effect[req.action]
      BY <2>1, <2>3, <3>1, <3>2
    <3>11. \A u \in req'.skipped \cap DOMAIN Effect[req'.action] :
             u \notin Registry /\ Effect[req'.action][u][before'[u]] = before'[u]
      BY <2>1, <2>3, <3>1
    <3>12. \A u \in Targets \ Kept' : machine'[u] = IF u \in Gone' THEN "missing" ELSE before'[u]
      BY <2>1, <3>8
    <3> HIDE DEF Kept, Gone
    <3> QED BY <2>1, <3>9, <3>10, <3>11, <3>12 DEF CountsAreTrue
  <2>8. CASE FailChange(t)
    BY <1>1, <2>8 DEF FailChange, TypeOK, Requests
  <2> QED BY <1>5, <2>6, <2>7, <2>8 DEF Change
<1>6. ASSUME NEW t \in Targets, Restore(t) PROVE CountsAreTrue'
  BY <1>1, <1>6, RestoreOfRequest DEF ActionUnderWay, OneRequest
<1>7. CASE ShellHealth
  <2>1. ActionUnderWay /\ req'.action = req.action /\ UNCHANGED <<machine, before>>
    BY <1>7, PhaseSteps
  <2>2. CASE req'.failed = TRUE
    BY <1>1, <2>2
  <2>3. CASE req' = [req EXCEPT !.phase = "record"]
    <3>1. /\ req'.todo = req.todo /\ req'.succeeded = req.succeeded /\ req'.skipped = req.skipped
          /\ req'.failed = req.failed /\ req.todo = {} /\ ~req.failed
      BY <1>7, <2>3 DEF ShellHealth, Applying, TypeOK, Requests
    <3>2. Kept' = Kept /\ Gone' = Gone
      BY <2>1, <3>1 DEF Kept, Gone
    <3> QED BY <2>1, <3>1, <3>2 DEF CountsAreTrue
  <2>4. req'.failed = TRUE \/ req' = [req EXCEPT !.phase = "record"]
    BY <1>7 DEF ShellHealth, TypeOK, Requests
  <2> QED BY <2>2, <2>3, <2>4
<1>8. ASSUME StartRollback \/ ((FinishRestore \/ RestoreErrs) /\ req.action # RestoreRequest)
      PROVE  CountsAreTrue'
  <2>1. req.failed /\ req'.failed = req.failed
    BY <1>8, PhaseSteps
       DEF StartRollback, FinishRestore, RestoreErrs, TypeOK, Requests, OneRequest
  <2> QED BY <1>1, <2>1
<1>9. CASE UNCHANGED vars
  <2>1. Kept' = Kept /\ Gone' = Gone
    BY <1>9 DEF vars, Kept, Gone
  <2> QED BY <1>9, <2>1 DEF vars, ActionUnderWay, Idle, CountsAreTrue
<1> QED BY <1>2, <1>3, <1>4, <1>5, <1>6, <1>7, <1>8, <1>9 DEF Next, Request

LEMMA RestoresUndoNext ==
  TypeOK /\ OneRequest /\ SnapshotOfBefore /\ RestoresUndo /\ [Next]_vars => RestoresUndo'
<1> SUFFICES ASSUME TypeOK, OneRequest, SnapshotOfBefore, RestoresUndo, [Next]_vars
             PROVE  RestoresUndo'
  OBVIOUS
<1>1. ASSUME ~ActionUnderWay' PROVE RestoresUndo'
  BY <1>1 DEF RestoresUndo
<1>2. ASSUME \/ \E a \in ActionIds : RecordManualOnly(a) \/ EndsUnchanged(a)
             \/ RecordOutcome \/ Crash
             \/ (FinishRestore \/ RestoreErrs) /\ req.action = RestoreRequest
      PROVE  RestoresUndo'
  BY <1>1, <1>2, IdleSteps
<1>3. ASSUME NEW a \in ActionIds, NEW unread, TakeSnapshot(a, unread) PROVE RestoresUndo'
  <2>1. CASE req'.phase = "apply" /\ before' = machine /\ UNCHANGED machine
    <3>1. \A t \in Targets : machine'[t] \in Reachable(Kind[t], before'[t])
      BY <2>1, OriginReachable, KindAssumption DEF TypeOK, Machines
    <3>2. \A t \in Targets : AwaitsRestore(t)'
      BY <2>1 DEF AwaitsRestore
    <3> QED BY <3>1, <3>2 DEF RestoresUndo
  <2> QED BY <1>1, <1>3, <2>1, SnapshotRequest
<1>4. ASSUME NEW i \in DOMAIN snapshots, RequestRestore(i) PROVE RestoresUndo'
  BY <1>1, <1>4, RestoreRequested
<1>5. ASSUME NEW t \in Targets, Change(t) PROVE RestoresUndo'
  <2>1. /\ ActionUnderWay /\ ~req.failed /\ t \in req.todo /\ req'.action = req.action
        /\ t \in DOMAIN Goals[req.action] /\ req.action \in ActionIds /\ UNCHANGED before
        /\ req.phase = "apply" /\ req'.phase = "apply"
    BY <1>5, ChangeOfRequest DEF OneRequest
  <2>2. \A u \in Targets : AwaitsRestore(u)'
    BY <2>1 DEF AwaitsRestore
  <2>3. ASSUME NEW u \in Targets, u \in Snapshotted(req.action)
        PROVE  machine'[u] \in Reachable(Kind[u], before[u])
    <3>1. machine[u] \in Reachable(Kind[u], before[u])
      BY <2>1, <2>3 DEF RestoresUndo
    <3>2. CASE machine'[u] = machine[u]
      BY <3>1, <3>2
    <3>3. CASE Kind[u] = "registry" /\ machine'[u] = "missing"
      BY <3>3 DEF Reachable, ValuesOf
    <3>4. CASE /\ u = t /\ machine'[t] = Applied(Kind[t], machine[t], Goals[req.action][t])
               /\ ~Skips(Kind[t], machine[t], Goals[req.action][t], FALSE)
      <4>1. /\ Kind[t] \in Kinds /\ before[t] \in ValuesOf[Kind[t]]
            /\ Goals[req.action][t] \in GoalsOf[Kind[t]]
        BY <2>1, TargetValues, GoalTypes
      <4> HIDE DEF Applied, Skips, Reachable
      <4> QED BY <3>1, <3>4, <4>1, AppliedReachable
    <3>5. Kind[u] # "powershell"
      BY <2>3 DEF Snapshotted
    <3>6. u \in Swept(t) => Kind[u] = "registry"
      BY SweptFacts DEF Registry
    <3> HIDE DEF Applied, Skips, Swept
    <3> QED BY <1>5, <3>2, <3>3, <3>4, <3>5, <3>6, OwnAndSwept
  <2> QED BY <2>1, <2>2, <2>3 DEF RestoresUndo, Snapshotted
<1>6. ASSUME NEW t \in Targets, Restore(t) PROVE RestoresUndo'
  <2>1. CASE ActionUnderWay
    <3>1. /\ req.phase = "restore" /\ req'.phase = "restore" /\ t \in req.todo
          /\ req'.todo = req.todo \ {t} /\ req.bad \subseteq req'.bad /\ req'.action = req.action
          /\ unnoticed \subseteq unnoticed' /\ UNCHANGED before /\ req.failed /\ req'.failed
          /\ t \in Listed(req.snap)
      BY <1>6, <2>1, RestoreOfRequest DEF OneRequest
    <3>2. \A u \in Targets \ {t} : machine'[u] = machine[u]
      BY <1>6, OneTarget
    <3>3. \A u \in Targets \ {t} : /\ AwaitsRestore(u)' <=> AwaitsRestore(u)
                                   /\ CanBeRestored(u)' => CanBeRestored(u)
      BY <3>1 DEF AwaitsRestore, CanBeRestored
    <3>4. t \in Snapshotted(req.action) /\ machine[t] \in Reachable(Kind[t], before[t])
      BY <2>1, <3>1 DEF SnapshotOfBefore, Listed, RestoresUndo
    <3>5. PICK read \in BOOLEAN : /\ Captive(t) = Captured(Kind[t], before[t], read)
                                  /\ t \notin unnoticed => read = TRUE
      BY <2>1, <3>1 DEF SnapshotOfBefore, Captive, Listed
    <3>6. /\ Kind[t] \in Kinds /\ Kind[t] # "powershell" /\ before[t] \in ValuesOf[Kind[t]]
          /\ before[t] \in Reachable(Kind[t], before[t])
      BY <3>4, TargetValues DEF Snapshotted
    <3>7. \/ machine'[t] = machine[t]
          \/ machine'[t] = Restored(Kind[t], Captive(t), machine[t]) /\ ~Refused(t)
      BY <1>6 DEF Restore, RestoreValue, RestoreFails, RemovalIgnored, TypeOK, Machines, world
    <3>8. machine'[t] \in Reachable(Kind[t], before[t])
      <4>1. ASSUME ~RestoreRefused(Kind[t], Captured(Kind[t], before[t], read), machine[t])
            PROVE  Restored(Kind[t], Captured(Kind[t], before[t], read), machine[t])
                     \in Reachable(Kind[t], before[t])
        BY <3>4, <3>6, <4>1, RestoredReachable
      <4> QED BY <3>4, <3>5, <3>7, <4>1 DEF Refused
    <3>9. ASSUME CanBeRestored(t)' PROVE machine'[t] = before[t]
      <4>1. RestoreValue(t) /\ t \notin unnoticed /\ Faithful(Kind[t], before[t])
        <5>1. t \notin req'.bad /\ t \notin unnoticed' /\ Faithful(Kind[t], before[t])
          BY <3>1, <3>9 DEF CanBeRestored
        <5>2. req \in Requests /\ unnoticed \subseteq Targets
          BY DEF TypeOK
        <5>3. ~RestoreFails(t)
          <6>1. ASSUME RestoreFails(t) PROVE req'.bad = req.bad \cup {t}
            BY <5>2, <6>1 DEF RestoreFails, Requests
          <6> QED BY <5>1, <6>1
        <5>4. ~RemovalIgnored(t)
          BY <5>1 DEF RemovalIgnored
        <5> QED BY <1>6, <3>1, <5>1, <5>3, <5>4 DEF Restore
      <4>2. Captive(t) = Captured(Kind[t], before[t], TRUE)
        BY <3>5, <4>1
      <4>3. AfterRestore(Kind[t], Captive(t), machine[t]) = before[t]
        BY <3>4, <3>6, <4>1, <4>2, FaithfulUndoes
      <4>4. machine'[t] = AfterRestore(Kind[t], Captive(t), machine[t])
        BY <4>1 DEF RestoreValue, Refused, AfterRestore, TypeOK, Machines
      <4> QED BY <4>3, <4>4
    <3> QED BY <2>1, <3>1, <3>2, <3>3, <3>8, <3>9 DEF RestoresUndo, Snapshotted
  <2>2. CASE ~ActionUnderWay
    BY <1>1, <1>6, <2>2, RestoreOfRequest DEF ActionUnderWay
  <2> QED BY <2>1, <2>2
<1>7. CASE ShellHealth
  <2>1. /\ ActionUnderWay /\ req.phase = "apply" /\ UNCHANGED <<machine, before, unnoticed>>
        /\ req'.action = req.action
    BY <1>7, PhaseSteps DEF ShellHealth, Applying
  <2>2. req'.phase = "apply" \/ (req'.phase = "record" /\ ~req'.failed)
    BY <1>7 DEF ShellHealth, Applying, TypeOK, Requests
  <2> QED BY <2>1, <2>2 DEF RestoresUndo, AwaitsRestore, Snapshotted
<1>8. CASE StartRollback
  <2>1. /\ ActionUnderWay /\ req.phase = "apply" /\ UNCHANGED <<machine, before, unnoticed>>
        /\ req'.action = req.action /\ req.action \in ActionIds
        /\ req'.phase = "restore" /\ req'.todo = Listed(req.snap)
    BY <1>8, PhaseSteps DEF StartRollback, OneRequest, TypeOK, Requests
  <2>2. \A t \in Targets : t \in Snapshotted(req.action) => AwaitsRestore(t)'
    BY <2>1 DEF SnapshotOfBefore, Listed, AwaitsRestore
  <2> QED BY <2>1, <2>2 DEF RestoresUndo, Snapshotted
<1>9. CASE FinishRestore /\ req.action # RestoreRequest
  <2>1. /\ ActionUnderWay /\ req.phase = "restore" /\ UNCHANGED <<machine, before, unnoticed>>
        /\ req'.action = req.action /\ req.todo = {} /\ req'.phase = "record" /\ req.failed
        /\ req'.bad = req.bad
    BY <1>9, PhaseSteps DEF FinishRestore, OneRequest, TypeOK, Requests
  <2>2. \A t \in Targets : ~AwaitsRestore(t) /\ ~AwaitsRestore(t)' /\ (CanBeRestored(t)' <=> CanBeRestored(t))
    BY <2>1 DEF AwaitsRestore, CanBeRestored
  <2> QED BY <2>1, <2>2 DEF RestoresUndo, Snapshotted
<1>10. CASE RestoreErrs /\ req.action # RestoreRequest
  <2>1. /\ ActionUnderWay /\ UNCHANGED <<machine, before>> /\ req'.action = req.action
        /\ req'.phase = "record_rollback_failed"
    BY <1>10, PhaseSteps DEF RestoreErrs, TypeOK, Requests
  <2> QED BY <2>1 DEF RestoresUndo, Snapshotted
<1>11. CASE UNCHANGED vars
  BY <1>11 DEF vars, ActionUnderWay, Idle, RestoresUndo, AwaitsRestore, CanBeRestored, Snapshotted
<1> QED BY <1>2, <1>3, <1>4, <1>5, <1>6, <1>7, <1>8, <1>9, <1>10, <1>11 DEF Next, Request

\* Only what is answered to an action says something of the machine.
LEMMA NothingClaimed ==
  ASSUME reply.status \notin {"success", "skipped", "rolled_back", "rollback_failed", "error"}
         \/ (reply.action \notin ActionIds
               /\ reply.status \in {"success", "partial", "failed", "error"})
  PROVE  StatusIsTrue
BY DEF StatusIsTrue, SuccessIsWhole, RolledBackIsClean, ErrorIsRecoverable

LEMMA SamePlace ==
  ASSUME TypeOK, \A t \in Targets : machine[t] = before[t]
  PROVE  machine = before
BY DEF TypeOK, Machines

\* What a whole action has made of the machine.
WholeAction(a) ==
  LET kept   == {t \in DOMAIN Effect[a] : machine[t] = Effect[a][t][before[t]]}
      erased == UNION {Swept(t) : t \in kept}
  IN /\ DOMAIN Effect[a] \subseteq kept \cup erased
     /\ \A t \in Targets \ kept : machine[t] = IF t \in erased THEN "missing" ELSE before[t]

LEMMA CountsOfWhole ==
  ASSUME TypeOK, OneRequest, CountsAreTrue, ActionUnderWay, ~req.failed, req.phase = "record"
  PROVE  WholeAction(req.action) /\ (req.succeeded = {} => machine = before)
<1> DEFINE effect == Effect[req.action]
           kept == {t \in DOMAIN effect : machine[t] = effect[t][before[t]]}
           erased == UNION {Swept(t) : t \in kept}
<1>1. /\ DOMAIN Goals[req.action] = req.succeeded \cup req.skipped
      /\ req.succeeded \subseteq DOMAIN effect /\ req.succeeded \subseteq Kept \cup Gone
      /\ \A t \in Targets \ Kept : machine[t] = IF t \in Gone THEN "missing" ELSE before[t]
      /\ \A t \in req.skipped \cap DOMAIN effect :
           t \notin Registry /\ effect[t][before[t]] = before[t]
  BY DEF CountsAreTrue
<1>2. req.action \in ActionIds /\ DOMAIN effect \subseteq Targets
      /\ DOMAIN effect \subseteq DOMAIN Goals[req.action]
  BY EffectIs, GoalTypes DEF OneRequest
<1>3. Kept \subseteq req.succeeded
  BY DEF Kept
<1>4. Gone \subseteq Registry
  BY <1>1, <1>2, <1>3, SweptFacts DEF Gone
<1>5. \A t \in req.skipped \cap DOMAIN effect : t \in Kept \/ machine[t] = before[t]
  BY <1>1, <1>2, <1>4
<1>6. Kept \subseteq kept
  BY <1>1 DEF Kept
<1>7. \A t \in kept : t \in Kept \/ t \notin Registry
  <2> SUFFICES ASSUME NEW t \in kept, t \notin Kept PROVE t \notin Registry
    OBVIOUS
  <2>1. t \notin req.succeeded
    BY DEF Kept
  <2> QED BY <1>1, <1>2, <2>1
<1>8. erased = Gone
  <2>1. Gone \subseteq erased
    BY <1>6 DEF Gone
  <2>2. \A t \in kept : t \notin Kept => Swept(t) = {}
    BY <1>2, <1>7, SweptFacts
  <2>3. erased \subseteq Gone
    BY <2>2 DEF Gone
  <2> QED BY <2>1, <2>3
<1>9. DOMAIN effect \subseteq kept \cup erased
  <2> SUFFICES ASSUME NEW t \in DOMAIN effect, t \notin erased PROVE t \in kept
    OBVIOUS
  <2>1. CASE t \in req.succeeded
    BY <1>1, <1>6, <1>8, <2>1
  <2>2. CASE t \in req.skipped
    BY <1>1, <1>5, <1>6, <2>2
  <2> QED BY <1>1, <1>2, <2>1, <2>2
<1>10. \A t \in Targets \ kept : machine[t] = IF t \in erased THEN "missing" ELSE before[t]
  BY <1>1, <1>6, <1>8
<1>11. WholeAction(req.action)
  BY <1>9, <1>10 DEF WholeAction
<1>12. req.succeeded = {} => machine = before
  BY <1>1, <1>3, SamePlace DEF Gone
<1> QED BY <1>11, <1>12

LEMMA RecordIsTrue ==
  ASSUME TypeOK, OneRequest, SnapshotOfBefore, OwnTargetsOnly, CountsAreTrue, RestoresUndo,
         RecordOutcome
  PROVE  StatusIsTrue'
<1>1. /\ ActionUnderWay /\ req.action \in ActionIds /\ ~IsManualOnly(req.action)
      /\ req.phase \in {"record", "record_rollback_failed"}
      /\ UNCHANGED <<machine, buried, snapshots, before, unnoticed>>
  BY DEF RecordOutcome, OneRequest, history, world
<1>2. PICK status \in {Status, "error"} : reply' = Reply(req.action, status, req.snap, req.bad)
  BY DEF RecordOutcome, OrError, Answer
<1>3. /\ reply'.action = req.action /\ reply'.status = status /\ reply'.bad = req.bad
      /\ reply'.snap = req.snap
  BY <1>2 DEF Reply
<1>4. \A t \in Targets : t \notin DOMAIN Goals[req.action] =>
        machine[t] = before[t] \/ (machine[t] = "missing" /\ ErasedBy(req.action, t))
  BY <1>1 DEF OwnTargetsOnly
<1>5. CASE status = "error"
  <2>1. ASSUME NEW t \in Targets, t \in DOMAIN Goals[req.action], Kind[t] # "powershell"
        PROVE  /\ req.snap \in DOMAIN snapshots /\ Lists(req.snap, t)
               /\ Faithful(Kind[t], before[t]) /\ t \notin unnoticed =>
                    AfterRestore(Kind[t], snapshots[req.snap][t], machine[t]) = before[t]
    <3>1. t \in Snapshotted(req.action) /\ req.snap \in DOMAIN snapshots
      BY <1>1, <2>1 DEF Snapshotted, TypeOK, ActionUnderWay
    <3>2. Lists(req.snap, t) /\ machine[t] \in Reachable(Kind[t], before[t])
      BY <1>1, <3>1 DEF SnapshotOfBefore, RestoresUndo
    <3>3. t \notin unnoticed => snapshots[req.snap][t] = Captured(Kind[t], before[t], TRUE)
      BY <1>1, <3>2 DEF SnapshotOfBefore
    <3> QED BY <3>1, <3>2, <3>3, TargetValues, FaithfulUndoes
  <2>2. ErrorIsRecoverable'
    BY <1>1, <1>3, <1>4, <2>1 DEF ErrorIsRecoverable, ErasedBy, Lists
  <2> QED BY <1>3, <1>5, <2>2 DEF StatusIsTrue, SuccessIsWhole, RolledBackIsClean
<1>6. CASE status = "rollback_failed"
  BY <1>1, <1>3, <1>4, <1>6
     DEF StatusIsTrue, SuccessIsWhole, RolledBackIsClean, ErrorIsRecoverable, ErasedBy
<1>7. CASE status = "rolled_back"
  <2>1. req.failed /\ req.phase = "record"
    BY <1>1, <1>2, <1>7 DEF Status
  <2>2. \A t \in Targets : t \in DOMAIN Goals[req.action] /\ t \notin req.bad
            /\ Faithful(Kind[t], before[t]) /\ t \notin unnoticed => machine[t] = before[t]
    <3>1. \A t \in Targets : t \in DOMAIN Goals[req.action] /\ Faithful(Kind[t], before[t])
            => t \in Snapshotted(req.action)
      BY DEF Faithful, Snapshotted
    <3> QED BY <1>1, <2>1, <3>1 DEF RestoresUndo, AwaitsRestore, CanBeRestored
  <2> QED BY <1>1, <1>3, <1>4, <1>7, <2>2
          DEF StatusIsTrue, SuccessIsWhole, RolledBackIsClean, ErrorIsRecoverable, ErasedBy
<1>8. CASE status \in {"success", "skipped"}
  <2>1. ~req.failed /\ req.phase = "record"
    BY <1>1, <1>2, <1>8 DEF Status
  <2>2. WholeAction(req.action) /\ (req.succeeded = {} => machine = before)
    BY <1>1, <2>1, CountsOfWhole
  <2>3. SuccessIsWhole'
    <3>1. CASE status = "success"
      BY <1>1, <1>3, <2>2, <3>1 DEF SuccessIsWhole, WholeAction, IsManualOnly
    <3>2. CASE status = "skipped"
      <4>1. req.succeeded = {}
        BY <1>2, <2>1, <3>2 DEF Status
      <4> QED BY <1>1, <1>3, <2>2, <3>2, <4>1 DEF SuccessIsWhole
    <3> QED BY <1>8, <3>1, <3>2
  <2> QED BY <1>3, <1>8, <2>3 DEF StatusIsTrue, RolledBackIsClean, ErrorIsRecoverable
<1> QED BY <1>5, <1>6, <1>7, <1>8 DEF Status

LEMMA StatusIsTrueNext ==
  TypeOK /\ StatusInv /\ [Next]_vars => StatusIsTrue'
<1> SUFFICES ASSUME TypeOK, StatusInv, [Next]_vars PROVE StatusIsTrue'
  OBVIOUS
<1> USE DEF StatusInv
<1>1. ASSUME reply'.status \notin {"success", "skipped", "rolled_back", "rollback_failed", "error"}
             \/ (reply'.action \notin ActionIds
                   /\ reply'.status \in {"success", "partial", "failed", "error"})
      PROVE  StatusIsTrue'
  BY <1>1 DEF StatusIsTrue, SuccessIsWhole, RolledBackIsClean, ErrorIsRecoverable
<1>0. ASSUME reply'.status = "error", machine' = before' PROVE StatusIsTrue'
  BY <1>0 DEF StatusIsTrue, SuccessIsWhole, RolledBackIsClean, ErrorIsRecoverable
<1>2. ASSUME reply' = NoReply PROVE StatusIsTrue'
  BY <1>1, <1>2 DEF NoReply, Reply
<1>3. ASSUME NEW a \in ActionIds, RecordManualOnly(a) PROVE StatusIsTrue'
  <2>1. /\ IsManualOnly(a) /\ UNCHANGED machine /\ before' = machine
        /\ reply'.action = a /\ reply'.status \in {"success", "error"}
    BY <1>3 DEF RecordManualOnly, OrError, Reply, world
  <2> QED BY <1>0, <2>1
          DEF StatusIsTrue, SuccessIsWhole, RolledBackIsClean, ErrorIsRecoverable, IsManualOnly
<1>4. ASSUME NEW a \in ActionIds, EndsUnchanged(a) PROVE StatusIsTrue'
  BY <1>0, <1>4 DEF EndsUnchanged, Reply, world
<1>5. ASSUME NEW a \in ActionIds, NEW unread, TakeSnapshot(a, unread) PROVE StatusIsTrue'
  BY <1>0, <1>2, <1>5, SnapshotRequest
<1>6. ASSUME NEW i \in DOMAIN snapshots, RequestRestore(i) PROVE StatusIsTrue'
  BY <1>2, <1>6, RestoreRequested
<1>7. ASSUME NEW t \in Targets, Change(t) \/ Restore(t) PROVE StatusIsTrue'
  <2>1. ~Idle /\ reply' = reply
    BY <1>7, ChangeOfRequest, RestoreOfRequest DEF ActionUnderWay
  <2> QED BY <1>2, <2>1 DEF OneRequest
<1>8. ASSUME \/ ShellHealth \/ StartRollback
             \/ (FinishRestore \/ RestoreErrs) /\ req.action # RestoreRequest
      PROVE  StatusIsTrue'
  BY <1>2, <1>8, PhaseSteps DEF OneRequest
<1>9. ASSUME (FinishRestore \/ RestoreErrs) /\ req.action = RestoreRequest PROVE StatusIsTrue'
  <2>1. /\ reply'.action = RestoreRequest
        /\ reply'.status \in {"success", "partial", "failed", "error"}
    BY <1>9 DEF FinishRestore, RestoreErrs, Answer, Reply, RestoreStatus
  <2> QED BY <1>1, <2>1, RestoreRequestAssumption DEF RestoreRequest
<1>10. CASE RecordOutcome
  BY <1>10, RecordIsTrue
<1>11. CASE Crash
  BY <1>2, <1>11 DEF Crash
<1>12. CASE UNCHANGED vars
  BY <1>12 DEF vars, StatusIsTrue, SuccessIsWhole, RolledBackIsClean, ErrorIsRecoverable,
               IsManualOnly, Lists, ErasedBy
<1> QED BY <1>3, <1>4, <1>5, <1>6, <1>7, <1>8, <1>9, <1>10, <1>11, <1>12 DEF Next, Request

LEMMA InitStatus == Init => StatusInv
<1> SUFFICES ASSUME Init PROVE StatusInv
  OBVIOUS
<1>1. ~ActionUnderWay /\ Idle /\ req.phase = "idle"
  BY DEF Init, ActionUnderWay, Idle, NoRequest
<1>2. StatusIsTrue
  BY NothingClaimed DEF Init, NoReply, Reply
<1> QED BY <1>1, <1>2 DEF StatusInv, OneRequest, SnapshotOfBefore, OwnTargetsOnly,
                          CountsAreTrue, RestoresUndo

LEMMA NextStatus == TypeOK /\ StatusInv /\ [Next]_vars => StatusInv'
<1> SUFFICES ASSUME TypeOK, StatusInv, [Next]_vars PROVE StatusInv'
  OBVIOUS
<1>1. TypeOK' /\ OneRequest' /\ SnapshotOfBefore' /\ OwnTargetsOnly'
  BY NextType, OneRequestNext, SnapshotOfBeforeNext, OwnTargetsOnlyNext DEF StatusInv
<1>2. CountsAreTrue' /\ RestoresUndo' /\ StatusIsTrue'
  BY CountsAreTrueNext, RestoresUndoNext, StatusIsTrueNext DEF StatusInv
<1> QED BY <1>1, <1>2 DEF StatusInv

LEMMA StatusInvInductive == Spec => [](TypeOK /\ StatusInv)
BY InitType, InitStatus, NextType, NextStatus, PTL DEF Spec

\* Whatever scripts and statements fail and in whatever order: "success" is
\* said of whole actions only, up to registry values that a later write of the
\* action erased, "skipped" of actions that changed nothing; after "rolled_back"
\* every target of the action is as it was before, up to those whose restore is
\* reported as failed or that no snapshot can bring back; and what an action
\* that ends with an error has done to its targets can be undone from its snapshot.
THEOREM StatusIsAlwaysTrue == Spec => []StatusIsTrue
<1>1. StatusInv => StatusIsTrue
  BY DEF StatusInv
<1> QED BY <1>1, StatusInvInductive, PTL

-----------------------------------------------------------------------------
(* All or nothing: the executor implements ReversibleActions.              *)

\* What a restore does to a target whose value had been read is what the undo
\* record says.
LEMMA RestorePutsBack ==
  ASSUME NEW kind \in {"registry", "service", "bcd", "file_rename"}, NEW o \in ValuesOf[kind],
         NEW u \in Reachable(kind, o), NEW v \in Reachable(kind, o)
  PROVE  AfterRestore(kind, Captured(kind, u, TRUE), v) =
           IF UndoValue(kind, Captured(kind, u, TRUE)) = Unlisted THEN v
           ELSE UndoValue(kind, Captured(kind, u, TRUE))
BY DEF AfterRestore, RestoreRefused, Restored, Captured, Probed, UndoValue, PutBack, Reachable,
       ValuesOf, None, Unlisted

LEMMA RecordedValue ==
  ASSUME NEW kind \in {"registry", "service", "bcd", "file_rename"}, NEW v \in ValuesOf[kind],
         v # "text1"
  PROVE  /\ Captured(kind, v, TRUE) # Unlisted
         /\ UndoValue(kind, Captured(kind, v, TRUE)) = PutBack(kind, v)
BY DEF Captured, Probed, UndoValue, PutBack, ValuesOf, None, Unlisted

LEMMA AppliedNoText ==
  ASSUME NEW kind, NEW v, NEW goal, v # "text1", goal # "text1"
  PROVE  Applied(kind, v, goal) # "text1"
BY DEF Applied

LEMMA DependableTarget ==
  ASSUME Dependable, TypeOK, IInv, NEW t \in Targets
  PROVE  /\ Kind[t] \in {"registry", "service", "bcd", "file_rename"} /\ Kind[t] \in Kinds
         /\ origin[t] \in ValuesOf[Kind[t]] /\ before[t] \in ValuesOf[Kind[t]]
         /\ machine[t] \in ValuesOf[Kind[t]] /\ machine[t] \in Reachable(Kind[t], origin[t])
         /\ \A v \in ValuesOf[Kind[t]] : v # "text1" => Faithful(Kind[t], v)
BY KindAssumption DEF Dependable, TypeOK, Machines, IInv, ReachableMachine, Faithful

LEMMA AllCovered ==
  ASSUME Dependable, NEW a \in ActionIds
  PROVE  Snapshotted(a) = DOMAIN Goals[a]
BY GoalTypes DEF Dependable, Snapshotted

\* A restore step of a value that had been read.
LEMMA RestoreStep ==
  ASSUME Dependable, TypeOK, IInv, AllRead, NEW t \in Targets, Restore(t)
  PROVE  /\ machine' = [machine EXCEPT ![t] = AfterRestore(Kind[t], Captive(t), machine[t])]
         /\ machine'[t] = IF UndoRecord(req.snap)[t] = Unlisted THEN machine[t]
                          ELSE UndoRecord(req.snap)[t]
         /\ req.snap \in DOMAIN snapshots /\ UNCHANGED <<buried, unnoticed>>
<1>1. /\ t \in Listed(req.snap) /\ req.snap \in DOMAIN snapshots
      /\ UNCHANGED <<snapshots, before>>
  BY RestoreOfRequest DEF TypeOK
<1>2. RestoreValue(t) \/ (Refused(t) /\ UNCHANGED <<machine, buried, unnoticed>>)
  BY DEF Restore, RestoreFails, RemovalIgnored, Dependable, history, world
<1>3. machine' = [machine EXCEPT ![t] = AfterRestore(Kind[t], Captive(t), machine[t])]
      /\ UNCHANGED <<buried, unnoticed>>
  <2>0. Refused(t) <=> RestoreRefused(Kind[t], Captive(t), machine[t])
    BY DEF Refused, AllRead
  <2>1. CASE RestoreValue(t)
    BY <2>0, <2>1 DEF RestoreValue, AfterRestore, history
  <2>2. CASE Refused(t) /\ UNCHANGED <<machine, buried, unnoticed>>
    BY <2>0, <2>2 DEF AfterRestore, TypeOK, Machines
  <2> QED BY <1>2, <2>1, <2>2
<1>4. PICK u \in Reachable(Kind[t], origin[t]) : Captive(t) = Captured(Kind[t], u, TRUE)
  BY <1>1 DEF AllRead, Captive, Listed
<1>5. UndoRecord(req.snap)[t] = UndoValue(Kind[t], Captive(t))
  BY DEF UndoRecord, Captive
<1>6. AfterRestore(Kind[t], Captive(t), machine[t]) =
        IF UndoRecord(req.snap)[t] = Unlisted THEN machine[t] ELSE UndoRecord(req.snap)[t]
  <2>1. /\ Kind[t] \in {"registry", "service", "bcd", "file_rename"} /\ origin[t] \in ValuesOf[Kind[t]]
        /\ machine[t] \in Reachable(Kind[t], origin[t])
    BY DependableTarget
  <2>2. AfterRestore(Kind[t], Captured(Kind[t], u, TRUE), machine[t]) =
          IF UndoValue(Kind[t], Captured(Kind[t], u, TRUE)) = Unlisted THEN machine[t]
          ELSE UndoValue(Kind[t], Captured(Kind[t], u, TRUE))
    BY <2>1, RestorePutsBack
  <2> QED BY <1>4, <1>5, <2>2
<1>7. machine'[t] = AfterRestore(Kind[t], Captive(t), machine[t])
  BY <1>3 DEF TypeOK, Machines
<1> QED BY <1>1, <1>3, <1>6, <1>7

\* No probe fails.
LEMMA SnapshotRead ==
  ASSUME Dependable, TypeOK, IInv, NEW a \in ActionIds, NEW unread, TakeSnapshot(a, unread)
  PROVE  unread = {} /\ ActionUnderWay'
<1>1. unread = {} /\ ~DbMayFail
  BY DEF TakeSnapshot, Dependable
<1>2. reply' = NoReply
  BY <1>1 DEF TakeSnapshot
<1>3. reply'.status # "error"
  BY <1>2 DEF NoReply, Reply
<1> QED BY <1>1, <1>3, SnapshotRequest

LEMMA AllReadNext ==
  ASSUME Dependable, TypeOK, IInv, OneRequest, AllRead, [Next]_vars
  PROVE  AllRead'
<1> USE DEF AllRead
<1>1. ASSUME UNCHANGED <<snapshots, origin, unnoticed>>, buried' = {},
             \A t \in Targets : machine'[t] # "text1" /\ before'[t] # "text1"
      PROVE  AllRead'
  BY <1>1 DEF Lists
<1>2. ASSUME NEW a \in ActionIds, NEW unread, TakeSnapshot(a, unread) PROVE AllRead'
  <2>1. unnoticed' = {} /\ unread = {} /\ before' = machine
        /\ UNCHANGED <<machine, origin, buried>>
        /\ snapshots' = Append(snapshots, Capture(a, unread))
    BY <1>2, SnapshotRead, SnapshotRequest
  <2>2. PICK n \in Nat : n = Len(snapshots) + 1
    BY DEF TypeOK
  <2>3. /\ DOMAIN snapshots' = 1 .. n /\ snapshots'[n] = Capture(a, unread)
        /\ \A i \in 1 .. n : i = n \/ (i \in DOMAIN snapshots /\ snapshots'[i] = snapshots[i])
    BY <2>1, <2>2 DEF TypeOK
  <2>4. ASSUME NEW i \in 1 .. n, NEW t \in Targets, Lists(i, t)'
        PROVE  \E v \in Reachable(Kind[t], origin[t]) : snapshots'[i][t] = Captured(Kind[t], v, TRUE)
    <3>1. CASE i = n
      <4>1. Capture(a, unread)[t] # Unlisted
        BY <2>3, <2>4, <3>1 DEF Lists
      <4>2. Capture(a, unread)[t] = Captured(Kind[t], machine[t], TRUE)
        BY <2>1, <4>1 DEF Capture
      <4>3. machine[t] \in Reachable(Kind[t], origin[t])
        BY DependableTarget
      <4> QED BY <2>3, <3>1, <4>2, <4>3
    <3>2. CASE i \in DOMAIN snapshots /\ snapshots'[i] = snapshots[i]
      BY <2>4, <3>2 DEF Lists
    <3> QED BY <2>3, <3>1, <3>2
  <2>5. \A t \in Targets : machine'[t] # "text1" /\ before'[t] # "text1"
    BY <2>1
  <2>6. \A i \in DOMAIN snapshots', t \in Targets : Lists(i, t)' =>
           \E v \in Reachable(Kind[t], origin'[t]) : snapshots'[i][t] = Captured(Kind[t], v, TRUE)
    BY <2>1, <2>3, <2>4
  <2> QED BY <2>1, <2>5, <2>6
<1>3. ASSUME NEW t \in Targets, Change(t) PROVE AllRead'
  <2>1. /\ UNCHANGED <<snapshots, before, origin, unnoticed>> /\ req.action \in ActionIds
        /\ t \in DOMAIN Goals[req.action]
    BY <1>3, ChangeOfRequest DEF OneRequest
  <2>2. \A u \in Targets : machine'[u] # "text1"
    <3> SUFFICES ASSUME NEW u \in Targets PROVE machine'[u] # "text1"
      OBVIOUS
    <3>1. Applied(Kind[t], machine[t], Goals[req.action][t]) # "text1"
      BY <2>1, AppliedNoText DEF Dependable
    <3>2. Kind[t] # "powershell"
      BY DependableTarget
    <3> HIDE DEF Applied, Skips, Swept
    <3> QED BY <1>3, <3>1, <3>2, OwnAndSwept
  <2>3. buried' = {}
    <3>1. Below(t) = {}
      BY KeyAssumption DEF Below, Dependable, Registry
    <3>2. UNCHANGED world \/ buried' = (buried \cup Below(t)) \ (Beside(t) \cup Above(t))
      BY <1>3 DEF Change, SkipChange, ApplyChange, FailChange, Write
    <3> QED BY <3>1, <3>2 DEF world
  <2> QED BY <1>1, <2>1, <2>2, <2>3
<1>4. ASSUME NEW t \in Targets, Restore(t) PROVE AllRead'
  <2>1. /\ UNCHANGED <<snapshots, before, origin, unnoticed, buried>>
    BY <1>4, RestoreOfRequest, RestoreStep
  <2>2. \A u \in Targets \ {t} : machine'[u] = machine[u]
    BY <1>4, OneTarget
  <2>3. machine'[t] # "text1"
    <3>1. req.snap \in DOMAIN snapshots /\ Lists(req.snap, t)
      BY <1>4, RestoreStep, RestoreOfRequest DEF Listed
    <3>2. PICK u \in Reachable(Kind[t], origin[t]) : snapshots[req.snap][t] = Captured(Kind[t], u, TRUE)
      BY <3>1
    <3>3. Captured(Kind[t], u, TRUE) # "text1"
      <4>1. Kind[t] \in {"registry", "service", "bcd", "file_rename"} /\ origin[t] \in ValuesOf[Kind[t]]
        BY DependableTarget
      <4> QED BY <4>1 DEF Captured, Probed, Reachable, ValuesOf, None
    <3>4. UndoRecord(req.snap)[t] # "text1"
      BY <3>2, <3>3 DEF UndoRecord, UndoValue, PutBack, Unlisted
    <3> QED BY <1>4, <3>4, RestoreStep
  <2> QED BY <1>1, <2>1, <2>2, <2>3
<1>5. ASSUME NEW a \in ActionIds, RecordManualOnly(a) \/ EndsUnchanged(a) PROVE AllRead'
  BY <1>1, <1>5 DEF RecordManualOnly, EndsUnchanged, world
<1>6. ASSUME NEW i \in DOMAIN snapshots, RequestRestore(i) PROVE AllRead'
  BY <1>1, <1>6 DEF RequestRestore, world
<1>7. CASE ShellHealth \/ StartRollback \/ FinishRestore \/ RestoreErrs \/ RecordOutcome \/ Crash
  BY <1>1, <1>7 DEF ShellHealth, StartRollback, FinishRestore, RestoreErrs, RecordOutcome, Crash,
                    history, world
<1>8. CASE UNCHANGED vars
  BY <1>1, <1>8 DEF vars
<1> QED BY <1>2, <1>3, <1>4, <1>5, <1>6, <1>7, <1>8 DEF Next, Request

LEMMA ActionUndoneNext ==
  ASSUME Dependable, TypeOK, IInv, StatusInv, AllRead, ActionUndone, [Next]_vars
  PROVE  ActionUndone'
<1> USE DEF StatusInv
<1>1. ASSUME ~ActionUnderWay' PROVE ActionUndone'
  BY <1>1 DEF ActionUndone
<1>2. ASSUME \/ \E a \in ActionIds : RecordManualOnly(a) \/ EndsUnchanged(a)
             \/ RecordOutcome \/ Crash
             \/ (FinishRestore \/ RestoreErrs) /\ req.action = RestoreRequest
      PROVE  ActionUndone'
  BY <1>1, <1>2, IdleSteps
<1>3. ASSUME NEW a \in ActionIds, NEW unread, TakeSnapshot(a, unread) PROVE ActionUndone'
  <2>1. /\ req'.phase = "apply" /\ ~req'.failed /\ req'.snap = Len(snapshots) + 1
        /\ snapshots' = Append(snapshots, Capture(a, unread))
    BY <1>3, SnapshotRequest, SnapshotRead
  <2>2. Len(snapshots') = Len(snapshots) + 1
    BY <2>1 DEF TypeOK
  <2> QED BY <2>1, <2>2 DEF ActionUndone
<1>4. ASSUME NEW i \in DOMAIN snapshots, RequestRestore(i) PROVE ActionUndone'
  BY <1>1, <1>4, RestoreRequested
<1>5. ASSUME NEW t \in Targets, Change(t) PROVE ActionUndone'
  BY <1>5, ChangeOfRequest DEF ActionUndone, AwaitsRestore
<1>6. ASSUME NEW t \in Targets, Restore(t) PROVE ActionUndone'
  <2>1. CASE ActionUnderWay
    <3>1. /\ req.phase = "restore" /\ req'.phase = "restore" /\ t \in req.todo
          /\ req'.todo = req.todo \ {t} /\ req'.action = req.action /\ req'.snap = req.snap
          /\ UNCHANGED <<before, snapshots>> /\ req.failed /\ req'.failed /\ t \in Listed(req.snap)
      BY <1>6, <2>1, RestoreOfRequest DEF OneRequest
    <3>2. \A u \in Targets \ {t} : machine'[u] = machine[u]
      BY <1>6, OneTarget
    <3>3. \A u \in Targets \ {t} : AwaitsRestore(u)' <=> AwaitsRestore(u)
      BY <3>1 DEF AwaitsRestore
    <3>4. machine'[t] = before[t]
      <4>1. /\ Captive(t) = Captured(Kind[t], before[t], TRUE) /\ t \in Snapshotted(req.action)
        <5>1. t \in Snapshotted(req.action) /\ t \notin unnoticed
          BY <2>1, <3>1 DEF SnapshotOfBefore, Listed, AllRead
        <5> QED BY <2>1, <3>1, <5>1 DEF SnapshotOfBefore, Captive, Listed
      <4>2. machine[t] \in Reachable(Kind[t], before[t])
        BY <2>1, <3>1, <4>1 DEF RestoresUndo, AwaitsRestore
      <4>3. Faithful(Kind[t], before[t]) /\ Kind[t] \in Kinds /\ before[t] \in ValuesOf[Kind[t]]
        BY DependableTarget DEF AllRead
      <4>4. AfterRestore(Kind[t], Captive(t), machine[t]) = before[t]
        BY <4>1, <4>2, <4>3, FaithfulUndoes
      <4>5. machine'[t] = AfterRestore(Kind[t], Captive(t), machine[t])
        BY <1>6, RestoreStep DEF TypeOK, Machines
      <4> QED BY <4>4, <4>5
    <3>5. req'.snap = Len(snapshots') /\ req'.phase # "record_rollback_failed"
      BY <2>1, <3>1 DEF ActionUndone
    <3>6. ASSUME NEW u \in Snapshotted(req.action), ~AwaitsRestore(u)'
          PROVE  machine'[u] = before'[u]
      <4>1. CASE u = t
        BY <3>1, <3>4, <4>1
      <4>2. CASE u # t
        BY <2>1, <3>1, <3>2, <3>3, <3>6, <4>2, GoalTypes DEF ActionUndone, Snapshotted, OneRequest
      <4> QED BY <4>1, <4>2
    <3>7. Snapshotted(req.action)' = Snapshotted(req'.action)
      BY DEF Snapshotted
    <3> QED BY <3>1, <3>5, <3>6, <3>7 DEF ActionUndone
  <2>2. CASE ~ActionUnderWay
    BY <1>1, <1>6, <2>2, RestoreOfRequest DEF ActionUnderWay
  <2> QED BY <2>1, <2>2
<1>7. ASSUME ShellHealth \/ StartRollback \/ (FinishRestore /\ req.action # RestoreRequest)
      PROVE  ActionUndone'
  <2>1. /\ ActionUnderWay /\ req'.snap = req.snap /\ req'.action = req.action
        /\ UNCHANGED <<machine, snapshots, before, unnoticed>>
    BY <1>7, PhaseSteps
  <2>2. CASE ShellHealth
    <3>1. req'.phase = "apply" \/ (req'.phase = "record" /\ ~req'.failed)
      BY <2>2 DEF ShellHealth, Applying, TypeOK, Requests
    <3> QED BY <2>1, <3>1 DEF ActionUndone, AwaitsRestore
  <2>3. CASE StartRollback
    <3>1. req'.phase = "restore" /\ req'.todo = Listed(req.snap) /\ req.action \in ActionIds
      BY <2>1, <2>3 DEF StartRollback, OneRequest, TypeOK, Requests
    <3>2. \A t \in Snapshotted(req.action) : AwaitsRestore(t)'
      BY <2>1, <3>1, GoalTypes DEF SnapshotOfBefore, Listed, AwaitsRestore, Snapshotted
    <3> QED BY <2>1, <3>1, <3>2 DEF ActionUndone
  <2>4. CASE FinishRestore /\ req.action # RestoreRequest
    <3>1. /\ req.phase = "restore" /\ req.todo = {} /\ req'.phase = "record" /\ req.failed
      BY <2>1, <2>4 DEF FinishRestore, OneRequest, TypeOK, Requests
    <3> QED BY <2>1, <3>1 DEF ActionUndone, AwaitsRestore
  <2> QED BY <1>7, <2>2, <2>3, <2>4
<1>8. CASE RestoreErrs
  BY <1>8 DEF RestoreErrs, Dependable
<1>9. CASE UNCHANGED vars
  BY <1>9 DEF vars, ActionUnderWay, Idle, ActionUndone, AwaitsRestore
<1> QED BY <1>2, <1>3, <1>4, <1>5, <1>6, <1>7, <1>8, <1>9 DEF Next, Request

LEMMA RequestUndoesNext ==
  ASSUME Dependable, TypeOK, IInv, OneRequest, AllRead, RequestUndoes, [Next]_vars
  PROVE  RequestUndoes'
<1>1. ASSUME ActionUnderWay' \/ Idle' PROVE RequestUndoes'
  BY <1>1 DEF RequestUndoes, ActionUnderWay
<1>2. ASSUME \/ \E a \in ActionIds : RecordManualOnly(a) \/ EndsUnchanged(a)
             \/ RecordOutcome \/ Crash
             \/ (FinishRestore \/ RestoreErrs) /\ req.action = RestoreRequest
      PROVE  RequestUndoes'
  BY <1>1, <1>2, IdleSteps
<1>3. ASSUME NEW a \in ActionIds, NEW unread, TakeSnapshot(a, unread) PROVE RequestUndoes'
  BY <1>1, <1>3, SnapshotRead
<1>4. ASSUME NEW i \in DOMAIN snapshots, RequestRestore(i) PROVE RequestUndoes'
  <2>1. /\ req'.snap = i /\ req'.todo = Listed(i) /\ before' = machine
        /\ UNCHANGED <<machine, snapshots>>
    BY <1>4, RestoreRequested DEF RequestRestore, world
  <2>2. \A t \in Targets : t \notin Listed(i) => UndoRecord(i)[t] = Unlisted
    BY DEF Listed, Lists, UndoRecord, UndoValue, PutBack, Unlisted, None
  <2>3. UndoRecord(i)' = UndoRecord(i)
    BY <2>1 DEF UndoRecord
  <2>4. \A t \in Targets : t \in req'.todo \/ UndoRecord(req.snap)'[t] = Unlisted
    BY <2>1, <2>2, <2>3 DEF UndoRecord
  <2> QED BY <2>1, <2>4 DEF RequestUndoes
<1>5. ASSUME NEW t \in Targets, Change(t) PROVE RequestUndoes'
  BY <1>1, <1>5, ChangeOfRequest
<1>6. ASSUME NEW t \in Targets, Restore(t) PROVE RequestUndoes'
  <2>1. CASE req.action = RestoreRequest
    <3>1. /\ ~Idle /\ t \in req.todo /\ req'.todo = req.todo \ {t} /\ req'.snap = req.snap
          /\ UNCHANGED <<before, snapshots>>
      BY <1>6, RestoreOfRequest
    <3>2. \A u \in Targets \ {t} : machine'[u] = machine[u]
      BY <1>6, OneTarget
    <3>3. UndoRecord(req.snap)' = UndoRecord(req.snap)
      BY <3>1 DEF UndoRecord
    <3>4. machine'[t] = IF UndoRecord(req.snap)[t] = Unlisted THEN machine[t]
                        ELSE UndoRecord(req.snap)[t]
      BY <1>6, RestoreStep
    <3> HIDE DEF UndoRecord
    <3> QED BY <2>1, <3>1, <3>2, <3>3, <3>4 DEF RequestUndoes
  <2>2. CASE req.action # RestoreRequest
    BY <1>1, <1>6, <2>2, RestoreOfRequest DEF ActionUnderWay
  <2> QED BY <2>1, <2>2
<1>7. ASSUME \/ ShellHealth \/ StartRollback
             \/ (FinishRestore \/ RestoreErrs) /\ req.action # RestoreRequest
      PROVE  RequestUndoes'
  BY <1>1, <1>7, PhaseSteps
<1>8. CASE UNCHANGED vars
  BY <1>8 DEF vars, Idle, RequestUndoes, UndoRecord
<1> QED BY <1>2, <1>3, <1>4, <1>5, <1>6, <1>7, <1>8 DEF Next, Request

\* What the undo record of an action that is under way says.
LEMMA RecordOfAction ==
  ASSUME Dependable, TypeOK, IInv, OneRequest, SnapshotOfBefore, AllRead, ActionUnderWay
  PROVE  UndoRecord(req.snap) =
           [t \in Targets |-> IF t \in DOMAIN Record[req.action] THEN Record[req.action][t][before[t]]
                              ELSE Unlisted]
<1>1. req.action \in ActionIds
  BY DEF OneRequest
<1>2. ASSUME NEW t \in Targets
      PROVE  UndoValue(Kind[t], snapshots[req.snap][t]) =
             IF t \in DOMAIN Record[req.action] THEN Record[req.action][t][before[t]] ELSE Unlisted
  <2>1. DOMAIN Record[req.action] = Snapshotted(req.action)
    BY <1>1 DEF Record
  <2>2. CASE t \in Snapshotted(req.action)
    <3>1. /\ Kind[t] \in {"registry", "service", "bcd", "file_rename"}
          /\ before[t] \in ValuesOf[Kind[t]] /\ before[t] # "text1"
      BY DependableTarget DEF AllRead
    <3>2. snapshots[req.snap][t] = Captured(Kind[t], before[t], TRUE)
      BY <2>2 DEF SnapshotOfBefore, AllRead
    <3>3. Record[req.action][t][before[t]] = PutBack(Kind[t], before[t])
      BY <1>1, <2>2, <3>1 DEF Record
    <3>4. UndoValue(Kind[t], Captured(Kind[t], before[t], TRUE)) = PutBack(Kind[t], before[t])
      BY <3>1, RecordedValue
    <3> QED BY <2>1, <2>2, <3>2, <3>3, <3>4
  <2>3. CASE t \notin Snapshotted(req.action)
    <3>1. snapshots[req.snap][t] = Unlisted
      BY <2>3 DEF SnapshotOfBefore, Lists
    <3> QED BY <2>1, <2>3, <3>1 DEF UndoValue, PutBack, Unlisted, None
  <2> QED BY <2>2, <2>3
<1> QED BY <1>2 DEF UndoRecord

\* The undo records are the snapshots, but for that of an action under way.
LEMMA RecordsAre ==
  ASSUME TypeOK, ActionUndone
  PROVE  /\ ~ActionUnderWay => UndoRecords = [i \in 1 .. Len(snapshots) |-> UndoRecord(i)]
         /\ ActionUnderWay => UndoRecords = [i \in 1 .. (Len(snapshots) - 1) |-> UndoRecord(i)]
<1>1. Len(snapshots) \in Nat /\ DOMAIN snapshots = 1 .. Len(snapshots)
  BY DEF TypeOK
<1>2. CASE ~ActionUnderWay
  <2>1. {j \in DOMAIN snapshots : Idle \/ req.action = RestoreRequest \/ j # req.snap}
          = 1 .. Len(snapshots)
    BY <1>1, <1>2 DEF ActionUnderWay
  <2> QED BY <1>2, <2>1 DEF UndoRecords
<1>3. CASE ActionUnderWay
  <2>1. req.snap = Len(snapshots) /\ ~Idle /\ req.action # RestoreRequest
    BY <1>3 DEF ActionUndone, ActionUnderWay
  <2>2. {j \in DOMAIN snapshots : Idle \/ req.action = RestoreRequest \/ j # req.snap}
          = {j \in 1 .. Len(snapshots) : j # Len(snapshots)}
    BY <1>1, <2>1
  <2>3. {j \in 1 .. Len(snapshots) : j # Len(snapshots)} = 1 .. (Len(snapshots) - 1)
    BY <1>1
  <2> QED BY <1>3, <2>2, <2>3 DEF UndoRecords
<1> QED BY <1>2, <1>3

\* A record is added at the end when its action ends.
LEMMA RecordAdded ==
  ASSUME NEW n \in Nat \ {0}, NEW R, NEW f \in [1 .. n -> R]
  PROVE  f = Append([i \in 1 .. (n - 1) |-> f[i]], f[n])
<1> DEFINE g == [i \in 1 .. (n - 1) |-> f[i]]
<1>1. /\ n - 1 \in Nat /\ \A i \in 1 .. (n - 1) : i \in 1 .. n
      /\ \A i \in 1 .. n : i = n \/ i \in 1 .. (n - 1)
      /\ n \in 1 .. n /\ (n - 1) + 1 = n
  OBVIOUS
<1>2. g \in Seq(R) /\ Len(g) = n - 1 /\ f[n] \in R /\ \A i \in 1 .. (n - 1) : g[i] = f[i]
  BY <1>1
<1>3. f \in Seq(R) /\ Len(f) = n
  BY <1>1
<1> HIDE DEF g
<1>4. Append(g, f[n]) \in Seq(R) /\ Len(Append(g, f[n])) = n
  BY <1>1, <1>2
<1>5. \A i \in 1 .. n : Append(g, f[n])[i] = f[i]
  BY <1>1, <1>2
<1>6. f = Append(g, f[n])
  BY <1>3, <1>4, <1>5, SeqEqual
<1> QED BY <1>6 DEF g

LEMMA SameRecords ==
  ASSUME UNCHANGED snapshots, ActionUnderWay' <=> ActionUnderWay,
         ActionUnderWay => req'.snap = req.snap
  PROVE  UndoRecords' = UndoRecords
<1>1. {j \in DOMAIN snapshots : Idle \/ req.action = RestoreRequest \/ j # req.snap}
        = {j \in DOMAIN snapshots : ~ActionUnderWay \/ j # req.snap}
  BY DEF ActionUnderWay
<1>2. {j \in DOMAIN snapshots : Idle' \/ req'.action = RestoreRequest \/ j # req'.snap}
        = {j \in DOMAIN snapshots : ~ActionUnderWay' \/ j # req'.snap}
  BY DEF ActionUnderWay
<1>3. \A i : UndoRecord(i)' = UndoRecord(i)
  BY DEF UndoRecord
<1> QED BY <1>1, <1>2, <1>3 DEF UndoRecords

LEMMA ReversibleInit == ASSUME Dependable, Init PROVE Reversible!Init /\ AtomicInv
<1>1. ~ActionUnderWay /\ Idle
  BY DEF Init, ActionUnderWay, Idle
<1>2. Visible \in Origins
  BY <1>1 DEF Init, Visible
<1>3. UndoRecords = <<>>
  <2>1. DOMAIN snapshots = {}
    BY DEF Init
  <2>2. UndoRecords = [i \in {} |-> UndoRecord(i)]
    BY <2>1 DEF UndoRecords
  <2> QED BY <2>2
<1>4. AtomicInv
  BY <1>1 DEF Init, Dependable, AtomicInv, AllRead, ActionUndone, RequestUndoes
<1> QED BY <1>2, <1>3, <1>4 DEF Reversible!Init

LEMMA AtomicNext ==
  ASSUME Dependable, TypeOK, IInv, StatusInv, AtomicInv, [Next]_vars PROVE AtomicInv'
BY AllReadNext, ActionUndoneNext, RequestUndoesNext DEF AtomicInv, StatusInv

\* An action ends: as a whole, or without a trace.
LEMMA RecordCommits ==
  ASSUME Dependable, TypeOK, IInv, StatusInv, AtomicInv, RecordOutcome
  PROVE  Reversible!Commit(req.action) \/ Reversible!Abort(req.action)
<1> USE DEF StatusInv, AtomicInv
<1>1. /\ ActionUnderWay /\ ~Idle /\ req.action \in ActionIds /\ Idle'
      /\ req.phase \in {"record", "record_rollback_failed"}
      /\ UNCHANGED <<machine, snapshots>>
  BY IdleSteps DEF RecordOutcome, OneRequest, ActionUnderWay, world
<1>2. PICK n \in Nat \ {0} : n = Len(snapshots) /\ n = req.snap /\ DOMAIN snapshots = 1 .. n
  BY <1>1 DEF ActionUndone, TypeOK
<1>3. UndoRecords = [i \in 1 .. (n - 1) |-> UndoRecord(i)]
  BY <1>1, <1>2, RecordsAre
<1>4. UndoRecords' = [i \in 1 .. n |-> UndoRecord(i)]
  <2>1. \A i : UndoRecord(i)' = UndoRecord(i)
    BY <1>1 DEF UndoRecord
  <2> QED BY <1>1, <1>2, <2>1 DEF UndoRecords
<1>5. UndoRecords' = Append(UndoRecords, UndoRecord(n))
  <2> DEFINE f == [i \in 1 .. n |-> UndoRecord(i)]
             R == {UndoRecord(i) : i \in 1 .. n}
  <2>1. f \in [1 .. n -> R] /\ f[n] = UndoRecord(n)
    BY <1>2
  <2>2. [i \in 1 .. (n - 1) |-> f[i]] = [i \in 1 .. (n - 1) |-> UndoRecord(i)]
    <3>1. \A i \in 1 .. (n - 1) : i \in 1 .. n
      BY <1>2
    <3> QED BY <3>1
  <2>3. f = UndoRecords'
    BY <1>4
  <2> HIDE DEF f, R
  <2>4. f = Append([i \in 1 .. (n - 1) |-> f[i]], f[n])
    BY <1>2, <2>1, RecordAdded
  <2> QED BY <1>3, <2>1, <2>2, <2>3, <2>4
<1>6. Visible = before /\ Visible' = machine
  BY <1>1 DEF Visible
<1>7. UndoRecord(n) =
        [t \in Targets |-> IF t \in DOMAIN Record[req.action] THEN Record[req.action][t][Visible[t]]
                           ELSE Unlisted]
  BY <1>1, <1>2, <1>6, RecordOfAction
<1>8. Reversible!Save(req.action)
  BY <1>5, <1>7 DEF Reversible!Save
<1>9. req.phase = "record"
  BY <1>1 DEF ActionUndone
<1>10. CASE req.failed
  <2> DEFINE gone == {t \in Targets \ Snapshotted(req.action) : machine[t] # before[t]}
  <2>1. \A t \in Snapshotted(req.action) : machine[t] = before[t]
    BY <1>1, <1>9, <1>10 DEF ActionUndone, AwaitsRestore
  <2>2. \A t \in gone : machine[t] = "missing" /\ \E u \in DOMAIN Effect[req.action] : t \in Swept(u)
    BY <1>1, AllCovered DEF OwnTargetsOnly, ErasedBy
  <2>3. DOMAIN Record[req.action] = Snapshotted(req.action)
    BY <1>1 DEF Record
  <2>4. gone \subseteq Reversible!Erased(req.action, DOMAIN Effect[req.action])
                        \ DOMAIN Record[req.action]
    <3>1. Reversible!Erased(req.action, DOMAIN Effect[req.action])
            = UNION {Swept(u) : u \in DOMAIN Effect[req.action]}
      BY <1>1 DEF Reversible!Erased, Erases
    <3> HIDE DEF Swept
    <3> QED BY <2>2, <2>3, <3>1
  <2>5. machine = [t \in Targets |-> IF t \in gone THEN "missing" ELSE before[t]]
    <3>1. \A t \in Targets : machine[t] = IF t \in gone THEN "missing" ELSE before[t]
      BY <2>1, <2>2
    <3> QED BY <3>1 DEF TypeOK, Machines
  <2> HIDE DEF gone
  <2> QED BY <1>6, <1>8, <2>4, <2>5 DEF Reversible!Abort
<1>11. CASE ~req.failed
  <2> DEFINE kept == {t \in DOMAIN Effect[req.action] : machine[t] = Effect[req.action][t][before[t]]}
  <2>1. /\ DOMAIN Effect[req.action] \subseteq kept \cup UNION {Swept(t) : t \in kept}
        /\ \A t \in Targets \ kept :
             machine[t] = IF t \in UNION {Swept(u) : u \in kept} THEN "missing" ELSE before[t]
    BY <1>1, <1>9, <1>11, CountsOfWhole DEF WholeAction
  <2>2. Reversible!Erased(req.action, kept) = UNION {Swept(t) : t \in kept}
    BY <1>1 DEF Reversible!Erased, Erases
  <2>3. machine = [t \in Targets |->
                     IF t \in kept THEN Effect[req.action][t][before[t]]
                     ELSE IF t \in Reversible!Erased(req.action, kept) THEN "missing" ELSE before[t]]
    <3>1. \A t \in Targets : machine[t] =
            IF t \in kept THEN Effect[req.action][t][before[t]]
            ELSE IF t \in Reversible!Erased(req.action, kept) THEN "missing" ELSE before[t]
      BY <2>1, <2>2
    <3> QED BY <3>1 DEF TypeOK, Machines
  <2>4. kept \in SUBSET DOMAIN Effect[req.action]
    OBVIOUS
  <2> HIDE DEF kept
  <2> QED BY <1>6, <1>8, <2>1, <2>2, <2>3, <2>4 DEF Reversible!Commit
<1> QED BY <1>10, <1>11

\* A rollback.restore ends.
LEMMA RestoreUndoes ==
  ASSUME TypeOK, OneRequest, AtomicInv, FinishRestore, req.action = RestoreRequest
  PROVE  req.snap \in DOMAIN UndoRecords /\ Reversible!Undo(req.snap)
<1>1. /\ ~Idle /\ Idle' /\ ~ActionUnderWay /\ ~ActionUnderWay' /\ req.todo = {}
      /\ UNCHANGED <<machine, snapshots>>
  BY IdleSteps DEF FinishRestore, ActionUnderWay, Idle, NoRequest, world
<1>2. Visible = before /\ Visible' = machine /\ UndoRecords' = UndoRecords
  BY <1>1, SameRecords DEF Visible
<1>3. req.snap \in DOMAIN snapshots
  BY <1>1 DEF TypeOK
<1>4. req.snap \in DOMAIN UndoRecords /\ UndoRecords[req.snap] = UndoRecord(req.snap)
  BY <1>1, <1>3 DEF UndoRecords, ActionUnderWay
<1>5. \A t \in Targets : machine[t] = IF UndoRecord(req.snap)[t] = Unlisted THEN before[t]
                                      ELSE UndoRecord(req.snap)[t]
  BY <1>1 DEF AtomicInv, RequestUndoes
<1>6. machine = [t \in Targets |-> IF UndoRecord(req.snap)[t] = Unlisted THEN before[t]
                                   ELSE UndoRecord(req.snap)[t]]
  BY <1>5 DEF TypeOK, Machines
<1> QED BY <1>2, <1>4, <1>6 DEF Reversible!Undo

LEMMA ReversibleStep ==
  ASSUME Dependable, TypeOK, IInv, StatusInv, AtomicInv, [Next]_vars
  PROVE  Reversible!Next \/ UNCHANGED Reversible!vars
<1>0. OneRequest
  BY DEF StatusInv
<1>1. ASSUME UNCHANGED <<before, snapshots>>, ~Idle, ~Idle', ActionUnderWay' <=> ActionUnderWay,
             req'.snap = req.snap
      PROVE  UNCHANGED Reversible!vars
  BY <1>1, SameRecords DEF Visible, Reversible!vars
<1>2. ASSUME UNCHANGED <<machine, snapshots, req>> PROVE UNCHANGED Reversible!vars \/ ~Idle
  BY <1>2, SameRecords DEF Visible, Reversible!vars, Idle, ActionUnderWay
<1>3. ASSUME NEW a \in ActionIds, RecordManualOnly(a) \/ EndsUnchanged(a)
      PROVE  UNCHANGED Reversible!vars
  BY <1>2, <1>3 DEF RecordManualOnly, EndsUnchanged, world
<1>4. ASSUME NEW a \in ActionIds, NEW unread, TakeSnapshot(a, unread)
      PROVE  UNCHANGED Reversible!vars
  <2>1. /\ Idle /\ ~Idle' /\ ActionUnderWay' /\ ~ActionUnderWay /\ before' = machine
        /\ req'.snap = Len(snapshots) + 1
        /\ snapshots' = Append(snapshots, Capture(a, unread))
    <3>1. Idle /\ ~ActionUnderWay
      BY <1>4 DEF TakeSnapshot, ActionUnderWay
    <3>2. ActionUnderWay'
      BY <1>4, SnapshotRead
    <3>3. ~Idle'
      BY <3>2 DEF ActionUnderWay
    <3>4. before' = machine /\ snapshots' = Append(snapshots, Capture(a, unread))
      BY <1>4, SnapshotRequest
    <3>5. req'.snap = Len(snapshots) + 1
      BY <1>4, <3>2, SnapshotRequest
    <3> QED BY <3>1, <3>2, <3>3, <3>4, <3>5
  <2>2. PICK n \in Nat : n = Len(snapshots)
    BY DEF TypeOK
  <2>3. /\ DOMAIN snapshots = 1 .. n /\ DOMAIN snapshots' = 1 .. (n + 1)
        /\ \A i \in 1 .. n : snapshots'[i] = snapshots[i]
    BY <2>1, <2>2 DEF TypeOK
  <2>4. {j \in DOMAIN snapshots' : Idle' \/ req'.action = RestoreRequest \/ j # req'.snap} = 1 .. n
    <3>1. {j \in 1 .. (n + 1) : j # n + 1} = 1 .. n
      BY <2>2
    <3> QED BY <2>1, <2>2, <2>3, <3>1 DEF ActionUnderWay
  <2>5. {j \in DOMAIN snapshots : Idle \/ req.action = RestoreRequest \/ j # req.snap} = 1 .. n
    BY <2>1, <2>3
  <2>6. \A i \in 1 .. n : UndoRecord(i)' = UndoRecord(i)
    BY <2>3 DEF UndoRecord
  <2>7. UndoRecords' = UndoRecords
    BY <2>4, <2>5, <2>6 DEF UndoRecords
  <2>8. Visible' = Visible
    BY <2>1 DEF Visible
  <2> QED BY <2>7, <2>8 DEF Reversible!vars
<1>5. ASSUME NEW i \in DOMAIN snapshots, RequestRestore(i) PROVE UNCHANGED Reversible!vars
  <2>1. /\ Idle /\ ~Idle' /\ ~ActionUnderWay /\ ~ActionUnderWay' /\ before' = machine
        /\ UNCHANGED snapshots
    BY <1>5, RestoreRequested DEF RequestRestore, ActionUnderWay
  <2> QED BY <2>1, SameRecords DEF Visible, Reversible!vars
<1>6. ASSUME NEW t \in Targets, Change(t) PROVE UNCHANGED Reversible!vars
  BY <1>0, <1>1, <1>6, ChangeOfRequest DEF ActionUnderWay
<1>7. ASSUME NEW t \in Targets, Restore(t) PROVE UNCHANGED Reversible!vars
  BY <1>1, <1>7, RestoreOfRequest DEF ActionUnderWay
<1>8. ASSUME \/ ShellHealth \/ StartRollback
             \/ (FinishRestore \/ RestoreErrs) /\ req.action # RestoreRequest
      PROVE  UNCHANGED Reversible!vars
  BY <1>0, <1>1, <1>8, PhaseSteps
<1>9. ASSUME FinishRestore, req.action = RestoreRequest
      PROVE  \E i \in DOMAIN UndoRecords : Reversible!Undo(i)
  BY <1>0, <1>9, RestoreUndoes
<1>10. ASSUME RecordOutcome
       PROVE  \E a \in ActionIds : Reversible!Commit(a) \/ Reversible!Abort(a)
  BY <1>0, <1>10, RecordCommits DEF RecordOutcome, OneRequest
<1>11. ~Crash /\ ~RestoreErrs
  BY DEF Crash, RestoreErrs, Dependable, TypeOK
<1>12. CASE UNCHANGED vars
  <2>1. UndoRecords' = UndoRecords
    BY <1>12, SameRecords DEF vars, ActionUnderWay, Idle
  <2>2. Visible' = Visible
    BY <1>12 DEF vars, Visible, Idle
  <2> QED BY <2>1, <2>2 DEF Reversible!vars
<1> QED BY <1>3, <1>4, <1>5, <1>6, <1>7, <1>8, <1>9, <1>10, <1>11, <1>12
        DEF Next, Request, Reversible!Next

\* Where probes, restores and the database work and the service is not killed,
\* an action takes effect as a whole, but for values that its writes to the same
\* registry key erase, or leaves nothing but what such a write erased outside the
\* action, and rollback.restore puts back what the action's targets were just
\* before it, however many actions and restores alternate: for services, boot
\* settings, file renames and registry values in keys none of which is below
\* another.
THEOREM DependableIsAtomic ==
  ASSUME Dependable
  PROVE  Spec => AllOrNothing
<1>1. Init => TypeOK /\ IInv /\ StatusInv /\ AtomicInv /\ Reversible!Init
  BY InitType, InitInv, InitStatus, ReversibleInit
<1>2. TypeOK /\ IInv /\ StatusInv /\ AtomicInv /\ [Next]_vars
        => /\ (TypeOK /\ IInv /\ StatusInv /\ AtomicInv)'
           /\ [Reversible!Next]_(Reversible!vars)
  BY NextType, NextInv, NextStatus, AtomicNext, ReversibleStep
<1> QED BY <1>1, <1>2, PTL DEF Spec, AllOrNothing, Reversible!Spec
=============================================================================

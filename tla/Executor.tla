------------------------------ MODULE Executor ------------------------------
(***************************************************************************)
(* The transaction engine of the oudenOS service: execute_action of        *)
(* src/services/os-service/src/executor.rs (capture, snapshot, apply,      *)
(* health gate, automatic rollback, record) and restore_snapshot of        *)
(* rollback.rs, which both the automatic rollback and the request          *)
(* rollback.restore run.                                                   *)
(*                                                                         *)
(* The machine is changed by one PowerShell script per change: one step of *)
(* this module is one script, or one SQL statement of the service's        *)
(* database.  The service serves one request at a time; its process may be *)
(* killed between any two steps.                                           *)
(***************************************************************************)
EXTENDS Mutations, Integers, Sequences, FiniteSets

CONSTANTS
  Targets,       \* the things the playbooks' actions change
  Kind,          \* the kind of each target
  Key,           \* the registry key of each registry value
  Inside,        \* per registry key: the keys that are somewhere below it
  Origins,       \* the machines oudenOS may be started on
  Protected,     \* targets the guards refuse to write
  ActionIds,     \* the actions
  Goals,         \* per action: its targets, each with the value it asks for
  ManualOnly,    \* actions tagged manual-only
  ReadMayFail,   \* a probe of Phase 1 may fail
  RestoreMayFail,\* a restore script may fail
  DbMayFail,     \* a statement on the service's database may fail
  MaxSnapshots,  \* bound: snapshots in the database
  MaxRestores,   \* bound: rollback.restore requests
  MaxCrashes     \* bound: kills of the service process

ASSUME KindAssumption == Kind \in [Targets -> Kinds]
Registry == {t \in Targets : Kind[t] = "registry"}
ASSUME KeyAssumption ==
  /\ Key \in [Registry -> DOMAIN Inside]
  /\ Inside \in [DOMAIN Inside -> SUBSET DOMAIN Inside]
  /\ \A key \in DOMAIN Inside :
       key \notin Inside[key] /\ \A sub \in Inside[key] : Inside[sub] \subseteq Inside[key]
Machines == {m \in [Targets -> Values] : \A t \in Targets : m[t] \in ValuesOf[Kind[t]]}
ASSUME OriginsAssumption == Origins \subseteq Machines
ASSUME ProtectedAssumption == Protected \subseteq Targets
ASSUME GoalsAssumption ==
  /\ DOMAIN Goals = ActionIds
  /\ \A a \in ActionIds :
       /\ DOMAIN Goals[a] \subseteq Targets
       /\ \A t \in DOMAIN Goals[a] : Goals[a][t] \in GoalsOf[Kind[t]]
ASSUME ManualOnlyAssumption == ManualOnly \subseteq ActionIds
ASSUME SwitchesAssumption ==
  ReadMayFail \in BOOLEAN /\ RestoreMayFail \in BOOLEAN /\ DbMayFail \in BOOLEAN
ASSUME BoundsAssumption ==
  MaxSnapshots \in Nat /\ MaxRestores \in Nat /\ MaxCrashes \in Nat
\* "rollback.restore" is a request of its own, no action.
ASSUME RestoreRequestAssumption == "rollback.restore" \notin ActionIds

RestoreRequest == "rollback.restore"
Unlisted == "unlisted"      \* no entry of the snapshot

VARIABLES
  machine,    \* the value of every target
  buried,     \* registry values whose key was deleted with the key above it
  snapshots,  \* rollback_snapshots: per snapshot, the captured value of a target
  req,        \* the request being served, see below
  reply,      \* the answer to the last request
  restores,   \* rollback.restore requests so far
  crashes,    \* kills so far
  before,     \* history: the machine when the last request began
  origin,     \* history: the machine when the service was first started
  unnoticed,  \* history: targets on which a script failed without the code
              \* noticing: a probe, or the removal of a registry value
  lost        \* history: registry values that a write to another value erased
              \* when no snapshot listed them

vars == <<machine, buried, snapshots, req, reply, restores, crashes,
          before, origin, unnoticed, lost>>
world == <<machine, buried, lost>>
history == <<before, origin, unnoticed>>

(***************************************************************************)
(* The request being served: how far it has come (phase), the action it    *)
(* executes or RestoreRequest, the snapshot it took or restores, the       *)
(* targets still to be applied or still to be restored (todo), and the     *)
(* counts of the code, as sets of targets: succeeded and skipped changes,  *)
(* restored values and those whose restore failed (bad); failed says that  *)
(* a change or the health gate failed.                                     *)
(***************************************************************************)
NoRequest == [phase |-> "idle", action |-> "none", snap |-> 0, todo |-> {},
              succeeded |-> {}, skipped |-> {}, failed |-> FALSE,
              restored |-> {}, bad |-> {}]
Idle == req = NoRequest

Reply(action, status, snap, bad) ==
  [action |-> action, status |-> status, snap |-> snap, bad |-> bad]
NoReply == Reply("none", "none", 0, {})

Lists(i, t) == snapshots[i][t] # Unlisted
Listed(i) == {t \in Targets : Lists(i, t)}

\* Mutant: a section's capture is forgotten.
SnapshottedNoRenames(a) == {t \in DOMAIN Goals[a] : Kind[t] \notin {"powershell", "file_rename"}}

\* Only what generic rollback knows of is captured.
Snapshotted(a) == {t \in DOMAIN Goals[a] : Kind[t] # "powershell"}

\* The sections of Phase 3, and the order of capture and so of restoring.
\* Within a section the order is the playbook's: any order.
ApplyOrder == <<"appx", "task", "registry", "service", "bcd", "power",
                "powershell", "file_rename">>
CaptureOrder == <<"registry", "service", "task", "appx", "bcd", "power", "file_rename">>

IsFirst(t, S, sections) ==
  /\ t \in S
  /\ \A u \in S, i \in DOMAIN sections :
       sections[i] = Kind[u] => \E j \in 1..i : sections[j] = Kind[t]

IsManualOnly(a) == a \in ManualOnly \/ DOMAIN Goals[a] = {}

\* Only these sections make the shell health gate run, and it fails for a
\* core service, one of the protected ones, that it finds disabled.
TouchesShell(a) ==
  \E t \in DOMAIN Goals[a] : Kind[t] \in {"service", "appx", "registry"}
UnhealthyShell ==
  \E t \in Protected : Kind[t] = "service" /\ machine[t] = "Disabled"

\* A registry value is written after New-Item -Force, which deletes the key that
\* is there, with the keys below it, and creates it and the keys above it anew.
Beside(t) == {u \in Registry : t \in Registry /\ Key[u] = Key[t]}
Below(t) == {u \in Registry : t \in Registry /\ Key[u] \in Inside[Key[t]]}
Above(t) == {u \in Registry : t \in Below(u)}
Swept(t) == (Beside(t) \cup Below(t)) \ {t}

Write(t, v) ==
  /\ machine' = [u \in Targets |-> IF u = t THEN v
                                   ELSE IF u \in Swept(t) THEN "missing" ELSE machine[u]]
  /\ buried' = (buried \cup Below(t)) \ (Beside(t) \cup Above(t))
  /\ lost' = lost \cup {u \in Swept(t) : machine[u] # "missing"
                                        /\ \A i \in DOMAIN snapshots : ~Lists(i, u)}

-----------------------------------------------------------------------------
(* The request begins.  An answer ends it: "error" is an Err of the code.  *)

Answer(status) ==
  /\ reply' = Reply(req.action, status, req.snap, req.bad)
  /\ req' = NoRequest

\* The outcomes of a statement on the database after which `status' is due.
OrError(status) == {status} \cup IF DbMayFail THEN {"error"} ELSE {}

\* Manual review actions are recorded, nothing else.
RecordManualOnly(a) ==
  /\ Idle /\ IsManualOnly(a)
  /\ \E status \in OrError("success") : reply' = Reply(a, status, 0, {})
  /\ before' = machine
  /\ UNCHANGED <<world, snapshots, req, restores, crashes, origin, unnoticed>>

\* No instance of a placeholder in a registry path, or the snapshot could not
\* be inserted: nothing was done yet.
EndsUnchanged(a) ==
  /\ Idle /\ ~IsManualOnly(a)
  /\ DbMayFail \/ \E t \in DOMAIN Goals[a] : Kind[t] = "registry"
  /\ reply' = Reply(a, "error", 0, {})
  /\ before' = machine
  /\ UNCHANGED <<world, snapshots, req, restores, crashes, origin, unnoticed>>

\* Phases 1 and 2: the probes of `unread' failed; the values are inserted as a
\* snapshot; the audit row after it may fail, which ends the request.
TakeSnapshot(a, unread) ==
  /\ Idle /\ ~IsManualOnly(a)
  /\ Len(snapshots) < MaxSnapshots
  /\ unread # {} => ReadMayFail
  /\ snapshots' = Append(snapshots,
       [t \in Targets |-> IF t \in Snapshotted(a)
                          THEN Captured(Kind[t], machine[t], t \notin unread)
                          ELSE Unlisted])
  /\ unnoticed' = unnoticed \cup unread
  /\ before' = machine
  /\ \/ /\ req' = [NoRequest EXCEPT !.phase = "apply", !.action = a,
                                    !.snap = Len(snapshots) + 1, !.todo = DOMAIN Goals[a]]
        /\ reply' = NoReply
     \/ DbMayFail /\ reply' = Reply(a, "error", 0, {}) /\ UNCHANGED req
  /\ UNCHANGED <<world, restores, crashes, origin>>

\* rollback.restore
RequestRestore(i) ==
  /\ Idle
  /\ restores < MaxRestores
  /\ restores' = restores + 1
  /\ req' = [NoRequest EXCEPT !.phase = "restore", !.action = RestoreRequest,
                              !.snap = i, !.todo = Listed(i)]
  /\ reply' = NoReply
  /\ before' = machine
  /\ UNCHANGED <<world, snapshots, crashes, origin, unnoticed>>

-----------------------------------------------------------------------------
(* Phase 3: the changes, section by section, up to the first failure.      *)

Applying == req.phase = "apply" /\ ~req.failed
IsNext(t) == Applying /\ IsFirst(t, req.todo, ApplyOrder)
IsSkipped(t) == Skips(Kind[t], machine[t], Goals[req.action][t], t \in Protected)
IsGuarded(t) == t \in Protected /\ Kind[t] \in Guarded

SkipChange(t) ==
  /\ IsNext(t) /\ IsSkipped(t)
  /\ req' = [req EXCEPT !.todo = @ \ {t}, !.skipped = @ \cup {t}]
  /\ UNCHANGED <<world, snapshots, reply, restores, crashes, history>>

ApplyChange(t) ==
  /\ IsNext(t) /\ ~IsSkipped(t)
  /\ Write(t, Applied(Kind[t], machine[t], Goals[req.action][t]))
  /\ req' = [req EXCEPT !.todo = @ \ {t}, !.succeeded = @ \cup {t}]
  /\ UNCHANGED <<snapshots, reply, restores, crashes, history>>

\* Mutant: a failed change is recorded without the rollback.
FailChangeOnly(t) ==
  /\ IsNext(t) /\ ~IsGuarded(t)
  /\ req' = [req EXCEPT !.failed = TRUE, !.phase = "record"]
  /\ UNCHANGED <<world, snapshots, reply, restores, crashes, history>>

\* A script of several statements that failed may have done its work, or have
\* left the key of a registry value empty.
FailChange(t) ==
  /\ IsNext(t) /\ ~IsGuarded(t)
  /\ \/ UNCHANGED world
     \/ Kind[t] = "powershell" /\ Write(t, "on")
     \/ Kind[t] = "registry" /\ Write(t, "missing")
  /\ req' = [req EXCEPT !.failed = TRUE]
  /\ UNCHANGED <<snapshots, reply, restores, crashes, history>>

\* Phase 3.5.  A gate that cannot run or is inconclusive counts as healthy.
ShellHealth ==
  /\ Applying /\ req.todo = {}
  /\ \/ req' = [req EXCEPT !.phase = "record"]
     \/ TouchesShell(req.action) /\ UnhealthyShell /\ req' = [req EXCEPT !.failed = TRUE]
  /\ UNCHANGED <<world, snapshots, reply, restores, crashes, history>>

\* Phase 5
StartRollback ==
  /\ req.phase = "apply" /\ req.failed
  /\ req' = [req EXCEPT !.phase = "restore", !.todo = Listed(req.snap)]
  /\ UNCHANGED <<world, snapshots, reply, restores, crashes, history>>

-----------------------------------------------------------------------------
(* restore_snapshot: every value, however many of them fail.               *)

IsNextRestore(t) == req.phase = "restore" /\ IsFirst(t, req.todo, CaptureOrder)
Captive(t) == snapshots[req.snap][t]
\* Set-ItemProperty creates no key.
Refused(t) ==
  RestoreRefused(Kind[t], Captive(t), machine[t]) \/ (t \in buried /\ Captive(t) # None)

RestoreValue(t) ==
  /\ IsNextRestore(t) /\ ~Refused(t)
  /\ machine' = [machine EXCEPT ![t] = Restored(Kind[t], Captive(t), @)]
  /\ req' = [req EXCEPT !.todo = @ \ {t}, !.restored = @ \cup {t}]
  /\ UNCHANGED <<buried, lost, snapshots, reply, restores, crashes, history>>

\* Mutant: the restore stops at the first failure.
RestoreStops(t) ==
  /\ IsNextRestore(t)
  /\ Refused(t) \/ (RestoreMayFail /\ Kind[t] # "appx")
  /\ req' = [req EXCEPT !.todo = {}, !.bad = @ \cup {t}]
  /\ UNCHANGED <<world, snapshots, reply, restores, crashes, history>>

RestoreFails(t) ==
  /\ IsNextRestore(t)
  /\ Refused(t) \/ (RestoreMayFail /\ Kind[t] # "appx")
  /\ req' = [req EXCEPT !.todo = @ \ {t}, !.bad = @ \cup {t}]
  /\ UNCHANGED <<world, snapshots, reply, restores, crashes, history>>

\* The removal of a registry value failed, which is only warned about.
RemovalIgnored(t) ==
  /\ IsNextRestore(t)
  /\ RestoreMayFail /\ Kind[t] = "registry" /\ Captive(t) = None
  /\ req' = [req EXCEPT !.todo = @ \ {t}, !.restored = @ \cup {t}]
  /\ unnoticed' = unnoticed \cup {t}
  /\ UNCHANGED <<world, snapshots, reply, restores, crashes, before, origin>>

RestoreStatus ==
  IF req.bad = {} THEN "success" ELSE IF req.restored = {} THEN "failed" ELSE "partial"

\* Ok, whatever the status: the executor does not look at it.
FinishRestore ==
  /\ req.phase = "restore" /\ req.todo = {}
  /\ IF req.action = RestoreRequest
     THEN Answer(RestoreStatus)
     ELSE req' = [req EXCEPT !.phase = "record"] /\ UNCHANGED reply
  /\ UNCHANGED <<world, snapshots, restores, crashes, history>>

\* The snapshot cannot be read, or the audit row at the end not written.
RestoreErrs ==
  /\ req.phase = "restore" /\ DbMayFail
  /\ req.todo \in {{}, Listed(req.snap)}
  /\ IF req.action = RestoreRequest
     THEN Answer("error")
     ELSE req' = [req EXCEPT !.phase = "record_rollback_failed"] /\ UNCHANGED reply
  /\ UNCHANGED <<world, snapshots, restores, crashes, history>>

-----------------------------------------------------------------------------
(* Phase 4, and the rows of audit_log and action_outcomes.                 *)

Status ==
  IF req.phase = "record_rollback_failed" THEN "rollback_failed"
  ELSE IF req.failed THEN "rolled_back"
  ELSE IF req.succeeded = {} /\ req.skipped # {} THEN "skipped"
  ELSE "success"

RecordOutcome ==
  /\ req.phase \in {"record", "record_rollback_failed"}
  /\ \E status \in OrError(Status) : Answer(status)
  /\ UNCHANGED <<world, snapshots, restores, crashes, history>>

\* Nothing undoes at the next start what a killed request had changed.
Crash ==
  /\ crashes < MaxCrashes
  /\ ~Idle
  /\ crashes' = crashes + 1
  /\ req' = NoRequest /\ reply' = NoReply
  /\ UNCHANGED <<world, snapshots, restores, history>>

-----------------------------------------------------------------------------
Init ==
  /\ machine \in Origins
  /\ snapshots = <<>>
  /\ req = NoRequest /\ reply = NoReply
  /\ restores = 0 /\ crashes = 0
  /\ before = machine /\ origin = machine
  /\ buried = {} /\ unnoticed = {} /\ lost = {}

Request ==
  \/ \E a \in ActionIds :
       \/ RecordManualOnly(a)
       \/ EndsUnchanged(a)
       \/ \E unread \in SUBSET {t \in DOMAIN Goals[a] : Kind[t] \in Probed} :
            TakeSnapshot(a, unread)
  \/ \E i \in DOMAIN snapshots : RequestRestore(i)

Change(t) == SkipChange(t) \/ ApplyChange(t) \/ FailChange(t)
Restore(t) == RestoreValue(t) \/ RestoreFails(t) \/ RemovalIgnored(t)

Next ==
  \/ Request
  \/ \E t \in Targets : Change(t) \/ Restore(t)
  \/ ShellHealth \/ StartRollback
  \/ FinishRestore \/ RestoreErrs
  \/ RecordOutcome
  \/ Crash

Spec == Init /\ [][Next]_vars

-----------------------------------------------------------------------------
(* Properties.                                                             *)

Phases == {"idle", "apply", "restore", "record", "record_rollback_failed"}
Statuses == {"none", "success", "skipped", "rolled_back", "rollback_failed",
             "failed", "partial", "error"}
Requests == [phase: Phases, action: ActionIds \cup {RestoreRequest, "none"}, snap: Nat,
             todo: SUBSET Targets, succeeded: SUBSET Targets, skipped: SUBSET Targets,
             failed: BOOLEAN, restored: SUBSET Targets, bad: SUBSET Targets]
Replies == [action: ActionIds \cup {RestoreRequest, "none"}, status: Statuses,
            snap: Nat, bad: SUBSET Targets]

\* The machine and the snapshots hold values of their targets' kinds, no
\* snapshot lists a PowerShell command, and the request being served
\* works on a snapshot that is in the database and on targets that are in it.
TypeOK ==
  /\ machine \in Machines /\ before \in Machines /\ origin \in Machines
  /\ snapshots \in Seq([Targets -> Values \cup {None, Unlisted}])
  /\ Len(snapshots) <= MaxSnapshots
  /\ \A i \in DOMAIN snapshots, t \in Targets :
       /\ snapshots[i][t] \in ValuesOf[Kind[t]] \cup {None, Unlisted}
       /\ Lists(i, t) => Kind[t] # "powershell"
  /\ req \in Requests /\ reply \in Replies
  /\ restores \in 0..MaxRestores /\ crashes \in 0..MaxCrashes
  /\ unnoticed \subseteq Targets /\ buried \subseteq Registry /\ lost \subseteq Registry
  /\ ~Idle => req.snap \in DOMAIN snapshots
  /\ req.phase = "apply" => /\ req.action \in ActionIds
                            /\ req.todo \subseteq DOMAIN Goals[req.action]
  /\ req.phase = "restore" => req.todo \subseteq Listed(req.snap)

Oldest(i, t) == Lists(i, t) /\ \A j \in 1..(i - 1) : ~Lists(j, t)

\* README.md:43, "Every change is snapshotted before it runs. Undo anything":
\* at every moment, between two scripts and after a kill too, a target that no
\* longer has the value it had when oudenOS was first started is listed by a
\* snapshot in the database, and restoring the oldest one that lists it brings
\* that value back, if it is one that rollback.rs can bring back, its key is
\* still there, and no probe or removal of that target failed unnoticed.
\* Not so for PowerShell commands, which are not captured, and for registry
\* values in or below the key of another one that was written before any
\* snapshot listed them.
OldestSnapshotUndoes ==
  \A t \in Targets : machine[t] # origin[t] /\ Kind[t] # "powershell" /\ t \notin lost =>
    \E i \in DOMAIN snapshots :
      /\ Oldest(i, t)
      /\ Faithful(Kind[t], origin[t]) /\ t \notin unnoticed \cup buried =>
           AfterRestore(Kind[t], snapshots[i][t], machine[t]) = origin[t]

\* The same sentence without the last exception: what an action changes is in a
\* snapshot.
EveryChangeSnapshotted ==
  \A t \in Targets : machine[t] # origin[t] /\ Kind[t] # "powershell" =>
    \E i \in DOMAIN snapshots : Lists(i, t)

\* What the guards of Phase 3 protect gets no other value through any request,
\* rollbacks included, unless its probe failed or its value is one that the
\* capture confuses with another; it can only be erased, by a write to a value
\* that is not protected in its key or in one above it.
ProtectedStaysPut ==
  \A t \in Targets :
    IsGuarded(t) /\ Faithful(Kind[t], origin[t]) /\ t \notin unnoticed =>
      \/ machine[t] = origin[t]
      \/ machine[t] = "missing" /\ \E u \in Registry \ Protected : t \in Swept(u)

\* What an action that succeeds makes of each target that it may write.
Effect ==
  [a \in ActionIds |->
     [t \in {u \in DOMAIN Goals[a] : ~IsGuarded(u)} |-> [v \in ValuesOf[Kind[t]] |->
        IF Skips(Kind[t], v, Goals[a][t], FALSE) THEN v ELSE Applied(Kind[t], v, Goals[a][t])]]]

\* "success" is said of whole actions only: every target is where the action
\* asks for, except the registry values that a later write of the action erased,
\* and what else changed was erased by such a write.  At least one value of each
\* key is therefore as asked.  "skipped" is said of actions that changed nothing.
SuccessIsWhole ==
  /\ reply.status = "success" /\ reply.action \in ActionIds =>
       LET effect == Effect[reply.action]
           own    == IF IsManualOnly(reply.action) THEN {} ELSE DOMAIN effect
           kept   == {t \in own : machine[t] = effect[t][before[t]]}
           erased == UNION {Swept(t) : t \in kept}
       IN \A t \in Targets \ kept :
            IF t \in erased THEN machine[t] = "missing"
            ELSE t \notin own /\ machine[t] = before[t]
  /\ reply.status = "skipped" => machine = before

ErasedBy(a, t) == \E u \in DOMAIN Effect[a] : t \in Swept(u)

\* Phase 5: when the automatic rollback met no failure, each target of the
\* action is as it was before, as far as a snapshot can bring it back; whatever
\* the restore does, it touches no target outside the action, and the action
\* itself can only have erased one.
RolledBackIsClean ==
  reply.status \in {"rolled_back", "rollback_failed"} =>
    \A t \in Targets :
      IF t \in DOMAIN Goals[reply.action]
      THEN reply.status = "rolled_back" /\ t \notin reply.bad
             /\ Faithful(Kind[t], before[t]) /\ t \notin unnoticed => machine[t] = before[t]
      ELSE \/ machine[t] = before[t]
           \/ machine[t] = "missing" /\ ErasedBy(reply.action, t)

\* An error says nothing of what was done: all of it is in the snapshot of the
\* request, which brings it back, but for what the action erased besides.
ErrorIsRecoverable ==
  reply.status = "error" /\ reply.action \in ActionIds =>
    \A t \in Targets : machine[t] # before[t] /\ Kind[t] # "powershell" =>
      IF t \in DOMAIN Goals[reply.action]
      THEN /\ reply.snap \in DOMAIN snapshots /\ Lists(reply.snap, t)
           /\ Faithful(Kind[t], before[t]) /\ t \notin unnoticed \cup buried =>
                AfterRestore(Kind[t], snapshots[reply.snap][t], machine[t]) = before[t]
      ELSE machine[t] = "missing" /\ ErasedBy(reply.action, t)

\* What execute.applyAction answers is what happened to the machine, in each
\* of the ways in which a request can end (Phases 4 and 5), an error after the
\* changes were made included.
StatusIsTrue == SuccessIsWhole /\ RolledBackIsClean /\ ErrorIsRecoverable

-----------------------------------------------------------------------------
(* The promise the executor keeps when no restore script and no database   *)
(* statement fails, on targets whose values a snapshot can bring back and  *)
(* registry keys of which none is below another.                           *)

\* What a restore makes of a previous value: a file is renamed back, never
\* forth.
PutBack(kind, v) == IF kind = "file_rename" /\ v = "renamed" THEN Unlisted ELSE v

Record ==
  [a \in ActionIds |-> [t \in Snapshotted(a) |-> [v \in ValuesOf[Kind[t]] |-> PutBack(Kind[t], v)]]]

Erases == [a \in ActionIds |-> [t \in DOMAIN Effect[a] |-> Swept(t)]]

\* A request shows its effect when it is answered, and an action's snapshot
\* counts as its undo record then.
Visible == IF Idle THEN machine ELSE before
UndoValue(kind, c) == IF c = None THEN "missing" ELSE PutBack(kind, c)
UndoRecord(i) == [t \in Targets |-> UndoValue(Kind[t], snapshots[i][t])]
UndoRecords ==
  [i \in {j \in DOMAIN snapshots : Idle \/ req.action = RestoreRequest \/ j # req.snap} |->
     UndoRecord(i)]

Reversible == INSTANCE ReversibleActions WITH state <- Visible, saved <- UndoRecords

\* An action takes effect as a whole or not at all, on its own targets and what
\* their writing erases, and rollback.restore undoes exactly what it recorded:
\* the executor implements ReversibleActions.
AllOrNothing == Reversible!Spec
=============================================================================

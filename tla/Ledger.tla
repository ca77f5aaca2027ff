------------------------------- MODULE Ledger -------------------------------
(***************************************************************************)
(* The DB-backed execution ledger of the oudenOS service:                  *)
(* src/services/os-service/src/ledger.rs and the handlers of ipc.rs that   *)
(* write it.  Three SQLite tables keep one plan's execution: the plan row, *)
(* one queue row per action, and an append-only event log.                 *)
(*                                                                         *)
(* The service serves one request at a time (ipc.rs, serve) but wraps no   *)
(* request in a transaction: every SQL statement commits by itself, so a   *)
(* kill of the process between two statements, or an error of the second,  *)
(* leaves the first one's effect behind.  One step is therefore one SQL    *)
(* statement: a request action executes the handler's first statement and  *)
(* leaves the statements still to run in `job', which SkipOpenRows,        *)
(* EnqueueRow and AppendEvent execute.                                     *)
(*                                                                         *)
(* Requests are those that reached ledger.rs, i.e. that the dispatcher     *)
(* could decode.  Any plan and any action may be named by a client, in any *)
(* order: the handlers check nothing more.                                 *)
(***************************************************************************)
EXTENDS Integers, Sequences, FiniteSets

CONSTANTS
  Plans,        \* plan ids a client may name
  Actions,      \* action ids a client may name
  Referenced,   \* actions whose queue row carries a provenance_ref
  Results,      \* result statuses a client may record
  Batches,      \* action lists a client may send to ledger.createPlan
  MaxLog,       \* bound: events in the log
  MaxFaults     \* bound: kills of the service process and failed statements

\* The statuses of an executor outcome (executor.rs, Phases 4 and 5) and the
\* two more spellings record_action_result knows.
ResultStatuses ==
  {"success", "completed", "failed", "skipped", "preserved",
   "partial", "rolled_back", "rollback_failed"}

ASSUME ReferencedAssumption == Referenced \subseteq Actions
ASSUME ResultsAssumption == Results \subseteq ResultStatuses
ASSUME BatchesAssumption == Batches \subseteq Seq(Actions)
ASSUME BoundsAssumption == MaxLog \in Nat /\ MaxFaults \in Nat
\* "__plan__" is the action_id of the events that concern the whole plan.
ASSUME AbsentAssumption == "absent" \notin Plans
ASSUME PlanKeyAssumption == "__plan__" \notin Actions

PlanKey == "__plan__"
Absent == "absent"          \* no such row

PlanStatuses == {"running", "paused_reboot", "completed", "cancelled"}
QueueStatuses == {"queued", "running"} \cup (ResultStatuses \ {"success"})
OpenStatuses == {"queued", "running"}

\* The types the schema lists (db.rs:178), of which record_action_result writes
\* neither "skipped" nor "preserved" (EventTypeOf), and the one of cancel_plan.
EventTypes == {"enqueued", "started", "completed", "failed", "skipped", "preserved",
               "reboot_scheduled", "resumed", "cancelled"}
Events == [plan: Plans, key: Actions \cup {PlanKey}, type: EventTypes,
           status: PlanStatuses \cup OpenStatuses \cup ResultStatuses]
NoEvent == [type |-> "none"]

VARIABLES
  plans,     \* execution_plans: plan id -> status, or Absent
  order,     \* the plan ids by created_at
  queue,     \* execution_queue: plan id -> action id -> status, or Absent
  log,       \* execution_ledger, in insertion order
  job,       \* what the request being served still has to write
  launched,  \* the process (re)started and has served no request yet
  faults,    \* kills and failed statements so far
  torn       \* history: plans a fault caught between two statements

vars == <<plans, order, queue, log, job, launched, faults, torn>>

(***************************************************************************)
(* job.skip:  cancel_plan has still to skip the open rows of job.plan;     *)
(* job.event: append_ledger_event has still to insert this event;          *)
(* job.todo:  create_plan has still to insert the rows of these actions.   *)
(***************************************************************************)
NoJob == [plan |-> Absent, skip |-> FALSE, event |-> NoEvent, todo |-> <<>>]
Idle == job = NoJob

Event(p, k, t, s) == [plan |-> p, key |-> k, type |-> t, status |-> s]

\* The request's one event is still to be written.
Then(e) == job' = [plan |-> e.plan, skip |-> FALSE, event |-> e, todo |-> <<>>]

\* serve() takes the next request only when the last one is answered.
Serve(n) ==
  /\ Idle
  /\ Len(log) + n <= MaxLog
  /\ launched' = FALSE
  /\ UNCHANGED <<faults, torn>>

SetPlan(p, s) ==
  plans' = IF plans[p] = Absent THEN plans ELSE [plans EXCEPT ![p] = s]

SetRow(p, k, s) ==
  queue' = IF queue[p][k] = Absent THEN queue
           ELSE [queue EXCEPT ![p] = [@ EXCEPT ![k] = s]]

\* Mutant: INSERT OR REPLACE.
ReplaceRow(p, k) == queue' = [queue EXCEPT ![p] = [@ EXCEPT ![k] = "queued"]]

\* INSERT OR IGNORE: an existing row keeps its status.
InsertRow(p, k) ==
  queue' = IF queue[p][k] # Absent THEN queue
           ELSE [queue EXCEPT ![p] = [@ EXCEPT ![k] = "queued"]]

\* Mutant: the row keeps the executor's spelling of the result.
QueueStatusAsGiven(r) == r

\* The queue status and the event type record_action_result derives.
QueueStatusOf(r) == IF r = "success" THEN "completed" ELSE r
EventTypeOf(r) == IF r \in {"success", "completed"} THEN "completed" ELSE "failed"

-----------------------------------------------------------------------------
(* The reads: load_active_plan, get_remaining_queue, and the flags that    *)
(* query_plan_journal_state reports to the user interface.                 *)

Remaining(p) == {k \in Actions : queue[p][k] \in OpenStatuses}

Active(p) == plans[p] \in {"running", "paused_reboot"}

\* The newest active plan: the only one journal.* requests can reach.
IsActivePlan(p) ==
  \E i \in DOMAIN order :
    /\ order[i] = p
    /\ Active(p)
    /\ \A j \in DOMAIN order : j > i => ~Active(order[j])

CanResume(p) == plans[p] = "paused_reboot" /\ Remaining(p) \cap Referenced # {}

-----------------------------------------------------------------------------
(* The requests.                                                           *)

\* ledger.createPlan: INSERT OR IGNORE of the plan row, then the rows.
CreatePlan(p, batch) ==
  /\ Serve(Len(batch))
  /\ batch # <<>>
  /\ IF plans[p] = Absent
     THEN plans' = [plans EXCEPT ![p] = "running"] /\ order' = Append(order, p)
     ELSE UNCHANGED <<plans, order>>
  /\ job' = [plan |-> p, skip |-> FALSE, event |-> NoEvent, todo |-> batch]
  /\ UNCHANGED <<queue, log>>

\* record_action_result, reached from ledger.recordResult and from both ends
\* of execute.applyAction.
RecordResult(p, k, r) ==
  /\ Serve(1)
  /\ SetRow(p, k, QueueStatusOf(r))
  /\ Then(Event(p, k, EventTypeOf(r), r))
  /\ UNCHANGED <<plans, order, log>>

\* ledger.markStarted
MarkStarted(p, k) ==
  /\ Serve(1)
  /\ SetRow(p, k, "running")
  /\ Then(Event(p, k, "started", "running"))
  /\ UNCHANGED <<plans, order, log>>

\* system.reboot with a journalContext
MarkRebootPending(p) ==
  /\ Serve(1)
  /\ SetPlan(p, "paused_reboot")
  /\ Then(Event(p, PlanKey, "reboot_scheduled", "paused_reboot"))
  /\ UNCHANGED <<order, queue, log>>

\* Mutant: resume_plan without the handler's check.
ResumeAny(p) ==
  /\ Serve(1)
  /\ SetPlan(p, "running")
  /\ Then(Event(p, PlanKey, "resumed", "running"))
  /\ UNCHANGED <<order, queue, log>>

\* journal.resume: only when the newest active plan waits for a reboot
Resume(p) ==
  /\ Serve(1)
  /\ IsActivePlan(p) /\ plans[p] = "paused_reboot"
  /\ SetPlan(p, "running")
  /\ Then(Event(p, PlanKey, "resumed", "running"))
  /\ UNCHANGED <<order, queue, log>>

\* ledger.completePlan
CompletePlan(p) ==
  /\ Serve(1)
  /\ SetPlan(p, "completed")
  /\ Then(Event(p, PlanKey, "completed", "completed"))
  /\ UNCHANGED <<order, queue, log>>

\* Mutant: the second UPDATE is forgotten.
CancelPlanRowOnly(p) ==
  /\ Serve(1)
  /\ IsActivePlan(p)
  /\ SetPlan(p, "cancelled")
  /\ Then(Event(p, PlanKey, "cancelled", "cancelled"))
  /\ UNCHANGED <<order, queue, log>>

\* journal.cancel: the plan row first, then the open rows, then the event
CancelPlan(p) ==
  /\ Serve(1)
  /\ IsActivePlan(p)
  /\ SetPlan(p, "cancelled")
  /\ job' = [plan |-> p, skip |-> TRUE,
             event |-> Event(p, PlanKey, "cancelled", "cancelled"), todo |-> <<>>]
  /\ UNCHANGED <<order, queue, log>>

-----------------------------------------------------------------------------
(* The later statements of the request being served.                       *)

\* cancel_plan's second UPDATE
SkipOpenRows ==
  /\ job.skip
  /\ queue' = [queue EXCEPT ![job.plan] =
                 [k \in Actions |-> IF @[k] \in OpenStatuses THEN "skipped" ELSE @[k]]]
  /\ job' = [job EXCEPT !.skip = FALSE]
  /\ UNCHANGED <<plans, order, log, launched, faults, torn>>

\* create_plan's next queue row: INSERT OR IGNORE, its event follows anyway
EnqueueRow ==
  /\ job.event = NoEvent /\ job.todo # <<>>
  /\ InsertRow(job.plan, Head(job.todo))
  /\ job' = [job EXCEPT !.event = Event(job.plan, Head(job.todo), "enqueued", "queued"),
                        !.todo = Tail(job.todo)]
  /\ UNCHANGED <<plans, order, log, launched, faults, torn>>

\* append_ledger_event: the foreign key refuses an event of an unknown plan,
\* and the handler returns the error.
AppendEvent ==
  /\ ~job.skip /\ job.event # NoEvent
  /\ IF plans[job.plan] # Absent
     THEN /\ log' = Append(log, job.event)
          /\ job' = IF job.todo = <<>> THEN NoJob ELSE [job EXCEPT !.event = NoEvent]
     ELSE job' = NoJob /\ UNCHANGED log
  /\ UNCHANGED <<plans, order, queue, launched, faults, torn>>

\* What a fault leaves of a request: committed statements stay, the rest is gone.
Abandon ==
  /\ faults < MaxFaults
  /\ faults' = faults + 1
  /\ job' = NoJob
  /\ torn' = torn \cup {p \in Plans : p = job.plan /\ plans[p] # Absent}
  /\ UNCHANGED <<plans, order, queue, log>>

\* A statement of the request fails, and the handler returns its error
\* (execute.applyAction logs it and answers as usual).
StatementFails == ~Idle /\ Abandon /\ UNCHANGED launched

\* The process is killed (application closed, machine restarted) and started
\* again.
Crash == Abandon /\ launched' = TRUE

-----------------------------------------------------------------------------
Init ==
  /\ plans = [p \in Plans |-> Absent]
  /\ order = <<>>
  /\ queue = [p \in Plans |-> [k \in Actions |-> Absent]]
  /\ log = <<>>
  /\ job = NoJob
  /\ launched = TRUE
  /\ faults = 0
  /\ torn = {}

PlanRequest(p) ==
  \/ \E batch \in Batches : CreatePlan(p, batch)
  \/ MarkRebootPending(p)
  \/ Resume(p)
  \/ CompletePlan(p)
  \/ CancelPlan(p)

ActionRequest(p, k) ==
  \/ MarkStarted(p, k)
  \/ \E r \in Results : RecordResult(p, k, r)

Statement == SkipOpenRows \/ EnqueueRow \/ AppendEvent \/ StatementFails

Next ==
  \/ \E p \in Plans : PlanRequest(p) \/ \E k \in Actions : ActionRequest(p, k)
  \/ Statement
  \/ Crash

Spec == Init /\ [][Next]_vars

-----------------------------------------------------------------------------
(* Properties.                                                             *)

Jobs == [plan: Plans, skip: BOOLEAN, event: Events \cup {NoEvent}, todo: Seq(Actions)]

\* Every table holds rows of its schema, and the request being served has
\* something left to write.
TypeOK ==
  /\ plans \in [Plans -> PlanStatuses \cup {Absent}]
  /\ order \in Seq(Plans)
  /\ queue \in [Plans -> [Actions -> QueueStatuses \cup {Absent}]]
  /\ log \in Seq(Events)
  /\ job \in Jobs \cup {NoJob}
  /\ ~Idle => /\ job.event = NoEvent => job.todo # <<>> /\ ~job.skip
              /\ job.event # NoEvent => job.event.plan = job.plan
  /\ launched \in BOOLEAN
  /\ faults \in 0..MaxFaults
  /\ torn \subseteq Plans

\* Reading the log l: event i is of plan p and concerns k / the whole plan.
Own(l, i, p, k) == l[i].plan = p /\ l[i].key = k
Cancels(l, i, p) == Own(l, i, p, PlanKey) /\ l[i].type = "cancelled"
Enqueues(l, i, p, k) == Own(l, i, p, k) /\ l[i].type = "enqueued"

\* Only re-enqueued since event i: an enqueued event changes no existing row.
OnlyEnqueuedSince(l, i, p, k) ==
  \A j \in DOMAIN l : j > i /\ Own(l, j, p, k) => l[j].type = "enqueued"

\* The status an event of an action says its row has.
StatusSaid(e) == QueueStatusOf(e.status)

\* Event i decides the row of action k: it is the one that inserted the row,
\* or a started, completed or failed event after that.
Decides(l, i, p, k) ==
  /\ Own(l, i, p, k)
  /\ l[i].type = "enqueued" <=> \A h \in DOMAIN l : h < i => ~Enqueues(l, h, p, k)

\* The log l accounts for the row of action k of plan p having status s: the
\* last event that decided the row says s, unless it says that the action is
\* still open and the plan was cancelled since, which skips it.
LogExplainsRow(l, p, k, s) ==
  \E i \in DOMAIN l :
    /\ Decides(l, i, p, k)
    /\ OnlyEnqueuedSince(l, i, p, k)
    /\ s = IF /\ StatusSaid(l[i]) \in OpenStatuses
              /\ \E j \in DOMAIN l : j > i /\ Cancels(l, j, p)
           THEN "skipped" ELSE StatusSaid(l[i])

\* The log accounts for the plan row having status s: it was created running
\* and has the status of the plan's last event.
LogExplainsPlan(l, p, s) ==
  \/ s = "running" /\ \A i \in DOMAIN l : ~Own(l, i, p, PlanKey)
  \/ \E i \in DOMAIN l :
       /\ Own(l, i, p, PlanKey) /\ l[i].status = s
       /\ \A j \in DOMAIN l : j > i => ~Own(l, j, p, PlanKey)

\* The event log is a faithful account of both tables: whenever no request is
\* half done, the status of every plan row and of every queue row is the one
\* the log leads to, except for the plans that a fault caught between an
\* UPDATE and its append_ledger_event.  (ledger.rs: every writer updates a
\* table and appends an event; query_ledger_entries exports the log as the
\* audit of the run.)
LogExplainsTables ==
  Idle => \A p \in Plans \ torn :
    /\ plans[p] # Absent => LogExplainsPlan(log, p, plans[p])
    /\ \A k \in Actions :
         queue[p][k] # Absent => LogExplainsRow(log, p, k, queue[p][k])

\* The tables are written ahead of the log, never behind it, faults or not: an
\* event is appended only when the row it speaks of, if there is one, already
\* is where the event says -- for an enqueued event that the row exists, for
\* a cancellation that no row of the plan is open any more.
EventConfirms(e) ==
  /\ e.key = PlanKey => plans[e.plan] = e.status
  /\ e.type = "cancelled" => Remaining(e.plan) = {}
  /\ e.key # PlanKey =>
       IF e.type = "enqueued"
       THEN queue[e.plan][e.key] # Absent
       ELSE queue[e.plan][e.key] \in {Absent, StatusSaid(e)}

TablesAheadOfLog == [][log' # log => EventConfirms(log'[Len(log')])]_vars

\* A plan that was completed or cancelled becomes active again only by a
\* scheduled reboot: re-sending ledger.createPlan does not reopen it, and no
\* resume reaches it.
FinishedPlansStayFinished ==
  [][\A p \in Plans : plans[p] \in {"completed", "cancelled"} /\ Active(p)'
        => plans'[p] = "paused_reboot"]_vars

-----------------------------------------------------------------------------
(* What the repository says and the ledger does not do.                    *)

\* journal.ts:1-4: the journal survives a crash, and the user interface reads
\* it on launch "to detect an in-progress transformation and offer to resume".
\* The code offers only plans that were paused for a reboot: a plan whose
\* process died while it was running still has open rows and is not offered.
InterruptedPlanIsOffered ==
  launched => \A p \in Plans :
    IsActivePlan(p) /\ Remaining(p) \cap Referenced # {} => CanResume(p)

=============================================================================

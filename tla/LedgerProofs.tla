---------------------------- MODULE LedgerProofs ----------------------------
(***************************************************************************)
(* Proofs about Ledger for every set of plans and actions, every log bound *)
(* and every number of faults: type correctness, and that the event log    *)
(* explains the tables (LogExplainsTables).                                *)
(***************************************************************************)
EXTENDS Ledger, TLAPS

-----------------------------------------------------------------------------
(* The inductive strengthening of LogExplainsTables.  A request half done  *)
(* is accounted for by the log it will leave: the log with the event that  *)
(* is still to be appended.                                                *)

LogToBe(p) ==
  IF job.event # NoEvent /\ job.plan = p THEN Append(log, job.event) ELSE log

\* cancel_plan's rows are explained by the old log until they are skipped.
RowLogToBe(p) == IF job.skip THEN log ELSE LogToBe(p)

\* l accounts for the plan's status st, enqueues exactly the rows there are,
\* and lr accounts for their statuses.
Accounts(l, lr, p, st, rows) ==
  /\ LogExplainsPlan(l, p, st)
  /\ \A k \in Actions :
       rows[k] # Absent <=> \E i \in DOMAIN l : Enqueues(l, i, p, k)
  /\ \A k \in Actions : rows[k] # Absent => LogExplainsRow(lr, p, k, rows[k])

\* A plan the table does not know left no trace.
UnknownPlansAreBlank ==
  \A p \in Plans : plans[p] = Absent =>
    /\ \A k \in Actions : queue[p][k] = Absent
    /\ \A i \in DOMAIN log : log[i].plan # p

JobShape ==
  /\ job.todo # <<>> => plans[job.plan] # Absent
  /\ job.skip => /\ job.event = Event(job.plan, PlanKey, "cancelled", "cancelled")
                 /\ plans[job.plan] # Absent

IInv ==
  /\ UnknownPlansAreBlank
  /\ JobShape
  /\ \A p \in Plans \ torn :
       plans[p] # Absent => Accounts(LogToBe(p), RowLogToBe(p), p, plans[p], queue[p])

-----------------------------------------------------------------------------

USE AbsentAssumption, PlanKeyAssumption
USE DEF Absent, PlanKey

-----------------------------------------------------------------------------
(* Type correctness.                                                       *)

LEMMA JobTypes ==
  /\ NoJob \notin Jobs
  /\ NoEvent \notin Events
<1>1. NoJob \notin Jobs
  BY DEF NoJob, Jobs
<1>2. NoEvent \notin Events
  BY DEF NoEvent, Events, EventTypes
<1> QED BY <1>1, <1>2

\* A request that has an event to append is a well-formed job.
EventJob(e, skip, todo) == [plan |-> e.plan, skip |-> skip, event |-> e, todo |-> todo]
HasEvent(j) == j \in Jobs /\ j # NoJob /\ j.event # NoEvent /\ j.event.plan = j.plan

LEMMA EventJobType ==
  ASSUME NEW e \in Events, NEW skip \in BOOLEAN, NEW todo \in Seq(Actions)
  PROVE  HasEvent(EventJob(e, skip, todo))
<1> DEFINE j == EventJob(e, skip, todo)
<1>1. e.plan \in Plans
  BY DEF Events
<1>2. j \in Jobs
  BY <1>1 DEF Jobs, EventJob
<1>3. j.event = e /\ j.plan = e.plan
  BY DEF EventJob
<1>4. j.event # NoEvent
  BY <1>3, JobTypes
<1>5. j # NoJob
  BY <1>2, JobTypes
<1> QED BY <1>2, <1>3, <1>4, <1>5 DEF HasEvent

LEMMA ThenType ==
  ASSUME NEW e \in Events, Then(e)
  PROVE  HasEvent(job')
<1>1. job' = EventJob(e, FALSE, <<>>)
  BY DEF Then, EventJob
<1>2. <<>> \in Seq(Actions)
  OBVIOUS
<1>3. HasEvent(EventJob(e, FALSE, <<>>))
  BY <1>2, EventJobType
<1> QED BY <1>1, <1>3

\* Every table holds rows of its schema and a request in service has
\* something left to write.
THEOREM TypeCorrect == Spec => []TypeOK
<1>1. Init => TypeOK
  BY BoundsAssumption DEF Init, TypeOK, Idle, Events
<1>2. TypeOK /\ [Next]_vars => TypeOK'
  <2> SUFFICES ASSUME TypeOK, [Next]_vars PROVE TypeOK'
    OBVIOUS
  <2> USE DEF TypeOK
  <2>1. ASSUME NEW p \in Plans, NEW batch \in Batches, CreatePlan(p, batch)
        PROVE  TypeOK'
    <3>1. batch \in Seq(Actions) /\ batch # <<>>
      BY <2>1, BatchesAssumption DEF CreatePlan
    <3>2. job' = [plan |-> p, skip |-> FALSE, event |-> NoEvent, todo |-> batch]
      BY <2>1 DEF CreatePlan
    <3>3. job' \in Jobs
      BY <3>1, <3>2 DEF Jobs
    <3>4. job' # NoJob /\ job'.event = NoEvent /\ job'.todo # <<>> /\ ~job'.skip
      BY <3>1, <3>2, <3>3, JobTypes
    <3>5. plans' \in [Plans -> PlanStatuses \cup {Absent}]
      BY <2>1 DEF CreatePlan, PlanStatuses
    <3>6. order' \in Seq(Plans)
      <4>1. Append(order, p) \in Seq(Plans)
        OBVIOUS
      <4> QED BY <2>1, <4>1 DEF CreatePlan
    <3>7. UNCHANGED <<queue, log, faults, torn>> /\ launched' \in BOOLEAN
      BY <2>1 DEF CreatePlan, Serve
    <3> QED BY <3>3, <3>4, <3>5, <3>6, <3>7 DEF Idle
  <2>2. ASSUME NEW p \in Plans, NEW s \in PlanStatuses, SetPlan(p, s)
        PROVE  plans' \in [Plans -> PlanStatuses \cup {Absent}]
    BY <2>2 DEF SetPlan
  <2>3. ASSUME NEW p \in Plans, NEW k \in Actions, NEW s \in QueueStatuses, SetRow(p, k, s)
        PROVE  queue' \in [Plans -> [Actions -> QueueStatuses \cup {Absent}]]
    BY <2>3 DEF SetRow
  <2>4. ASSUME NEW p \in Plans, MarkRebootPending(p)
        PROVE  TypeOK'
    <3>1. Event(p, PlanKey, "reboot_scheduled", "paused_reboot") \in Events
      BY DEF Event, Events, EventTypes, PlanStatuses
    <3> QED BY <2>2, <2>4, <3>1, ThenType DEF HasEvent, MarkRebootPending, Serve, Idle, PlanStatuses
  <2>5. ASSUME NEW p \in Plans, Resume(p)
        PROVE  TypeOK'
    <3>1. Event(p, PlanKey, "resumed", "running") \in Events
      BY DEF Event, Events, EventTypes, PlanStatuses
    <3> QED BY <2>2, <2>5, <3>1, ThenType DEF HasEvent, Resume, Serve, Idle, PlanStatuses
  <2>6. ASSUME NEW p \in Plans, CompletePlan(p)
        PROVE  TypeOK'
    <3>1. Event(p, PlanKey, "completed", "completed") \in Events
      BY DEF Event, Events, EventTypes, PlanStatuses
    <3> QED BY <2>2, <2>6, <3>1, ThenType DEF HasEvent, CompletePlan, Serve, Idle, PlanStatuses
  <2>7. ASSUME NEW p \in Plans, CancelPlan(p)
        PROVE  TypeOK'
    <3>1. Event(p, PlanKey, "cancelled", "cancelled") \in Events
      BY DEF Event, Events, EventTypes, PlanStatuses
    <3>2. HasEvent(job')
      <4> DEFINE e == Event(p, PlanKey, "cancelled", "cancelled")
      <4>1. job' = EventJob(e, TRUE, <<>>)
        BY <2>7 DEF CancelPlan, Event, EventJob
      <4>2. <<>> \in Seq(Actions)
        OBVIOUS
      <4>3. HasEvent(EventJob(e, TRUE, <<>>))
        BY <3>1, <4>2, EventJobType
      <4> QED BY <4>1, <4>3
    <3> QED BY <2>2, <2>7, <3>2 DEF HasEvent, CancelPlan, Serve, Idle, PlanStatuses
  <2>8. ASSUME NEW p \in Plans, NEW k \in Actions, MarkStarted(p, k)
        PROVE  TypeOK'
    <3>1. Event(p, k, "started", "running") \in Events
      BY DEF Event, Events, EventTypes, PlanStatuses
    <3> QED BY <2>3, <2>8, <3>1, ThenType DEF HasEvent, MarkStarted, Serve, Idle, QueueStatuses
  <2>9. ASSUME NEW p \in Plans, NEW k \in Actions, NEW r \in Results, RecordResult(p, k, r)
        PROVE  TypeOK'
    <3>1. r \in ResultStatuses /\ QueueStatusOf(r) \in QueueStatuses
      BY ResultsAssumption DEF QueueStatusOf, QueueStatuses, ResultStatuses
    <3>2. Event(p, k, EventTypeOf(r), r) \in Events
      BY <3>1 DEF Event, Events, EventTypes, EventTypeOf, QueueStatuses
    <3> QED BY <2>3, <2>9, <3>1, <3>2, ThenType DEF HasEvent, RecordResult, Serve, Idle
  <2>10. ASSUME SkipOpenRows
         PROVE  TypeOK'
    <3>1. job \in Jobs /\ job.event # NoEvent
      BY <2>10 DEF SkipOpenRows, Idle, NoJob
    <3>2. job' \in Jobs /\ job' # NoJob /\ job'.event = job.event /\ job'.plan = job.plan
      BY <2>10, <3>1, JobTypes DEF SkipOpenRows, Jobs
    <3>3. queue' \in [Plans -> [Actions -> QueueStatuses \cup {Absent}]]
      BY <2>10, <3>1 DEF SkipOpenRows, Jobs, QueueStatuses, ResultStatuses
    <3> QED BY <2>10, <3>1, <3>2, <3>3 DEF SkipOpenRows, Idle, NoJob
  <2>11. ASSUME EnqueueRow
         PROVE  TypeOK'
    <3>1. job \in Jobs /\ Head(job.todo) \in Actions /\ Tail(job.todo) \in Seq(Actions)
      BY <2>11 DEF EnqueueRow, NoJob, Jobs
    <3>2. Event(job.plan, Head(job.todo), "enqueued", "queued") \in Events
      BY <3>1 DEF Event, Events, EventTypes, Jobs, OpenStatuses
    <3>3. HasEvent(job')
      <4> DEFINE e == Event(job.plan, Head(job.todo), "enqueued", "queued")
      <4>1. job.event = NoEvent /\ job' = [job EXCEPT !.event = e, !.todo = Tail(job.todo)]
        BY <2>11 DEF EnqueueRow
      <4>2. job.skip = FALSE
        BY <3>1, <4>1, JobTypes DEF Idle, Jobs
      <4>3. job' = EventJob(e, FALSE, Tail(job.todo))
        BY <3>1, <4>1, <4>2 DEF Jobs, EventJob, Event
      <4>4. HasEvent(EventJob(e, FALSE, Tail(job.todo)))
        BY <3>1, <3>2, EventJobType
      <4> QED BY <4>3, <4>4
    <3>4. queue' \in [Plans -> [Actions -> QueueStatuses \cup {Absent}]]
      <4>1. job.plan \in Plans /\ "queued" \in QueueStatuses
        BY <3>1 DEF Jobs, QueueStatuses
      <4>2. InsertRow(job.plan, Head(job.todo))
        BY <2>11 DEF EnqueueRow
      <4> QED BY <3>1, <4>1, <4>2 DEF InsertRow
    <3> QED BY <2>11, <3>3, <3>4 DEF EnqueueRow, HasEvent, Idle
  <2>12. ASSUME AppendEvent
         PROVE  TypeOK'
    <3>1. job \in Jobs /\ job.event \in Events /\ ~job.skip
      BY <2>12 DEF AppendEvent, NoJob, Jobs
    <3>2. log' \in Seq(Events)
      <4>1. Append(log, job.event) \in Seq(Events)
        BY <3>1
      <4> QED BY <2>12, <4>1 DEF AppendEvent
    <3>3. job' = NoJob \/ (job' \in Jobs /\ job' # NoJob /\ job'.event = NoEvent
                            /\ job'.todo # <<>> /\ ~job'.skip)
      BY <2>12, <3>1, JobTypes DEF AppendEvent, Jobs
    <3> QED BY <2>12, <3>2, <3>3 DEF AppendEvent, Idle
  <2>13. ASSUME Crash \/ StatementFails
         PROVE  TypeOK'
    <3>1. Abandon /\ launched' \in BOOLEAN
      BY <2>13 DEF Crash, StatementFails
    <3>2. faults' \in 0..MaxFaults /\ torn' \subseteq Plans
      BY <3>1, BoundsAssumption DEF Abandon
    <3> QED BY <3>1, <3>2 DEF Abandon, Idle
  <2>14. CASE UNCHANGED vars
    BY <2>14 DEF vars, Idle
  <2> QED
    BY <2>1, <2>4, <2>5, <2>6, <2>7, <2>8, <2>9, <2>10, <2>11, <2>12, <2>13, <2>14
    DEF Next, PlanRequest, ActionRequest, Statement
<1>3. QED
  BY <1>1, <1>2, PTL DEF Spec

-----------------------------------------------------------------------------
(* How appending an event changes what a log accounts for.                 *)

LEMMA AppendFacts ==
  ASSUME NEW l \in Seq(Events), NEW e \in Events
  PROVE  /\ Append(l, e) \in Seq(Events)
         /\ DOMAIN l = 1..Len(l) /\ Len(l) \in Nat
         /\ DOMAIN Append(l, e) = 1..(Len(l) + 1)
         /\ \A i \in DOMAIN l : Append(l, e)[i] = l[i]
         /\ Append(l, e)[Len(l) + 1] = e
OBVIOUS

\* An event that is not the plan's own leaves the explanation of its status.
LEMMA PlanKept ==
  ASSUME NEW l \in Seq(Events), NEW e \in Events, NEW p \in Plans, NEW s,
         ~(e.plan = p /\ e.key = PlanKey),
         LogExplainsPlan(l, p, s)
  PROVE  LogExplainsPlan(Append(l, e), p, s)
<1> DEFINE m == Append(l, e)
<1> USE AppendFacts DEF Own
<1>1. CASE s = "running" /\ \A i \in DOMAIN l : ~Own(l, i, p, PlanKey)
  BY <1>1 DEF LogExplainsPlan
<1>2. ASSUME NEW i \in DOMAIN l, Own(l, i, p, PlanKey), l[i].status = s,
             \A j \in DOMAIN l : j > i => ~Own(l, j, p, PlanKey)
      PROVE  LogExplainsPlan(m, p, s)
  <2>1. i \in DOMAIN m /\ Own(m, i, p, PlanKey) /\ m[i].status = s
    BY <1>2
  <2>2. \A j \in DOMAIN m : j > i => ~Own(m, j, p, PlanKey)
    BY <1>2
  <2> QED BY <2>1, <2>2 DEF LogExplainsPlan
<1> QED BY <1>1, <1>2 DEF LogExplainsPlan

\* The plan's own event explains the status it states.
LEMMA PlanDecided ==
  ASSUME NEW l \in Seq(Events), NEW e \in Events, e.key = PlanKey
  PROVE  LogExplainsPlan(Append(l, e), e.plan, e.status)
<1> DEFINE m == Append(l, e)  n == Len(l) + 1
<1>1. n \in DOMAIN m /\ Own(m, n, e.plan, PlanKey) /\ m[n].status = e.status
  BY AppendFacts DEF Own
<1>2. \A j \in DOMAIN m : j > n => ~Own(m, j, e.plan, PlanKey)
  BY AppendFacts
<1> QED BY <1>1, <1>2 DEF LogExplainsPlan

\* Events that change no existing row: those of another plan, enqueued
\* events, and those of another key that do not cancel the plan.
LEMMA RowKept ==
  ASSUME NEW l \in Seq(Events), NEW e \in Events, NEW p \in Plans, NEW k \in Actions, NEW s,
         \/ e.plan # p
         \/ e.type = "enqueued"
         \/ e.key # k /\ e.type # "cancelled",
         LogExplainsRow(l, p, k, s)
  PROVE  LogExplainsRow(Append(l, e), p, k, s)
<1> DEFINE m == Append(l, e)
<1> USE AppendFacts DEF Own, Enqueues, Cancels
<1>1. PICK i \in DOMAIN l :
        /\ Decides(l, i, p, k)
        /\ OnlyEnqueuedSince(l, i, p, k)
        /\ s = IF /\ StatusSaid(l[i]) \in OpenStatuses
                  /\ \E j \in DOMAIN l : j > i /\ Cancels(l, j, p)
               THEN "skipped" ELSE StatusSaid(l[i])
  BY DEF LogExplainsRow
<1>2. i \in DOMAIN m /\ m[i] = l[i]
  OBVIOUS
<1>3. Decides(m, i, p, k)
  BY <1>1, <1>2 DEF Decides
<1>4. OnlyEnqueuedSince(m, i, p, k)
  BY <1>1 DEF OnlyEnqueuedSince
<1>5. (\E j \in DOMAIN m : j > i /\ Cancels(m, j, p))
      <=> \E j \in DOMAIN l : j > i /\ Cancels(l, j, p)
  OBVIOUS
<1> QED BY <1>1, <1>2, <1>3, <1>4, <1>5 DEF LogExplainsRow

\* A cancellation skips the open rows and changes no other.
LEMMA RowCancelled ==
  ASSUME NEW l \in Seq(Events), NEW e \in Events, NEW k \in Actions, NEW s,
         e.key = PlanKey, e.type = "cancelled",
         LogExplainsRow(l, e.plan, k, s)
  PROVE  LogExplainsRow(Append(l, e), e.plan, k, IF s \in OpenStatuses THEN "skipped" ELSE s)
<1> DEFINE m == Append(l, e)  p == e.plan  n == Len(l) + 1
<1> USE AppendFacts DEF Own, Enqueues, Cancels
<1>1. PICK i \in DOMAIN l :
        /\ Decides(l, i, p, k)
        /\ OnlyEnqueuedSince(l, i, p, k)
        /\ s = IF /\ StatusSaid(l[i]) \in OpenStatuses
                  /\ \E j \in DOMAIN l : j > i /\ Cancels(l, j, p)
               THEN "skipped" ELSE StatusSaid(l[i])
  BY DEF LogExplainsRow
<1>2. i \in DOMAIN m /\ m[i] = l[i] /\ n \in DOMAIN m /\ n > i
  OBVIOUS
<1>3. Decides(m, i, p, k)
  BY <1>1, <1>2 DEF Decides
<1>4. OnlyEnqueuedSince(m, i, p, k)
  BY <1>1 DEF OnlyEnqueuedSince
<1>5. Cancels(m, n, p)
  OBVIOUS
<1>6. (IF s \in OpenStatuses THEN "skipped" ELSE s)
        = IF StatusSaid(m[i]) \in OpenStatuses THEN "skipped" ELSE StatusSaid(m[i])
  BY <1>1, <1>2 DEF OpenStatuses
<1> QED BY <1>2, <1>3, <1>4, <1>5, <1>6 DEF LogExplainsRow

\* An explained row was enqueued.
LEMMA ExplainedIsEnqueued ==
  ASSUME NEW l, NEW p, NEW k, NEW s, LogExplainsRow(l, p, k, s)
  PROVE  \E h \in DOMAIN l : Enqueues(l, h, p, k)
BY DEF LogExplainsRow, Decides, Enqueues

\* A started, completed or failed event explains the status it states.
LEMMA RowDecided ==
  ASSUME NEW l \in Seq(Events), NEW e \in Events, e.type # "enqueued",
         NEW h \in DOMAIN l, Enqueues(l, h, e.plan, e.key)
  PROVE  LogExplainsRow(Append(l, e), e.plan, e.key, StatusSaid(e))
<1> DEFINE m == Append(l, e)  n == Len(l) + 1
<1>1. n \in DOMAIN m /\ m[n] = e /\ h \in DOMAIN m /\ h < n
  BY AppendFacts
<1>2. Decides(m, n, e.plan, e.key)
  BY <1>1, AppendFacts DEF Decides, Enqueues, Own
<1>3. OnlyEnqueuedSince(m, n, e.plan, e.key)
  BY AppendFacts DEF OnlyEnqueuedSince
<1>4. ~ \E j \in DOMAIN m : j > n
  BY AppendFacts
<1> QED BY <1>1, <1>2, <1>3, <1>4 DEF LogExplainsRow

\* The first enqueued event explains that the row is queued.
LEMMA RowQueued ==
  ASSUME NEW l \in Seq(Events), NEW e \in Events, e.type = "enqueued", e.status = "queued",
         \A h \in DOMAIN l : ~Enqueues(l, h, e.plan, e.key)
  PROVE  LogExplainsRow(Append(l, e), e.plan, e.key, "queued")
<1> DEFINE m == Append(l, e)  n == Len(l) + 1
<1>1. n \in DOMAIN m /\ m[n] = e
  BY AppendFacts
<1>2. Decides(m, n, e.plan, e.key)
  BY <1>1, AppendFacts DEF Decides, Enqueues, Own
<1>3. OnlyEnqueuedSince(m, n, e.plan, e.key)
  BY AppendFacts DEF OnlyEnqueuedSince
<1>4. ~ \E j \in DOMAIN m : j > n
  BY AppendFacts
<1>5. StatusSaid(e) = "queued"
  BY DEF StatusSaid, QueueStatusOf
<1> QED BY <1>1, <1>2, <1>3, <1>4, <1>5 DEF LogExplainsRow

\* Which rows a longer log enqueues.
LEMMA EnqueuesAppended ==
  ASSUME NEW l \in Seq(Events), NEW e \in Events, NEW p, NEW k
  PROVE  (\E i \in DOMAIN Append(l, e) : Enqueues(Append(l, e), i, p, k))
         <=> \/ \E i \in DOMAIN l : Enqueues(l, i, p, k)
             \/ e.plan = p /\ e.key = k /\ e.type = "enqueued"
BY AppendFacts DEF Enqueues, Own

-----------------------------------------------------------------------------
(* How appending an event changes what a log accounts for, all rows of a   *)
(* plan together.                                                          *)

Rows == [Actions -> QueueStatuses \cup {Absent}]

\* An event of another plan changes nothing.
LEMMA AccountsKept ==
  ASSUME NEW l \in Seq(Events), NEW e \in Events, NEW p \in Plans, NEW st, NEW rows \in Rows,
         e.plan # p, Accounts(l, l, p, st, rows)
  PROVE  Accounts(Append(l, e), Append(l, e), p, st, rows)
<1> DEFINE m == Append(l, e)
<1>1. LogExplainsPlan(m, p, st)
  BY PlanKept DEF Accounts
<1>2. ASSUME NEW k \in Actions
      PROVE  rows[k] # Absent <=> \E i \in DOMAIN m : Enqueues(m, i, p, k)
  BY EnqueuesAppended DEF Accounts
<1>3. ASSUME NEW k \in Actions, rows[k] # Absent
      PROVE  LogExplainsRow(m, p, k, rows[k])
  BY <1>3, RowKept DEF Accounts
<1> QED BY <1>1, <1>2, <1>3 DEF Accounts

\* An event of the plan that does not cancel it sets the plan's status.
LEMMA AccountsPlanEvent ==
  ASSUME NEW l \in Seq(Events), NEW e \in Events, NEW st, NEW rows \in Rows,
         e.key = PlanKey, e.type \notin {"cancelled", "enqueued"},
         Accounts(l, l, e.plan, st, rows)
  PROVE  Accounts(Append(l, e), Append(l, e), e.plan, e.status, rows)
<1> DEFINE m == Append(l, e)
<1>0. e.plan \in Plans
  BY DEF Events
<1>1. LogExplainsPlan(m, e.plan, e.status)
  BY PlanDecided
<1>2. ASSUME NEW k \in Actions
      PROVE  rows[k] # Absent <=> \E i \in DOMAIN m : Enqueues(m, i, e.plan, k)
  BY EnqueuesAppended DEF Accounts
<1>3. ASSUME NEW k \in Actions, rows[k] # Absent
      PROVE  LogExplainsRow(m, e.plan, k, rows[k])
  <2>1. LogExplainsRow(l, e.plan, k, rows[k])
    BY <1>3 DEF Accounts
  <2>2. e.key # k
    OBVIOUS
  <2> QED BY <1>0, <2>1, <2>2, RowKept
<1> QED BY <1>1, <1>2, <1>3 DEF Accounts

\* A cancellation in progress: the plan's status is set, the rows are as before.
LEMMA AccountsCancelBegun ==
  ASSUME NEW l \in Seq(Events), NEW e \in Events, NEW st, NEW rows \in Rows,
         e.key = PlanKey, e.type = "cancelled",
         Accounts(l, l, e.plan, st, rows)
  PROVE  Accounts(Append(l, e), l, e.plan, e.status, rows)
<1> DEFINE m == Append(l, e)
<1>1. LogExplainsPlan(m, e.plan, e.status)
  BY PlanDecided
<1>2. ASSUME NEW k \in Actions
      PROVE  rows[k] # Absent <=> \E i \in DOMAIN m : Enqueues(m, i, e.plan, k)
  BY EnqueuesAppended DEF Accounts
<1> QED BY <1>1, <1>2 DEF Accounts

\* The cancellation's second UPDATE: every open row is skipped.
Skipped(rows) == [k \in Actions |-> IF rows[k] \in OpenStatuses THEN "skipped" ELSE rows[k]]

LEMMA AccountsCancelDone ==
  ASSUME NEW l \in Seq(Events), NEW e \in Events, NEW st, NEW rows \in Rows,
         e.key = PlanKey, e.type = "cancelled",
         Accounts(Append(l, e), l, e.plan, st, rows)
  PROVE  Accounts(Append(l, e), Append(l, e), e.plan, st, Skipped(rows))
<1> DEFINE m == Append(l, e)
<1>0. e.plan \in Plans
  BY DEF Events
<1>1. LogExplainsPlan(m, e.plan, st)
  BY DEF Accounts
<1>2. ASSUME NEW k \in Actions
      PROVE  Skipped(rows)[k] # Absent <=> \E i \in DOMAIN m : Enqueues(m, i, e.plan, k)
  BY DEF Accounts, Skipped, OpenStatuses
<1>3. ASSUME NEW k \in Actions, Skipped(rows)[k] # Absent
      PROVE  LogExplainsRow(m, e.plan, k, Skipped(rows)[k])
  <2>1. LogExplainsRow(l, e.plan, k, rows[k])
    BY <1>3 DEF Accounts, Skipped, OpenStatuses
  <2> QED BY <2>1, RowCancelled DEF Skipped
<1> QED BY <1>1, <1>2, <1>3 DEF Accounts

\* UPDATE of one row, and the event that states its new status.
Updated(rows, k, s) == IF rows[k] = Absent THEN rows ELSE [rows EXCEPT ![k] = s]

LEMMA AccountsRowEvent ==
  ASSUME NEW l \in Seq(Events), NEW e \in Events, NEW st, NEW rows \in Rows,
         e.key \in Actions, e.type \notin {"cancelled", "enqueued"},
         StatusSaid(e) # Absent,
         Accounts(l, l, e.plan, st, rows)
  PROVE  Accounts(Append(l, e), Append(l, e), e.plan, st, Updated(rows, e.key, StatusSaid(e)))
<1> DEFINE m == Append(l, e)  new == Updated(rows, e.key, StatusSaid(e))
<1>0. e.plan \in Plans /\ e.key # PlanKey
  BY DEF Events
<1>1. LogExplainsPlan(m, e.plan, st)
  BY <1>0, PlanKept DEF Accounts
<1>2. \A k \in Actions : new[k] # Absent <=> rows[k] # Absent
  BY DEF Updated, Rows
<1>3. ASSUME NEW k \in Actions
      PROVE  new[k] # Absent <=> \E i \in DOMAIN m : Enqueues(m, i, e.plan, k)
  BY <1>2, EnqueuesAppended DEF Accounts
<1>4. ASSUME NEW k \in Actions, new[k] # Absent
      PROVE  LogExplainsRow(m, e.plan, k, new[k])
  <2>1. rows[k] # Absent /\ LogExplainsRow(l, e.plan, k, rows[k])
    BY <1>2, <1>4 DEF Accounts
  <2>2. CASE k = e.key
    <3>1. new[k] = StatusSaid(e)
      BY <2>1, <2>2 DEF Updated, Rows
    <3>2. PICK h \in DOMAIN l : Enqueues(l, h, e.plan, e.key)
      BY <2>1, <2>2, ExplainedIsEnqueued
    <3>3. LogExplainsRow(m, e.plan, e.key, StatusSaid(e))
      BY <3>2, RowDecided
    <3> QED BY <2>2, <3>1, <3>3
  <2>3. CASE k # e.key
    <3>1. new[k] = rows[k]
      BY <2>3 DEF Updated, Rows
    <3>2. LogExplainsRow(m, e.plan, k, rows[k])
      BY <1>0, <2>1, <2>3, RowKept
    <3> QED BY <3>1, <3>2
  <2> QED BY <2>2, <2>3
<1> QED BY <1>1, <1>3, <1>4 DEF Accounts

\* INSERT OR IGNORE of one row, and its enqueued event.
Inserted(rows, k) == IF rows[k] # Absent THEN rows ELSE [rows EXCEPT ![k] = "queued"]

LEMMA AccountsEnqueued ==
  ASSUME NEW l \in Seq(Events), NEW e \in Events, NEW st, NEW rows \in Rows,
         e.key \in Actions, e.type = "enqueued", e.status = "queued",
         Accounts(l, l, e.plan, st, rows)
  PROVE  Accounts(Append(l, e), Append(l, e), e.plan, st, Inserted(rows, e.key))
<1> DEFINE m == Append(l, e)  new == Inserted(rows, e.key)
<1>0. e.plan \in Plans /\ e.key # PlanKey
  BY DEF Events
<1>1. LogExplainsPlan(m, e.plan, st)
  BY <1>0, PlanKept DEF Accounts
<1>2. \A k \in Actions : new[k] # Absent <=> rows[k] # Absent \/ k = e.key
  BY DEF Inserted, Rows
<1>3. ASSUME NEW k \in Actions
      PROVE  new[k] # Absent <=> \E i \in DOMAIN m : Enqueues(m, i, e.plan, k)
  BY <1>2, EnqueuesAppended DEF Accounts
<1>4. ASSUME NEW k \in Actions, new[k] # Absent
      PROVE  LogExplainsRow(m, e.plan, k, new[k])
  <2>1. CASE rows[k] # Absent
    <3>1. new[k] = rows[k] /\ LogExplainsRow(l, e.plan, k, rows[k])
      BY <2>1 DEF Accounts, Inserted, Rows
    <3> QED BY <1>0, <3>1, RowKept
  <2>2. CASE rows[k] = Absent
    <3>1. k = e.key /\ new[k] = "queued"
      BY <1>2, <1>4, <2>2 DEF Inserted, Rows
    <3>2. \A h \in DOMAIN l : ~Enqueues(l, h, e.plan, e.key)
      BY <2>2, <3>1 DEF Accounts
    <3>3. LogExplainsRow(m, e.plan, e.key, "queued")
      BY <3>2, RowQueued
    <3> QED BY <3>1, <3>3
  <2> QED BY <2>1, <2>2
<1> QED BY <1>1, <1>3, <1>4 DEF Accounts

\* A plan without rows and without events is accounted for when it is created.
LEMMA AccountsCreated ==
  ASSUME NEW l \in Seq(Events), NEW p \in Plans, NEW rows \in Rows,
         \A k \in Actions : rows[k] = Absent,
         \A i \in DOMAIN l : l[i].plan # p
  PROVE  Accounts(l, l, p, "running", rows)
BY DEF Accounts, LogExplainsPlan, Enqueues, Own

-----------------------------------------------------------------------------
(* The invariant.                                                          *)

LEMMA IdleAccounts ==
  ASSUME TypeOK, IInv, Idle, NEW p \in Plans \ torn, plans[p] # Absent
  PROVE  Accounts(log, log, p, plans[p], queue[p])
<1>1. job.event = NoEvent /\ ~job.skip
  BY DEF Idle, NoJob
<1>2. LogToBe(p) = log /\ RowLogToBe(p) = log
  BY <1>1 DEF LogToBe, RowLogToBe
<1> QED BY <1>2 DEF IInv

\* A handler whose first statement touches only the plan of its event, and
\* whose event accounts for what the statement wrote, keeps the invariant.
LEMMA OneEventHandler ==
  ASSUME TypeOK, IInv, Idle, NEW e \in Events, NEW skip \in BOOLEAN,
         log' = log, torn' = torn,
         job' = EventJob(e, skip, <<>>),
         skip => e = Event(e.plan, PlanKey, "cancelled", "cancelled") /\ plans[e.plan] # Absent,
         \A q \in Plans : plans'[q] = Absent <=> plans[q] = Absent,
         \A q \in Plans : q # e.plan \/ plans[q] = Absent
                           => plans'[q] = plans[q] /\ queue'[q] = queue[q],
         e.plan \notin torn /\ plans[e.plan] # Absent =>
           Accounts(Append(log, e), IF skip THEN log ELSE Append(log, e),
                    e.plan, plans'[e.plan], queue'[e.plan])
  PROVE  IInv'
<1>0. e.plan \in Plans /\ e # NoEvent
  BY JobTypes DEF Events
<1>1. /\ job'.plan = e.plan /\ job'.event = e
      /\ job'.skip = skip /\ job'.todo = <<>>
  BY DEF EventJob
<1>2. UnknownPlansAreBlank'
  <2> SUFFICES ASSUME NEW p \in Plans, plans'[p] = Absent
               PROVE  /\ \A k \in Actions : queue'[p][k] = Absent
                      /\ \A i \in DOMAIN log' : log'[i].plan # p
    BY DEF UnknownPlansAreBlank
  <2>1. plans[p] = Absent
    OBVIOUS
  <2>2. queue'[p] = queue[p]
    BY <2>1
  <2> QED BY <2>1, <2>2 DEF IInv, UnknownPlansAreBlank
<1>3. JobShape'
  <2>1. skip => e = Event(e.plan, PlanKey, "cancelled", "cancelled") /\ plans'[e.plan] # Absent
    BY <1>0
  <2> QED BY <1>1, <2>1 DEF JobShape
<1>4. ASSUME NEW q \in Plans, q \notin torn', plans'[q] # Absent
      PROVE  Accounts(LogToBe(q)', RowLogToBe(q)', q, plans'[q], queue'[q])
  <2>1. CASE q = e.plan
    <3>1. LogToBe(q)' = Append(log, e)
          /\ RowLogToBe(q)' = IF skip THEN log ELSE Append(log, e)
      BY <1>0, <1>1, <2>1 DEF LogToBe, RowLogToBe
    <3> QED BY <1>4, <2>1, <3>1
  <2>2. CASE q # e.plan
    <3>1. LogToBe(q)' = log /\ RowLogToBe(q)' = log
      BY <1>1, <2>2 DEF LogToBe, RowLogToBe
    <3>2. Accounts(log, log, q, plans[q], queue[q])
      BY <1>4, IdleAccounts
    <3> QED BY <1>4, <2>2, <3>1, <3>2
  <2> QED BY <2>1, <2>2
<1> QED BY <1>2, <1>3, <1>4 DEF IInv

\* The plan's status and the pending event state the same thing.
LEMMA PlanHandler ==
  ASSUME TypeOK, IInv, Idle, NEW e \in Events,
         e.key = PlanKey, e.type \notin {"cancelled", "enqueued"},
         e.status # Absent,
         SetPlan(e.plan, e.status), Then(e), UNCHANGED <<queue, log, torn>>
  PROVE  IInv'
<1>0. e.plan \in Plans
  BY DEF Events
<1>1. job' = EventJob(e, FALSE, <<>>)
  BY DEF Then, EventJob
<1>2. \A q \in Plans : plans'[q] = Absent <=> plans[q] = Absent
  BY <1>0 DEF SetPlan, TypeOK
<1>3. \A q \in Plans : q # e.plan \/ plans[q] = Absent
                        => plans'[q] = plans[q] /\ queue'[q] = queue[q]
  BY <1>0 DEF SetPlan, TypeOK
<1>4. ASSUME e.plan \notin torn, plans[e.plan] # Absent
      PROVE  Accounts(Append(log, e), Append(log, e), e.plan, plans'[e.plan], queue'[e.plan])
  <2>1. Accounts(log, log, e.plan, plans[e.plan], queue[e.plan])
    BY <1>0, <1>4, IdleAccounts
  <2>2. log \in Seq(Events) /\ queue[e.plan] \in Rows
    BY <1>0 DEF TypeOK, Rows
  <2>3. Accounts(Append(log, e), Append(log, e), e.plan, e.status, queue[e.plan])
    BY <2>1, <2>2, AccountsPlanEvent
  <2>4. plans'[e.plan] = e.status
    BY <1>0, <1>4 DEF SetPlan, TypeOK
  <2> QED BY <2>3, <2>4
<1> QED BY <1>1, <1>2, <1>3, <1>4, OneEventHandler

\* The row's status and the pending event state the same thing.
LEMMA RowHandler ==
  ASSUME TypeOK, IInv, Idle, NEW e \in Events,
         e.key \in Actions, e.type \notin {"cancelled", "enqueued"},
         StatusSaid(e) # Absent,
         SetRow(e.plan, e.key, StatusSaid(e)), Then(e), UNCHANGED <<plans, log, torn>>
  PROVE  IInv'
<1>0. e.plan \in Plans
  BY DEF Events
<1>1. job' = EventJob(e, FALSE, <<>>)
  BY DEF Then, EventJob
<1>2. queue' = IF queue[e.plan][e.key] = Absent THEN queue
               ELSE [queue EXCEPT ![e.plan] = [queue[e.plan] EXCEPT ![e.key] = StatusSaid(e)]]
  BY DEF SetRow
<1>3. \A q \in Plans : q # e.plan \/ plans[q] = Absent
                        => plans'[q] = plans[q] /\ queue'[q] = queue[q]
  BY <1>0, <1>2 DEF TypeOK, IInv, UnknownPlansAreBlank
<1>4. ASSUME e.plan \notin torn, plans[e.plan] # Absent
      PROVE  Accounts(Append(log, e), Append(log, e), e.plan, plans'[e.plan], queue'[e.plan])
  <2>1. Accounts(log, log, e.plan, plans[e.plan], queue[e.plan])
    BY <1>0, <1>4, IdleAccounts
  <2>2. log \in Seq(Events) /\ queue[e.plan] \in Rows
    BY <1>0 DEF TypeOK, Rows
  <2>3. Accounts(Append(log, e), Append(log, e), e.plan, plans[e.plan],
                 Updated(queue[e.plan], e.key, StatusSaid(e)))
    BY <2>1, <2>2, AccountsRowEvent
  <2>4. queue'[e.plan] = Updated(queue[e.plan], e.key, StatusSaid(e))
    BY <1>0, <1>2 DEF Updated, TypeOK
  <2> QED BY <2>3, <2>4
<1> QED BY <1>1, <1>3, <1>4, OneEventHandler

LEMMA Inductive == TypeOK /\ IInv /\ [Next]_vars => IInv'
<1> SUFFICES ASSUME TypeOK, IInv, [Next]_vars PROVE IInv'
  OBVIOUS
<1>1. ASSUME NEW p \in Plans, NEW batch \in Batches, CreatePlan(p, batch)
      PROVE  IInv'
  <2>1. Idle /\ UNCHANGED <<queue, log, torn>>
    BY <1>1 DEF CreatePlan, Serve
  <2>2. /\ job'.plan = p /\ job'.event = NoEvent /\ ~job'.skip
    BY <1>1 DEF CreatePlan
  <2>3. /\ plans'[p] # Absent
        /\ plans'[p] = IF plans[p] = Absent THEN "running" ELSE plans[p]
        /\ \A q \in Plans : q # p => plans'[q] = plans[q]
    BY <1>1 DEF CreatePlan, TypeOK
  <2>4. UnknownPlansAreBlank'
    BY <2>1, <2>3 DEF IInv, UnknownPlansAreBlank
  <2>5. JobShape'
    BY <2>2, <2>3 DEF JobShape
  <2>6. ASSUME NEW q \in Plans, q \notin torn', plans'[q] # Absent
        PROVE  Accounts(LogToBe(q)', RowLogToBe(q)', q, plans'[q], queue'[q])
    <3>1. LogToBe(q)' = log /\ RowLogToBe(q)' = log
      BY <2>1, <2>2 DEF LogToBe, RowLogToBe
    <3>2. CASE plans[q] # Absent
      <4>1. Accounts(log, log, q, plans[q], queue[q])
        BY <2>1, <2>6, <3>2, IdleAccounts
      <4>2. plans'[q] = plans[q]
        BY <2>3, <3>2
      <4> QED BY <2>1, <3>1, <4>1, <4>2
    <3>3. CASE plans[q] = Absent
      <4>1. q = p /\ plans'[q] = "running"
        BY <2>3, <2>6, <3>3
      <4>2. log \in Seq(Events) /\ queue[q] \in Rows
        BY DEF TypeOK, Rows
      <4>3. Accounts(log, log, q, "running", queue[q])
        BY <3>3, <4>2, AccountsCreated DEF IInv, UnknownPlansAreBlank
      <4> QED BY <2>1, <3>1, <4>1, <4>3
    <3> QED BY <3>2, <3>3
  <2> QED BY <2>4, <2>5, <2>6 DEF IInv
<1>2. ASSUME NEW p \in Plans, MarkRebootPending(p)
      PROVE  IInv'
  <2> DEFINE e == Event(p, PlanKey, "reboot_scheduled", "paused_reboot")
  <2>1. e \in Events
    BY DEF Event, Events, EventTypes, PlanStatuses
  <2>2. Idle /\ SetPlan(e.plan, e.status) /\ Then(e) /\ UNCHANGED <<queue, log, torn>>
    BY <1>2 DEF MarkRebootPending, Serve, Event
  <2>3. e.key = PlanKey /\ e.type \notin {"cancelled", "enqueued"} /\ e.status # Absent
    BY DEF Event
  <2> QED BY <2>1, <2>2, <2>3, PlanHandler
<1>3. ASSUME NEW p \in Plans, Resume(p)
      PROVE  IInv'
  <2> DEFINE e == Event(p, PlanKey, "resumed", "running")
  <2>1. e \in Events
    BY DEF Event, Events, EventTypes, PlanStatuses
  <2>2. Idle /\ SetPlan(e.plan, e.status) /\ Then(e) /\ UNCHANGED <<queue, log, torn>>
    BY <1>3 DEF Resume, Serve, Event
  <2>3. e.key = PlanKey /\ e.type \notin {"cancelled", "enqueued"} /\ e.status # Absent
    BY DEF Event
  <2> QED BY <2>1, <2>2, <2>3, PlanHandler
<1>4. ASSUME NEW p \in Plans, CompletePlan(p)
      PROVE  IInv'
  <2> DEFINE e == Event(p, PlanKey, "completed", "completed")
  <2>1. e \in Events
    BY DEF Event, Events, EventTypes, PlanStatuses
  <2>2. Idle /\ SetPlan(e.plan, e.status) /\ Then(e) /\ UNCHANGED <<queue, log, torn>>
    BY <1>4 DEF CompletePlan, Serve, Event
  <2>3. e.key = PlanKey /\ e.type \notin {"cancelled", "enqueued"} /\ e.status # Absent
    BY DEF Event
  <2> QED BY <2>1, <2>2, <2>3, PlanHandler
<1>5. ASSUME NEW p \in Plans, CancelPlan(p)
      PROVE  IInv'
  <2> DEFINE e == Event(p, PlanKey, "cancelled", "cancelled")
  <2>1. e \in Events
    BY DEF Event, Events, EventTypes, PlanStatuses
  <2>2. e.plan = p /\ e.key = PlanKey /\ e.type = "cancelled" /\ e.status = "cancelled"
    BY DEF Event
  <2>3. Idle /\ UNCHANGED <<queue, log, torn>> /\ SetPlan(p, "cancelled") /\ plans[p] # Absent
    BY <1>5 DEF CancelPlan, Serve, IsActivePlan, Active
  <2>4. job' = EventJob(e, TRUE, <<>>)
    BY <1>5 DEF CancelPlan, EventJob, Event
  <2>5. plans'[p] = "cancelled" /\ \A q \in Plans : q # p => plans'[q] = plans[q]
    BY <2>3 DEF SetPlan, TypeOK
  <2>6. \A q \in Plans : plans'[q] = Absent <=> plans[q] = Absent
    BY <2>3, <2>5
  <2>8. \A q \in Plans : q # e.plan \/ plans[q] = Absent
                          => plans'[q] = plans[q] /\ queue'[q] = queue[q]
    BY <2>2, <2>3, <2>5
  <2>7. ASSUME p \notin torn
        PROVE  Accounts(Append(log, e), log, p, plans'[p], queue'[p])
    <3>1. Accounts(log, log, p, plans[p], queue[p])
      BY <2>3, <2>7, IdleAccounts
    <3>2. log \in Seq(Events) /\ queue[p] \in Rows
      BY DEF TypeOK, Rows
    <3>3. Accounts(Append(log, e), log, p, e.status, queue[p])
      BY <2>1, <2>2, <3>1, <3>2, AccountsCancelBegun
    <3> QED BY <2>2, <2>3, <2>5, <3>3
  <2> HIDE DEF e
  <2> QED
    <3>1. e = Event(e.plan, PlanKey, "cancelled", "cancelled") /\ plans[e.plan] # Absent
      BY <2>2, <2>3 DEF e
    <3>2. log' = log /\ torn' = torn
      BY <2>3
    <3> QED BY <2>1, <2>2, <2>3, <2>4, <2>6, <2>7, <2>8, <3>1, <3>2, OneEventHandler
<1>6. ASSUME NEW p \in Plans, NEW k \in Actions, MarkStarted(p, k)
      PROVE  IInv'
  <2> DEFINE e == Event(p, k, "started", "running")
  <2>1. e \in Events
    BY DEF Event, Events, EventTypes, PlanStatuses
  <2>2. e.key \in Actions /\ e.type \notin {"cancelled", "enqueued"}
        /\ StatusSaid(e) = "running"
    BY DEF Event, StatusSaid, QueueStatusOf
  <2>3. Idle /\ SetRow(e.plan, e.key, "running") /\ Then(e) /\ UNCHANGED <<plans, log, torn>>
    BY <1>6 DEF MarkStarted, Serve, Event
  <2> QED BY <2>1, <2>2, <2>3, RowHandler
<1>7. ASSUME NEW p \in Plans, NEW k \in Actions, NEW r \in Results, RecordResult(p, k, r)
      PROVE  IInv'
  <2> DEFINE e == Event(p, k, EventTypeOf(r), r)
  <2>1. r \in ResultStatuses
    BY ResultsAssumption
  <2>2. e \in Events
    BY <2>1 DEF Event, Events, EventTypes, EventTypeOf, QueueStatuses
  <2>3. e.key \in Actions /\ e.type \notin {"cancelled", "enqueued"}
    BY DEF Event, EventTypeOf
  <2>4. StatusSaid(e) = QueueStatusOf(r) /\ StatusSaid(e) # Absent
    BY <2>1 DEF Event, StatusSaid, QueueStatusOf, ResultStatuses
  <2>5. Idle /\ SetRow(e.plan, e.key, QueueStatusOf(r)) /\ Then(e)
        /\ UNCHANGED <<plans, log, torn>>
    BY <1>7 DEF RecordResult, Serve, Event
  <2> QED BY <2>2, <2>3, <2>4, <2>5, RowHandler
<1>8. ASSUME SkipOpenRows
      PROVE  IInv'
  <2> DEFINE p == job.plan
  <2>1. job \in Jobs /\ p \in Plans /\ job.event \in Events
    BY <1>8, JobTypes DEF SkipOpenRows, TypeOK, Idle, NoJob, Jobs
  <2>2. /\ job.event = Event(p, PlanKey, "cancelled", "cancelled") /\ plans[p] # Absent
    BY <1>8 DEF SkipOpenRows, IInv, JobShape
  <2>3. job'.plan = p /\ job'.event = job.event /\ ~job'.skip /\ job'.todo = job.todo
    BY <1>8, <2>1 DEF SkipOpenRows, Jobs
  <2>4. /\ queue'[p] = Skipped(queue[p])
        /\ \A q \in Plans : q # p => queue'[q] = queue[q]
    BY <1>8, <2>1 DEF SkipOpenRows, Skipped, TypeOK
  <2>5. UNCHANGED <<plans, log, torn>>
    BY <1>8 DEF SkipOpenRows
  <2>6. UnknownPlansAreBlank'
    BY <2>1, <2>2, <2>4, <2>5 DEF IInv, UnknownPlansAreBlank
  <2>7. JobShape'
    BY <2>2, <2>3, <2>5 DEF JobShape
  <2>8. ASSUME NEW q \in Plans, q \notin torn', plans'[q] # Absent
        PROVE  Accounts(LogToBe(q)', RowLogToBe(q)', q, plans'[q], queue'[q])
    <3>1. Accounts(LogToBe(q), RowLogToBe(q), q, plans[q], queue[q])
      BY <2>5, <2>8 DEF IInv
    <3>2. job.event # NoEvent
      BY <2>1, JobTypes
    <3>3. CASE q = p
      <4>1. LogToBe(q) = Append(log, job.event) /\ RowLogToBe(q) = log
        BY <1>8, <3>2, <3>3 DEF LogToBe, RowLogToBe, SkipOpenRows
      <4>2. LogToBe(q)' = Append(log, job.event) /\ RowLogToBe(q)' = Append(log, job.event)
        BY <2>3, <2>5, <3>2, <3>3 DEF LogToBe, RowLogToBe
      <4>3. log \in Seq(Events) /\ queue[q] \in Rows
        BY DEF TypeOK, Rows
      <4>4. /\ job.event.key = PlanKey /\ job.event.type = "cancelled" /\ job.event.plan = q
        BY <2>2, <3>3 DEF Event
      <4>5. Accounts(Append(log, job.event), Append(log, job.event), q, plans[q], Skipped(queue[q]))
        BY <2>1, <3>1, <4>1, <4>3, <4>4, AccountsCancelDone
      <4> QED BY <2>4, <2>5, <3>3, <4>2, <4>5
    <3>4. CASE q # p
      <4>1. LogToBe(q) = log /\ RowLogToBe(q) = log
        BY <3>4 DEF LogToBe, RowLogToBe
      <4>2. LogToBe(q)' = log /\ RowLogToBe(q)' = log
        BY <2>3, <2>5, <3>4 DEF LogToBe, RowLogToBe
      <4> QED BY <2>4, <2>5, <3>1, <3>4, <4>1, <4>2
    <3> QED BY <3>3, <3>4
  <2> QED BY <2>6, <2>7, <2>8 DEF IInv
<1>9. ASSUME EnqueueRow
      PROVE  IInv'
  <2> DEFINE p == job.plan  k == Head(job.todo)  e == Event(p, k, "enqueued", "queued")
  <2>1. job \in Jobs /\ p \in Plans /\ k \in Actions
    BY <1>9 DEF EnqueueRow, TypeOK, Idle, NoJob, Jobs
  <2>2. job.event = NoEvent /\ ~job.skip /\ plans[p] # Absent
    BY <1>9, <2>1, JobTypes DEF EnqueueRow, TypeOK, Idle, IInv, JobShape
  <2>3. e \in Events /\ e.plan = p /\ e.key = k
        /\ e.type = "enqueued" /\ e.status = "queued"
    BY <2>1 DEF Event, Events, EventTypes, OpenStatuses
  <2>4. job' = [job EXCEPT !.event = e, !.todo = Tail(job.todo)]
    BY <1>9 DEF EnqueueRow
  <2>5. job'.plan = p /\ job'.event = e /\ ~job'.skip
    BY <2>1, <2>2, <2>4 DEF Jobs
  <2>6. UNCHANGED <<plans, log, torn>> /\ InsertRow(p, k)
    BY <1>9 DEF EnqueueRow
  <2>7. /\ queue'[p] = Inserted(queue[p], k)
        /\ \A q \in Plans : q # p => queue'[q] = queue[q]
    BY <2>1, <2>6 DEF InsertRow, Inserted, TypeOK
  <2>8. UnknownPlansAreBlank'
    BY <2>1, <2>2, <2>6, <2>7 DEF IInv, UnknownPlansAreBlank
  <2>9. JobShape'
    BY <2>2, <2>5, <2>6 DEF JobShape
  <2>10. ASSUME NEW q \in Plans, q \notin torn', plans'[q] # Absent
         PROVE  Accounts(LogToBe(q)', RowLogToBe(q)', q, plans'[q], queue'[q])
    <3>1. LogToBe(q) = log /\ RowLogToBe(q) = log
      BY <2>2 DEF LogToBe, RowLogToBe
    <3>2. Accounts(log, log, q, plans[q], queue[q])
      BY <2>6, <2>10, <3>1 DEF IInv
    <3>3. e # NoEvent
      BY <2>3, JobTypes
    <3>4. CASE q = p
      <4>1. LogToBe(q)' = Append(log, e) /\ RowLogToBe(q)' = Append(log, e)
        BY <2>5, <2>6, <3>3, <3>4 DEF LogToBe, RowLogToBe
      <4>2. log \in Seq(Events) /\ queue[q] \in Rows
        BY DEF TypeOK, Rows
      <4> HIDE DEF e
      <4>3. Accounts(Append(log, e), Append(log, e), e.plan, plans[q], Inserted(queue[q], e.key))
        BY <2>1, <2>3, <3>2, <3>4, <4>2, AccountsEnqueued
      <4> QED BY <2>3, <2>6, <2>7, <3>4, <4>1, <4>3
    <3>5. CASE q # p
      <4>1. LogToBe(q)' = log /\ RowLogToBe(q)' = log
        BY <2>5, <2>6, <3>5 DEF LogToBe, RowLogToBe
      <4> QED BY <2>6, <2>7, <3>2, <3>5, <4>1
    <3> QED BY <3>4, <3>5
  <2> QED BY <2>8, <2>9, <2>10 DEF IInv
<1>10. ASSUME AppendEvent
       PROVE  IInv'
  <2>1. job \in Jobs /\ job.plan \in Plans /\ job.event \in Events
        /\ job.event.plan = job.plan /\ ~job.skip
    BY <1>10, JobTypes DEF AppendEvent, TypeOK, Idle, NoJob, Jobs
  <2>2. UNCHANGED <<plans, queue, torn>>
    BY <1>10 DEF AppendEvent
  <2>3. job' = NoJob \/ job' = [job EXCEPT !.event = NoEvent]
    BY <1>10 DEF AppendEvent
  <2>4. /\ job'.event = NoEvent /\ ~job'.skip
        /\ job'.todo # <<>> => job'.plan = job.plan /\ job'.todo = job.todo
    BY <2>1, <2>3 DEF NoJob, Jobs
  <2>5. IF plans[job.plan] # Absent THEN log' = Append(log, job.event) ELSE log' = log
    BY <1>10 DEF AppendEvent
  <2>6. log \in Seq(Events)
    BY DEF TypeOK
  <2>7. UnknownPlansAreBlank'
    <3>1. ASSUME NEW q \in Plans, plans[q] = Absent, NEW i \in DOMAIN log'
          PROVE  log'[i].plan # q
      BY <2>1, <2>5, <2>6, <3>1, AppendFacts DEF IInv, UnknownPlansAreBlank
    <3> QED BY <2>2, <3>1 DEF IInv, UnknownPlansAreBlank
  <2>8. JobShape'
    BY <2>2, <2>4 DEF JobShape, IInv
  <2>9. ASSUME NEW q \in Plans, q \notin torn', plans'[q] # Absent
        PROVE  Accounts(LogToBe(q)', RowLogToBe(q)', q, plans'[q], queue'[q])
    <3>1. LogToBe(q)' = log' /\ RowLogToBe(q)' = log'
      BY <2>4 DEF LogToBe, RowLogToBe
    <3>2. Accounts(LogToBe(q), RowLogToBe(q), q, plans[q], queue[q])
      BY <2>2, <2>9 DEF IInv
    <3>3. job.event # NoEvent
      BY <2>1, JobTypes
    <3>4. CASE q = job.plan
      <4>1. LogToBe(q) = log' /\ RowLogToBe(q) = log'
        BY <2>1, <2>2, <2>5, <2>9, <3>3, <3>4 DEF LogToBe, RowLogToBe
      <4> QED BY <2>2, <3>1, <3>2, <4>1
    <3>5. CASE q # job.plan
      <4>1. LogToBe(q) = log /\ RowLogToBe(q) = log
        BY <3>5 DEF LogToBe, RowLogToBe
      <4>2. queue[q] \in Rows
        BY DEF TypeOK, Rows
      <4>3. Accounts(Append(log, job.event), Append(log, job.event), q, plans[q], queue[q])
        BY <2>1, <2>6, <3>2, <3>5, <4>1, <4>2, AccountsKept
      <4> QED BY <2>2, <2>5, <3>1, <3>2, <4>1, <4>3
    <3> QED BY <3>4, <3>5
  <2> QED BY <2>7, <2>8, <2>9 DEF IInv
<1>11. ASSUME Crash \/ StatementFails
       PROVE  IInv'
  <2>1. UNCHANGED <<plans, queue, log>> /\ job' = NoJob
    BY <1>11 DEF Crash, StatementFails, Abandon
  <2>2. UnknownPlansAreBlank'
    BY <2>1 DEF IInv, UnknownPlansAreBlank
  <2>3. job'.event = NoEvent /\ ~job'.skip /\ job'.todo = <<>>
    BY <2>1 DEF NoJob
  <2>4. JobShape'
    BY <2>3 DEF JobShape
  <2>5. ASSUME NEW q \in Plans, q \notin torn', plans'[q] # Absent
        PROVE  Accounts(LogToBe(q)', RowLogToBe(q)', q, plans'[q], queue'[q])
    <3>1. LogToBe(q)' = log /\ RowLogToBe(q)' = log
      BY <2>1, <2>3 DEF LogToBe, RowLogToBe
    <3>2. q \notin torn /\ q # job.plan
      BY <1>11, <2>1, <2>5 DEF Crash, StatementFails, Abandon
    <3>3. LogToBe(q) = log /\ RowLogToBe(q) = log
      BY <3>2 DEF LogToBe, RowLogToBe
    <3> QED BY <2>1, <2>5, <3>1, <3>2, <3>3 DEF IInv
  <2> QED BY <2>2, <2>4, <2>5 DEF IInv
<1>12. CASE UNCHANGED vars
  <2>1. UNCHANGED <<plans, queue, log, job, torn>>
    BY <1>12 DEF vars
  <2>2. \A q \in Plans : LogToBe(q)' = LogToBe(q) /\ RowLogToBe(q)' = RowLogToBe(q)
    BY <2>1 DEF LogToBe, RowLogToBe
  <2> QED BY <2>1, <2>2 DEF IInv, UnknownPlansAreBlank, JobShape
<1> QED
  BY <1>1, <1>2, <1>3, <1>4, <1>5, <1>6, <1>7, <1>8, <1>9, <1>10, <1>11, <1>12
  DEF Next, PlanRequest, ActionRequest, Statement

\* Whatever requests the clients send, in whatever order, and wherever the
\* process is killed or fails: outside the plans a fault caught between a table write and
\* its event, the status of every plan and queue row follows from the event log.
THEOREM LogAlwaysExplainsTables == Spec => []LogExplainsTables
<1>1. Init => IInv
  BY DEF Init, IInv, UnknownPlansAreBlank, JobShape, NoJob
<1>2. TypeOK /\ IInv => LogExplainsTables
  <2> SUFFICES ASSUME TypeOK, IInv, Idle, NEW p \in Plans \ torn, plans[p] # Absent
               PROVE  /\ LogExplainsPlan(log, p, plans[p])
                      /\ \A k \in Actions : queue[p][k] # Absent =>
                           LogExplainsRow(log, p, k, queue[p][k])
    BY DEF LogExplainsTables, IInv, UnknownPlansAreBlank
  <2> QED BY IdleAccounts DEF Accounts
<1>3. QED
  BY <1>1, <1>2, TypeCorrect, Inductive, PTL DEF Spec

-----------------------------------------------------------------------------
(* The action properties.                                                  *)

\* What no request does to a plan that was completed or cancelled.
LEMMA FinishedStep ==
  ASSUME TypeOK, [Next]_vars, NEW p \in Plans,
         plans[p] \in {"completed", "cancelled"}, Active(p)'
  PROVE  plans'[p] = "paused_reboot"
<1> USE DEF Active
<1>1. ASSUME NEW q \in Plans, NEW batch \in Batches, CreatePlan(q, batch)
      PROVE  FALSE
  BY <1>1 DEF CreatePlan, TypeOK
<1>2. ASSUME NEW q \in Plans, MarkRebootPending(q)
      PROVE  plans'[p] = "paused_reboot"
  BY <1>2 DEF MarkRebootPending, SetPlan, TypeOK
<1>3. ASSUME NEW q \in Plans, Resume(q)
      PROVE  FALSE
  BY <1>3 DEF Resume, SetPlan, TypeOK
<1>4. ASSUME NEW q \in Plans, CompletePlan(q)
      PROVE  FALSE
  BY <1>4 DEF CompletePlan, SetPlan, TypeOK
<1>5. ASSUME NEW q \in Plans, CancelPlan(q)
      PROVE  FALSE
  BY <1>5 DEF CancelPlan, SetPlan, TypeOK
<1>6. ASSUME plans' = plans
      PROVE  FALSE
  BY <1>6
<1>7. ASSUME NEW q \in Plans, NEW k \in Actions, ActionRequest(q, k)
      PROVE  plans' = plans
  BY <1>7 DEF ActionRequest, MarkStarted, RecordResult
<1>8. ASSUME Statement \/ Crash \/ UNCHANGED vars
      PROVE  plans' = plans
  BY <1>8 DEF Statement, SkipOpenRows, EnqueueRow, AppendEvent, StatementFails, Crash, Abandon, vars
<1> QED
  BY <1>1, <1>2, <1>3, <1>4, <1>5, <1>6, <1>7, <1>8 DEF Next, PlanRequest

\* Only a scheduled reboot makes a completed or cancelled plan active again.
THEOREM FinishedPlansOnlyReboot == Spec => FinishedPlansStayFinished
<1>1. TypeOK /\ [Next]_vars =>
        (\A p \in Plans : plans[p] \in {"completed", "cancelled"} /\ Active(p)'
           => plans'[p] = "paused_reboot")
  BY FinishedStep
<1>2. QED
  BY <1>1, TypeCorrect, PTL DEF Spec, FinishedPlansStayFinished

\* The table already says what the event to be appended will say.
PendingConfirmed ==
  job.event # NoEvent /\ ~job.skip /\ plans[job.plan] # Absent => EventConfirms(job.event)

\* A cancellation half done: the plan row says so already.
CancelBegun ==
  job.skip => /\ job.event = Event(job.plan, PlanKey, "cancelled", "cancelled")
              /\ plans[job.plan] = "cancelled"

LEMMA CancelBegunStep == TypeOK /\ CancelBegun /\ [Next]_vars => CancelBegun'
<1> SUFFICES ASSUME TypeOK, CancelBegun, [Next]_vars PROVE CancelBegun'
  OBVIOUS
<1>1. ASSUME ~job'.skip
      PROVE  CancelBegun'
  BY <1>1 DEF CancelBegun
<1>2. ASSUME NEW p \in Plans, PlanRequest(p), ~CancelPlan(p)
      PROVE  ~job'.skip
  BY <1>2 DEF PlanRequest, CreatePlan, MarkRebootPending, Resume, CompletePlan, Then
<1>3. ASSUME NEW p \in Plans, CancelPlan(p)
      PROVE  CancelBegun'
  <2>1. plans[p] # Absent
    BY <1>3 DEF CancelPlan, IsActivePlan, Active
  <2>2. plans'[p] = "cancelled"
    BY <1>3, <2>1 DEF CancelPlan, SetPlan, TypeOK
  <2>3. job'.plan = p /\ job'.event = Event(p, PlanKey, "cancelled", "cancelled")
    BY <1>3 DEF CancelPlan
  <2> QED BY <2>2, <2>3 DEF CancelBegun
<1>4. ASSUME NEW p \in Plans, NEW k \in Actions, ActionRequest(p, k)
      PROVE  ~job'.skip
  BY <1>4 DEF ActionRequest, MarkStarted, RecordResult, Then
<1>5. ASSUME SkipOpenRows
      PROVE  ~job'.skip
  <2>1. job \in Jobs
    BY <1>5 DEF SkipOpenRows, TypeOK, Idle, NoJob
  <2> QED BY <1>5, <2>1 DEF SkipOpenRows, Jobs
<1>6. ASSUME EnqueueRow
      PROVE  ~job'.skip
  <2>1. job \in Jobs /\ ~job.skip
    BY <1>6, JobTypes DEF EnqueueRow, TypeOK, Idle, NoJob
  <2> QED BY <1>6, <2>1 DEF EnqueueRow, Jobs
<1>7. ASSUME AppendEvent
      PROVE  ~job'.skip
  <2>1. job \in Jobs /\ ~job.skip
    BY <1>7, JobTypes DEF AppendEvent, TypeOK, Idle, NoJob
  <2>2. job' = NoJob \/ job' = [job EXCEPT !.event = NoEvent]
    BY <1>7 DEF AppendEvent
  <2> QED BY <2>1, <2>2 DEF Jobs, NoJob
<1>8. ASSUME Crash \/ StatementFails
      PROVE  ~job'.skip
  BY <1>8 DEF Crash, StatementFails, Abandon, NoJob
<1>9. CASE UNCHANGED vars
  BY <1>9 DEF vars, CancelBegun
<1> QED
  BY <1>1, <1>2, <1>3, <1>4, <1>5, <1>6, <1>7, <1>8, <1>9 DEF Next, Statement

LEMMA PendingConfirmedStep ==
  TypeOK /\ CancelBegun /\ PendingConfirmed /\ [Next]_vars => PendingConfirmed'
<1> SUFFICES ASSUME TypeOK, CancelBegun, PendingConfirmed, [Next]_vars,
                    job'.event # NoEvent, ~job'.skip, plans'[job'.plan] # Absent
             PROVE  EventConfirms(job.event)'
  BY DEF PendingConfirmed
<1>1. ASSUME NEW p \in Plans, NEW batch \in Batches, CreatePlan(p, batch)
      PROVE  FALSE
  BY <1>1 DEF CreatePlan
<1>2. ASSUME NEW e \in Events, e.key = PlanKey, e.type # "cancelled",
             SetPlan(e.plan, e.status), Then(e)
      PROVE  EventConfirms(job.event)'
  <2>1. job'.event = e /\ e.plan \in Plans /\ job'.plan = e.plan
    BY <1>2 DEF Then, Events
  <2>2. plans'[e.plan] = e.status
    BY <1>2, <2>1 DEF SetPlan, TypeOK
  <2> QED BY <1>2, <2>1, <2>2 DEF EventConfirms
<1>3. ASSUME NEW e \in Events, e.key \in Actions, e.type \notin {"cancelled", "enqueued"},
             SetRow(e.plan, e.key, StatusSaid(e)), Then(e)
      PROVE  EventConfirms(job.event)'
  <2>1. job'.event = e /\ e.plan \in Plans
    BY <1>3 DEF Then, Events
  <2>2. queue'[e.plan][e.key] \in {Absent, StatusSaid(e)}
    BY <1>3, <2>1 DEF SetRow, TypeOK
  <2> QED BY <1>3, <2>1, <2>2 DEF EventConfirms
<1>4. ASSUME NEW p \in Plans, MarkRebootPending(p)
      PROVE  EventConfirms(job.event)'
  <2> DEFINE e == Event(p, PlanKey, "reboot_scheduled", "paused_reboot")
  <2>1. e \in Events /\ e.key = PlanKey /\ e.type # "cancelled"
    BY DEF Event, Events, EventTypes, PlanStatuses
  <2>2. SetPlan(e.plan, e.status) /\ Then(e)
    BY <1>4 DEF MarkRebootPending, Event
  <2> QED BY <1>2, <2>1, <2>2
<1>5. ASSUME NEW p \in Plans, Resume(p)
      PROVE  EventConfirms(job.event)'
  <2> DEFINE e == Event(p, PlanKey, "resumed", "running")
  <2>1. e \in Events /\ e.key = PlanKey /\ e.type # "cancelled"
    BY DEF Event, Events, EventTypes, PlanStatuses
  <2>2. SetPlan(e.plan, e.status) /\ Then(e)
    BY <1>5 DEF Resume, Event
  <2> QED BY <1>2, <2>1, <2>2
<1>6. ASSUME NEW p \in Plans, CompletePlan(p)
      PROVE  EventConfirms(job.event)'
  <2> DEFINE e == Event(p, PlanKey, "completed", "completed")
  <2>1. e \in Events /\ e.key = PlanKey /\ e.type # "cancelled"
    BY DEF Event, Events, EventTypes, PlanStatuses
  <2>2. SetPlan(e.plan, e.status) /\ Then(e)
    BY <1>6 DEF CompletePlan, Event
  <2> QED BY <1>2, <2>1, <2>2
<1>7. ASSUME NEW p \in Plans, CancelPlan(p)
      PROVE  FALSE
  BY <1>7 DEF CancelPlan
<1>8. ASSUME NEW p \in Plans, NEW k \in Actions, MarkStarted(p, k)
      PROVE  EventConfirms(job.event)'
  <2> DEFINE e == Event(p, k, "started", "running")
  <2>1. e \in Events /\ e.key \in Actions /\ e.type \notin {"cancelled", "enqueued"}
    BY DEF Event, Events, EventTypes, OpenStatuses
  <2>2. SetRow(e.plan, e.key, StatusSaid(e)) /\ Then(e)
    BY <1>8 DEF MarkStarted, Event, StatusSaid, QueueStatusOf
  <2> QED BY <1>3, <2>1, <2>2
<1>9. ASSUME NEW p \in Plans, NEW k \in Actions, NEW r \in Results, RecordResult(p, k, r)
      PROVE  EventConfirms(job.event)'
  <2> DEFINE e == Event(p, k, EventTypeOf(r), r)
  <2>1. e \in Events /\ e.key \in Actions /\ e.type \notin {"cancelled", "enqueued"}
    BY ResultsAssumption DEF Event, Events, EventTypes, QueueStatuses, EventTypeOf
  <2>2. SetRow(e.plan, e.key, StatusSaid(e)) /\ Then(e)
    BY <1>9 DEF RecordResult, Event, StatusSaid
  <2> QED BY <1>3, <2>1, <2>2
<1>10. ASSUME SkipOpenRows
       PROVE  EventConfirms(job.event)'
  <2> DEFINE p == job.plan
  <2>1. job \in Jobs /\ p \in Plans
    BY <1>10 DEF SkipOpenRows, TypeOK, Idle, NoJob, Jobs
  <2>2. job'.event = Event(p, PlanKey, "cancelled", "cancelled") /\ plans'[p] = "cancelled"
    BY <1>10, <2>1 DEF SkipOpenRows, CancelBegun, Jobs
  <2>3. \A k \in Actions : queue'[p][k] \notin OpenStatuses
    BY <1>10, <2>1 DEF SkipOpenRows, TypeOK, OpenStatuses
  <2> QED BY <2>2, <2>3 DEF EventConfirms, Event, Remaining
<1>11. ASSUME EnqueueRow
       PROVE  EventConfirms(job.event)'
  <2> DEFINE p == job.plan  k == Head(job.todo)
  <2>1. job \in Jobs /\ p \in Plans /\ k \in Actions
    BY <1>11 DEF EnqueueRow, TypeOK, Idle, NoJob, Jobs
  <2>2. job' = [job EXCEPT !.event = Event(p, k, "enqueued", "queued"), !.todo = Tail(job.todo)]
        /\ InsertRow(p, k)
    BY <1>11 DEF EnqueueRow
  <2>3. job'.event = Event(p, k, "enqueued", "queued")
    BY <2>1, <2>2 DEF Jobs
  <2>4. queue'[p][k] # Absent
    BY <2>1, <2>2 DEF InsertRow, TypeOK
  <2> QED BY <2>1, <2>3, <2>4 DEF EventConfirms, Event
<1>12. ASSUME AppendEvent
       PROVE  FALSE
  <2>1. job \in Jobs
    BY <1>12, JobTypes DEF AppendEvent, TypeOK, Idle, NoJob
  <2>2. job' = NoJob \/ job' = [job EXCEPT !.event = NoEvent]
    BY <1>12 DEF AppendEvent
  <2> QED BY <2>1, <2>2 DEF Jobs, NoJob
<1>13. ASSUME Crash \/ StatementFails
       PROVE  FALSE
  BY <1>13 DEF Crash, StatementFails, Abandon, NoJob
<1>14. CASE UNCHANGED vars
  BY <1>14 DEF vars, PendingConfirmed, EventConfirms, Remaining
<1> QED
  BY <1>1, <1>4, <1>5, <1>6, <1>7, <1>8, <1>9, <1>10, <1>11, <1>12, <1>13, <1>14
  DEF Next, PlanRequest, ActionRequest, Statement

\* The event that a step appends is the pending one, and the tables confirm it.
LEMMA AppendedIsConfirmed ==
  ASSUME TypeOK, PendingConfirmed, [Next]_vars, log' # log
  PROVE  EventConfirms(log'[Len(log')])
<1>1. ASSUME NEW p \in Plans, PlanRequest(p)
      PROVE  log' = log
  BY <1>1 DEF PlanRequest, CreatePlan, MarkRebootPending, Resume, CompletePlan, CancelPlan
<1>2. ASSUME NEW p \in Plans, NEW k \in Actions, ActionRequest(p, k)
      PROVE  log' = log
  BY <1>2 DEF ActionRequest, MarkStarted, RecordResult
<1>3. ASSUME SkipOpenRows \/ EnqueueRow \/ StatementFails \/ Crash \/ UNCHANGED vars
      PROVE  log' = log
  BY <1>3 DEF SkipOpenRows, EnqueueRow, StatementFails, Crash, Abandon, vars
<1>4. AppendEvent
  BY <1>1, <1>2, <1>3 DEF Next, Statement
<1>5. job.event # NoEvent /\ ~job.skip /\ plans[job.plan] # Absent
      /\ log' = Append(log, job.event)
  BY <1>4 DEF AppendEvent
<1>6. job.event \in Events
  BY <1>5, JobTypes DEF TypeOK, Jobs, NoJob
<1>7. log'[Len(log')] = job.event
  BY <1>5, <1>6, AppendFacts DEF TypeOK
<1> QED BY <1>5, <1>7 DEF PendingConfirmed

\* The log never runs ahead of the tables, faults or not: an event is appended
\* only when the tables already are where it says.
THEOREM LogNeverAhead == Spec => TablesAheadOfLog
<1>1. Init => CancelBegun /\ PendingConfirmed
  BY DEF Init, CancelBegun, PendingConfirmed, NoJob
<1>2. TypeOK /\ PendingConfirmed /\ [Next]_vars =>
        (log' # log => EventConfirms(log'[Len(log')]))
  BY AppendedIsConfirmed
<1>3. QED
  BY <1>1, <1>2, TypeCorrect, CancelBegunStep, PendingConfirmedStep, PTL
  DEF Spec, TablesAheadOfLog

=============================================================================

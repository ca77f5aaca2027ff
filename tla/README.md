# oudenOS in TLA+

This directory holds TLA+ models of oudenOS: the privileged Windows service
that changes a machine (`src/services/os-service`), the desktop application
and its wizard (`src/apps/os-desktop`), the cloud API with its subscriptions and
accounts (`src/apps/cloud-api`), and the tuning application
(`src/apps/tuning-desktop`). Each module names the source it models; `PROJECT.json` maps every definition to its lines.

    cd tla
    tlc -workers 2 -config MCExecutor.cfg MCExecutor     # model-check
    tlapm ExecutorProofs.tla                             # check the proofs of a *Proofs module

## 1. The system

A React user interface (renderer) runs in a Tauri shell. The shell starts a Rust
service with administrator rights and speaks line-delimited JSON-RPC with it
over stdin and stdout. The service resolves playbooks of actions (registry
values, services, scheduled tasks, packages, boot configuration, power
settings, PowerShell commands, file renames), executes them one by one through
PowerShell scripts, and keeps snapshots, an audit log and the ledger of an
execution in SQLite. Apart from this, a cloud API sells subscriptions and
licences, and a second desktop product tunes machines with a service of its own.

| Component | State it keeps | Operations | Interacts through | Hard behaviour | What makes it correct |
|---|---|---|---|---|---|
| execution ledger (`ledger.rs`, `db.rs`) | plan rows, queue rows, append-only event log | createPlan, markStarted, recordResult, mark reboot pending, resume, complete, cancel | SQL; called by the dispatcher, and by the migration at start | several statements per request, no transaction; kills between them, statements that fail; any client order | log and tables agree; the log is never ahead; finished plans stay finished |
| action executor (`executor.rs`, `engine.rs`, `powershell.rs`) | the machine itself; outcome and audit rows | capture, snapshot, apply by section, health gate, automatic rollback, record | PowerShell, SQL, rollback | failing probes and scripts, a write that erases its key, a failure half way, kills, guards, status accounting | what changed can be undone; guarded targets stay; the status tells the truth |
| rollback (`rollback.rs`) | snapshots | create, list, restore | PowerShell, SQL; called by the executor and by rollback.restore | one of many restores fails; restoring in the wrong order; values that change type | restoring the oldest snapshot brings the origin back; all or nothing |
| dispatcher (`ipc.rs`) | none, one request at a time | 30 methods | stdin and stdout | whatever order a client chooses | requests are served in order, each answered once |
| service bridge (`service_bridge.rs`, `lib.rs`) | mutex, ids, buffer of late answers, child process | start, call | pipes, a reader thread and its channel | timeouts against late answers, a dying or hanging service, a full pipe | own answers only, at most once, in order; every call returns |
| legacy migration (`migrate.rs`) | the sidecar file | import at start | the ledger | kill between two ledger statements and the deletion | nothing pending is lost |
| wizard (`wizard-store.ts`, `WizardShell.tsx`, `ExecutionStep.tsx`, `RebootResumeStep.tsx` and the steps before them) | the persisted store; each step's own state; the loop's journal | complete, back, jump; assess, answer, review, acknowledge; execute; resume | service calls, some not awaited; localStorage | stale answers, relaunches, timeouts, leaving a step that works, steps mounted after the exit of the one before | nothing is applied twice; what runs was reviewed; the result is true; the execution ends |
| cloud-api subscriptions (`webhooks.ts`, `subscription.ts`, `donations.ts`, `admin.ts`) | subscription, payment, donation and user rows | Stripe events, checkout, cancel, reactivate, status, override | HTTP, SQL, Stripe | duplicates, reordering, concurrent deliveries, errors answered with 200, two systems changed one after the other | rows stay with their owners; no payment is invented; table and Stripe agree in calm conditions |
| cloud-api accounts (`auth.ts`, `users.ts`, `license.ts`, `admin.ts`) | users, identities, refresh tokens, devices, licences | register, sign in, refresh, link, unlink, change, delete, devices, validate | HTTP, SQL | statements of several requests interleaved; a crash between two inserts | one successor per token; a way to sign in remains; the device limit holds |
| tuning application (`main/index.ts`, `tuning-license-client`, `ApplyWorkflowPage.tsx`) | child process, pending calls, restart counter; licence, its key and cache; the apply loop | call, time out, restart; activate, deactivate, refresh, hourly refresh; apply, cancel | pipes, HTTP, Electron IPC | a dying service, scripts without time limit, spawns that fail, answers in flight when the licence changes, days offline, two loops | answers reach their own call; runs end; the service's tier follows the licence; grace ends |
| sign-in of the tuning application (`cloud-api.ts`, `auth-store.ts`, `ProfilePage.tsx`) | access and refresh token in memory and in the store, user, the refresh under way | log in, log out, refresh the profile, delete the account, retry after a refresh | HTTP, promises, localStorage | calls that expire together, refresh tokens that end elsewhere, answers after a sign-out, values captured before an await | who is signed in can go on; nobody is signed out by accident; a logout ends the session |
| tuning-service (`executor.rs`, `rollback.rs`, `journal.rs`) | snapshots, journal | apply, restore, resume | PowerShell, SQL | as in os-service, plus BIOS pauses | as in os-service |
| playbook resolver, questionnaire (`playbook.rs`, `questionnaire.rs`) | none | resolve | dispatcher | precedence of block, preserve, include | protected actions are never included |
| personalizer (`personalizer.rs`) | its snapshot | apply, revert | PowerShell | partial failure | revert undoes apply |

Not modelled, and why, is listed component by component in `PROJECT.json`:
scanners, planners and benchmarks compute over large tables without state of
their own; web sites show pages; packages hold types; playbooks and scripts are
data and deployment.

## 2. The modules

### Ledger

`Ledger.tla` models `ledger.rs` with one step per SQL statement. `plans`,
`queue` and `log` are the tables `execution_plans`, `execution_queue` and
`execution_ledger`; `order` is the order by `created_at`. A request action
(`CreatePlan`, `RecordResult`, `MarkStarted`, `MarkRebootPending`, `Resume`,
`CompletePlan`, `CancelPlan`) executes the handler's first statement and leaves
the rest in `job`; `SkipOpenRows`, `EnqueueRow` and `AppendEvent` execute it.
`Serve` is the dispatcher: the next request comes when the last one is
answered. `Crash` kills and restarts the process between two statements, and
`StatementFails` is a statement that SQLite refuses, whose error ends the handler
(`execute.applyAction` only logs it, `ipc.rs:519`): committed statements stay. Requests may name any plan, known or not, in any
order, because the handlers check nothing more; `Resume` and `CancelPlan` act
on the newest active plan only, which is what `journal.resume` and
`journal.cancel` look up. `torn` remembers the plans that one of these faults
caught between two statements.

What it shows:
- `LogExplainsTables`: replaying the event log yields the status of every plan
  and queue row, re-sent requests and unknown plans included, except for plans
  that a fault has torn.
- `TablesAheadOfLog`: an event is appended only after the row it speaks of is
  where the event says, faults or not.
- `FinishedPlansStayFinished`: only a scheduled reboot reactivates a completed
  or cancelled plan.

### Mutations, Executor, ReversibleActions

`Mutations.tla` holds what one change does to one value, per kind: how Phase 1
reads it (`Captured`: a failed probe and an absent value look alike, digits in
a string become a number, tasks and packages are not read at all), how Phase 3
changes it (`Skips`, `Applied`) and how `rollback.rs` puts it back
(`RestoreRefused`, `Restored`). The values are the few that the scripts tell
apart.

A registry value is not written alone. `apply_registry_change` runs `New-Item -Force`
before `Set-ItemProperty` (`executor.rs:945`), which deletes a key that is there, with the
keys below it, and creates it empty. `Key` gives each value its key, `Inside` the keys below
each; `Write` erases what is `Swept`, also when the value itself then cannot be set
(`FailChange`). `buried` are values whose key went with the key above it, so that
`Set-ItemProperty` alone cannot restore them; `lost` are those erased while no snapshot listed them.

`Executor.tla` is `execute_action` and `restore_snapshot`, one step per
PowerShell script or SQL statement. `req` is the request being served (its
phase and the counts of the code as sets), `machine` the target machine,
`snapshots` the table `rollback_snapshots`. `TakeSnapshot` is Phases 1 and 2,
`SkipChange`, `ApplyChange` and `FailChange` are Phase 3 (sections in the
code's order, any order inside a section, stop at the first failure: `engine.rs`
forces every mode but the aggressive one), `ShellHealth` is Phase 3.5, `Status` Phase
4, `StartRollback` Phase 5, `RecordOutcome` the rows at the end. The restore
loop (`RestoreValue`, `RestoreFails`, `RemovalIgnored`) serves the automatic
rollback and the request `rollback.restore`. `Crash` may come between any two
steps. Names that the guards protect are the constant `Protected`; a service
under tamper protection behaves like one of them.

What it shows:
- `OldestSnapshotUndoes`: at every moment, between two scripts and after a kill
  too, a changed target is listed by a snapshot, and restoring the oldest one
  that lists it brings back the value it had when oudenOS was first started --
  for values that a snapshot can hold (`Faithful`), probes that did not fail, and keys that
  still exist; and not for values that were erased unlisted (`lost`).
- `ProtectedStaysPut`: no request, its rollback included, gives a guarded target another
  value, under the first two conditions; all that can happen to it is that a write to an
  unguarded value erases it with the key.
- `StatusIsTrue`, of three parts. `SuccessIsWhole`: "success" means that every target is
  where the action puts it, except those that a later write of the same action erased, and
  that nothing else moved but what such writes erased; "skipped" that nothing moved.
  `RolledBackIsClean`: what the automatic rollback did not fail to restore is
  as before, and outside the action nothing is touched but what it erased.
  `ErrorIsRecoverable`: an error, which may come when everything is done
  (`executor.rs:804`), leaves a snapshot that brings back what was changed.
- `AllOrNothing`: where restores and the database work, the executor implements
  `ReversibleActions.tla`, in which an action takes effect on its targets as a whole or not at
  all, and undoing a record puts exactly the targets it lists back to what
  they were -- a renamed file is put back, never renamed forth again. `Erases` says what
  writing a target erases: a commit keeps targets that together account for all others, and an
  aborted action may leave erased what it did not record. The mapping
  shows a request's effect when it is answered (`Visible`), and counts an
  action's snapshot from then on (`UndoRecords`).

`Faithful` names what a snapshot cannot bring back, each a case of
`Mutations.tla`: a power value (captured as a number, expected as a string), a
PowerShell command, a registry string of digits, a task that was disabled
before, an installed package.

### ServiceBridge, RemoteCalls

`ServiceBridge.tla` models `service_bridge.rs` and the command `service_call`:
the fair mutex (`lock`, its first element holds it), request ids, the stdin
pipe of limited capacity, the service that serves the pipe in order, the channel
of the reader thread, the buffer of answers to calls that gave up, and the
start of the service as one more task. A timeout may come whenever the channel
is empty. The service may die at any moment; answers it wrote before are still
read, and only then the bridge notices (`Disconnect`), or it never does
(`WriteFails` leaves `running` as it is, as the code does).

What it shows:
- `EffectsInOrder`: requests take effect at most once and in the order of the
  calls, however many of them timed out.
- `BufferHoldsOrphans`: a buffered answer belongs to a call that has returned, so that the
  lookup in the buffer never succeeds (`LateAnswersAreOrphans`); and the buffer holds at
  most the eviction window and what was outstanding in pipe and service (`BufferBounded`).
- `AnswersAreOwn`: the bridge implements `RemoteCalls.tla`: one answer per
  call, a result only of the call's own execution.
- `EveryCallReturns`: a call that reached the mutex returns, provided the pipe, which
  calls that timed out may have filled, has room again and again (`PipeDrains`).

### Subscriptions

`Subscriptions.tla` is `webhooks.ts`, `subscription.ts`, `donations.ts` and the
override of `admin.ts`, one SQL statement or Stripe request per step. `row`,
`customer`, `payment`, `gift` and `donor` are the columns of `subscriptions`, `users`,
`payment_history` and `donations` that the handlers read; `latest` are the rows that
`ORDER BY updated_at DESC` may put first. Stripe is external: `stripe` holds its
subscriptions, and every change of one emits its events into `feed`, from which
`Deliver` takes any event (or, in a calm setting, the oldest), once or more often.
Besides what users ask for, Stripe turns statuses by itself (`Turn`: a first payment that is
incomplete, trials, pauses, unpaid bills), and `mapStripeStatus` maps all of them. An override
sets any tier and status of `admin.ts:40-51` (`Grants`), for a time or for good.
`worker` are the webhook handlers at work, `tab` the users' requests; a request
reads what the middleware read when it started. An exception in a handler
answers 200 (`Drop`).

What it shows:
- `RowsFollowOwners`: whatever the order of events, faults and races, a
  subscription's data is written only to rows of the user it belongs to, and the customer by
  which an invoice finds its user is the payer's.
- `PaymentsAreReal`: a payment is recorded as paid only if Stripe has settled it.
- `CalmAgreement`: with one live subscription and one request of a user at a time, events delivered
  in order and one by one, and no handler of an event that fails, the table says what Stripe charges once
  everything is handled -- restarts, failing requests, and cancel and reactivate, which change Stripe
  first and the row afterwards, beside the webhooks included.

`CalmAgreement` excludes by name what the code does not make up for: overrides (`GET /status`
resets the row of a paying user whose override ran out in the meantime, because a checkout never
clears `manualOverride`), a second live subscription, donations by subscribers, late or lost
events, and statuses that Stripe turned. The other settings contain them.

### Accounts

`Accounts.tla` is `auth.ts` and the parts of `users.ts`, `license.ts` and `admin.ts`
that decide who may sign in: passwords, OAuth identities, refresh tokens, deletion,
devices and the plan that limits them. `request` holds the handlers at work, each
between two of its statements; `At(r, kind, pc)` is where one stands. Unique indexes
of `schema.ts` are guards of the inserts, a transaction is one step.

What it shows:
- `OneSuccessor`: a refresh token is exchanged once, however many requests carry it.
- `CanSignIn`: an account keeps a password or an identity linked to it, for requests one
  after the other.
- `DeviceLimit`: the limit of the greatest plan an account had is not exceeded, as long as
  an account has one registration at a time (`OneRegistration`: one kind of them, once).

The last two do not hold for the corresponding requests at the same time: the
handlers count first and write afterwards (hazards at `users.ts:602` and `:426`).

### Wizard

`Wizard.tla` is the wizard of os-desktop: the persisted store, `WizardShell`'s Back
and Next, and the steps from the assessment to the resumption. `page` is the step that is mounted with
its own state, which is lost when it is left; `ready` says which steps allow Next. The two are apart:
`AnimatePresence mode="wait"` (`WizardPage.tsx:26`) mounts the next step only after the exit of the one before,
where that one has an exit (`Exits`), while the bar acts on `current` at once, with the readiness an earlier
visit left. `Show` moves, `Entered` mounts when the exit is over, and `hurried` remembers a Next on a final review that was not
mounted yet.
`Relaunch` restarts the application: the store comes back without `demoMode`, an
execution under way is cut off, and a call it had sent may still be carried out.
`stale` is an assessment that goes on after its step was left, `resuming` a
`journal.resume` whose answer may come late. The service is what `RemoteCalls`
promises: an error leaves open whether the action was applied (`Effects`).

What it shows:
- `AppliedOnce`: no action is applied twice, by Back, jumps, relaunches or late answers.
- `RunsWhatWasReviewed`: the plan in execution is the one that was shown for review
  and, where required, acknowledged, with the profile and the answers it was made from. Only the
  acknowledgement can be missing, for a user who was ahead of the final review (`hurried`).
- `ResultIsTrue`: the result calls an action applied or skipped only if it was.
- `ExecutionEnds`: the execution step is left in the end.

A resume dispatches nothing, although `RebootResumeStep.tsx:3` says so: the ledger
refuses the plan of the renderer (camelCase fields), so that `journal.resume` finds
none. What a relaunch cut off stays undone.

### TuningDesktop

`TuningDesktop.tla` composes Electron's main process with the service it keeps
running, the licence and the apply page. `pending`, `promise`, `inbox` and `outbox` are
the bridge: calls are pipelined, `NewId` numbers them, `TimeOut` gives one up after its 30 seconds, `Die`
and `Exited` are the end of the service and the moment main is told. Between the
two, a call is written to nobody. The scripts of the service have no time limit (`powershell.rs:44-54`):
`Hang` is one that never ends, with which the service reads and grants nothing any more. `restart` is the backoff: attempts, its timer,
whether the service ran for a minute, and whether the last spawn failed, after which no exit event follows and
nothing restarts it (`startService`). `loadStoredLicenseKey` is the file or, without one, the variable `OUDENOS_LICENSE_KEY`.
`initLicense` and `Fetched` are
the two halves of a licence request around its `await`: the cache is read before, the
licence, the cache and the tier are written after. `Use` says what each caller does
with the result: the user's refresh does not push the tier. `loop` holds the runs of
`executeActions`, which go on when the page is left.

What it shows:
- `AnswersAreOwn`: a loop takes only the answer to its own call.
- `RunsEnd`: a run of the plan ends, whatever the service does: a script that hangs is ended for it by the timer only.
- `GraceEnds`: the service grants "premium" only within the days of grace since the
  cloud confirmed a licence (the rounding down takes one day off).
- `TierFollowsLicence`: the service runs again with the licence's tier, unless it was
  given up, could not be spawned, or hangs.
- `DeactivationHolds`: a licence deactivated for good does not come back for good, where no key is
  in the environment.

### AuthClient

`AuthClient.tla` is what tuning-desktop's pages do with the tokens that `Accounts` hands
out: the API client (`request` and `refreshAccessToken` of `cloud-api.ts`), the persisted
store (`auth-store.ts`) and the pages that sign in and out, refresh the profile and delete
the account. A pair of tokens is a number, with the sign-in it descends from (`Root`). `call`
holds the requests under way, each with the pair its page captured (`held`) and the one in
its header (`sent`); `refreshing` is `_refreshPromise`, which all calls with a 401 wait
for. `RefreshDone` is its end with everything that follows before the next event: tokens
stored and the calls sent again, or all of them failed and the store cleared. `Relaunch` closes and
opens the application. The server's handlers are one step each here. `ended` are the refresh tokens that
no request of this client revoked: they expired after 30 days, or a new password revoked them
from elsewhere (`EndElsewhere`; `auth.ts:258`, `auth.ts:378-382`, `users.ts:308-314`). `ServeRefresh` refuses them.

What it shows:
- `SessionUsable`: whoever is shown as signed in has a refresh token that the server
  accepts, or that ended elsewhere, and that is their own, at every moment between the awaits: the client never
  spends the token it keeps.
- `StaysSignedIn`: a user is signed out by a logout, a deletion, or the end of the very token that
  is kept, not by a wrong password, an expired access token, or several calls that find it expired at once.
- `LogoutEndsSession`: a logout leaves no usable refresh token behind.
- `CallsEnd`: every call of a page ends, after at most one refresh and one retry.

They hold as long as `mishap` is empty. It names three things that the code lets happen:
- "undone": `handleRefreshProfile` and `handleSaveName` write back the pair they captured before the
  request (`ProfilePage.tsx:245`, `:280`). If that request had to refresh, the pair is
  revoked, and the next 401 signs the user out.
- "crossed": the end of a sign-out, of a profile request or of a refresh meets another sign-in, or puts back the
  tokens of the one that was left, because nothing ties an answer to the sign-in it was asked for.
- "lost": an answer that never came, to a refresh (any network error there signs
  the user out) or to a logout when the application was closed.

A logout with an expired access token is not one that "ends the sign-in" (`LogoutDone`): its retry carries
the refresh token that was just replaced (`auth-store.ts:196`).

## 3. The runs

| Run | Instance | Bounds and why they suffice |
|---|---|---|
| `ledger` | 2 plans, 2 actions, every list of 1 or 2 actions | 5 events and one fault, a kill or a failed statement: create, start, record and cancel of one plan interleaved with another plan; the list that names an action twice. Symmetric in plans and actions. |
| `executor` | 10 targets of all eight kinds, two guarded; 5 actions and a manual one; 4 machines, which together have each value of each target | 2 snapshots: two actions that share a value, in both orders, or the same one twice; one restore of either; probes, restores and database statements may fail, one kill. Two values of one key and a guarded one in the key below; a core service disabled from the start makes the health gate fail. |
| `executor_atomic` | 6 targets with values a snapshot can hold, every combination; three registry values of one key | 3 actions pairwise sharing targets, 2 of them executed, two restores, of either in either order. |
| `bridge` | 5 calls, pipe of 1, window of 1 | enough calls for a full pipe, a busy service and two evictions. The window is 50 in the code; the model only compares ids with it. |
| `subscriptions` | 11 settings, 4 calm: renewals and a restart; two subscriptions, one after the other, and a restart; two subscribers; a subscriber, a guest's donation and a restart. 7 others: two subscribers with a fault; two users, of whom one subscribes and cancels; two users with two subscriptions, of one or of each, and overlapping deliveries; a subscriber who donates, with a fault; renewed donations with a fault; statuses nobody asked for; overrides | 2 invoices each (one paid, one renewed or failed) where the setting is about one subscription, else 1; 2 rows (the second is the race of two inserts), 2 or 3 events waiting. Symmetric in customers, workers, users and subscriptions. |
| `accounts` | 5 settings: all ways to sign in, one request after the other; two requests with three refresh tokens; two that sign in or delete, with a restart; registrations of devices; validations of a licence | each kind of request once or twice, 3 accounts, 2 addresses, 2 identities of one provider and one of the other, 4 devices for a limit of 3. |
| `wizard` | 3 answers (two presets, reboots, risks), a profile and the demo's, 2 actions, 2 relaunches | one relaunch before and one during or after the execution. Two profiles give the plan a second value to be stale in, which the answers and the demo's already are. |
| `tuning` | 8 settings: two loops; one loop with scripts that hang and a dying service, or with the hourly refreshes; the user's licence with a failing cloud, with a service that dies and is not spawned again, with a key in the environment; three days with a failing cloud and a service restarted until it is given up, or with two keys | a plan of 2 actions, 3 ids at once, 3 days of grace, 1 restart before giving up (10 in the code; only compared). Two of the settings are without the hourly refresh, which nothing in them needs. |
| `auth_client` | 4 settings: two calls at a time; one with lost requests and answers and two relaunches; both again with sign-ins that end elsewhere and one pair less to spend (`spare`); 2 users, 4 pairs of tokens | four pairs are two sign-ins with a refresh each, or one with three: a late answer of the first user meets the second; two calls share a refresh. |

Three runs expect a violation: they state what the repository says and the program
does not do; `findings` in `PROJECT.json` quotes the lines.

| Run | What it shows |
|---|---|
| `ledger_crashed` | a plan whose process was killed is not offered for resumption |
| `executor_swept` | writing a registry value erases the other values of its key, which no snapshot lists: not every change is snapshotted |
| `tuning_reported` | the apply page shows an action as applied that the service refused, lost or never got: `{error}` is no `status: "failed"` |

More of this kind was met while modelling. It has no run of its own; where a property is
affected, it names the case, and without the exception TLC shows it:
- the registry write erases a guarded value beside or below the one that is written
  (`executor.rs:945`), and a failed probe makes the rollback remove one (`rollback.rs:250`): exceptions of `ProtectedStaysPut`;
- "rolled_back" is reported although a value could not be restored (`executor.rs:771`); restoring a power setting
  does nothing and reports success (`rollback.rs:364`): `RolledBackIsClean`, `Faithful`;
- the log calls skipped and preserved actions "failed" (`ledger.rs:179-183`), although `db.rs:178` lists both types: `EventTypeOf`;
- `write_all` blocks for good, with the mutex held, when the pipe is full and the service hangs
  (`service_bridge.rs:165`): `PipeDrains`; a call may find the bridge before the service was started (`lib.rs:324`);
- quick Nexts pass a final review that is not mounted yet on the readiness of an earlier plan, and
  execute a plan whose risks nobody acknowledged (`WizardPage.tsx:26`): `hurried`;
- resuming dispatches nothing (`RebootResumeStep.tsx:141`), and expiring overrides reset paying users (`subscription.ts:168`);
- a licence of tier expert outlives the days of grace (`tuning-license-client/src/index.ts:325`): `GraceEnds` is about "premium";
- after a deactivation the key of the environment brings the licence back (`main/index.ts:62`): `DeactivationHolds`;
- a restart whose spawn fails is the last one (`main/index.ts:144`): `GivenUp`.

The bounds are constants of the modules (`MaxLog`, `MaxFaults`, `MaxCrashes`, `MaxSnapshots`,
`MaxRestores`, `MaxInvoices`, `MaxTokens`, `MaxMachines`, `MaxLaunches`, `Ids`) and the
fields of a setting: `Settings` is a set of records, one of which `Init` picks, so that one run
explores several small instances. `CHECK_DEADLOCK` is off where a run ends by design:
the ledger's log is full, every call has returned, a setting's budget is used up.

**Fairness.** `Ledger` and `Executor` assume none: a PowerShell script has no time
limit, and the process may be killed for good, so that nothing must eventually
happen. `ServiceBridge` assumes weak fairness of the mutex holder's steps (the
runtime schedules it and its clock goes on) and of the service's reading and
answering, never of its executing a request. `Wizard` assumes it of the execution's own
steps (the bridge answers every call: `EveryCallReturns`), of the automatic skip, of
the answer to `journal.resume` and of the ends of exits, which are timers; never of the user. `TuningDesktop` assumes it of timers,
those of the calls included, of promise handlers, of the hourly refresh and the end of a fetch (aborted after ten seconds), of
the service working off its requests unless a script hangs, and of main being told of its end; never of the
user, of a script's end, of a dying service or of passing days. It is strong for the loops: a call needs a free number, of which the
model has few, so that `Room` may come and go; the code has no such limit. `AuthClient` assumes it of requests being
answered and of promise handlers. `Subscriptions` and `Accounts` state no liveness: Stripe may
never deliver, and a lost event is not made up for.

## 4. The proofs

TLAPS checks the modules `*Proofs.tla`, for all values of the constants that satisfy
the named assumptions of the modules. The invariants that the proofs need stand at
the head of these modules (`CalmInv` before the lemmas about it), each conjunct with a comment; TLC checked each
before it was proved. A proof has a lemma per conjunct and, under it, a step per action; lemmas
that say what a kind of step leaves alone (`Steps`, `CallFrom`, `RefreshSteps`, ...) come first.

*Ledger.* `TypeCorrect` is inductive by itself. `LogExplainsTables` speaks of moments
when no request is half done; `IInv` extends it to all others by accounting for
the log as it will be when the pending event is appended (`LogToBe`), and, while
the rows of a cancelled plan are still to be skipped, for the rows by the log
before it (`RowLogToBe`). It also says that unknown plans left no trace
(`UnknownPlansAreBlank`) and what a job may look like (`JobShape`).
`LogAlwaysExplainsTables` follows. `FinishedPlansOnlyReboot` and `LogNeverAhead`
are action properties; the second needs that a pending event already is
confirmed by the tables when it is put into the job.

*Executor.* `TypeCorrect` first. `OldestSnapshotUndoes` is not inductive: that restoring
works depends on what a target can have become (`ReachableMachine`: no script
creates a service, task or package), on every entry having been captured from
such a value (`CapturedEntries`), on the oldest entry being one of the origin, and on every
changed target having one unless it was erased unlisted, which `lost` remembers
(`OldestIsOrigin`), and on the snapshot being there before the first change
(`SnapshotFirst`). `ProtectedStaysPut`, a conjunct of the same `IInv`, needs in addition that every
entry of a guarded target holds its origin, or that it was erased by a write the guards let
through (`GuardedEntries`, `Exposed`), because any snapshot may be restored.

`StatusIsAlwaysTrue` needs `StatusInv`, about the action under way: nothing is answered before it
ends (`OneRequest`); its snapshot was taken of the machine as it was before it (`SnapshotOfBefore`); of the
other targets nothing moved but what its own writes erased (`OwnTargetsOnly`); until a change fails, what was
counted as succeeded is where the action puts it (`Kept`) or erased by what is (`Gone`), and all
else is as before (`CountsAreTrue`); and each target is either still to be restored (`AwaitsRestore`), and
then has a value a restore of its capture leads back from, or as before, unless the restore failed or the
capture could not hold the value (`RestoresUndo`). That last part also gives `ErrorIsRecoverable`.

`DependableIsAtomic`: under `Dependable` the executor implements `ReversibleActions`.
`Dependable` says what all-or-nothing depends on: probes, restores and the database work, the
process is not killed, the targets are registry values, services, boot options and renamed
files, with no string of digits among the registry values, and no registry key is below another, so
that no value is left without its key. Values of the same key it does not leave out: they erase one
another, and the abstract specification says so (`Erases`).
`AtomicInv` is what the mapping needs: every snapshot holds a value that was read and has its
key (`AllRead`), a rolled back action left nothing behind (`ActionUndone`), a restore has put back what it
is done with (`RequestUndoes`). The proof is one lemma per step of the executor: an abstract step for the
one that answers, a stutter for all others.

*ServiceBridge.* `EffectsAlwaysInOrder` and `BufferAlwaysHoldsOrphans` rest on one `IInv`:
the call at work has the newest id (`NewestAtWork`); channel, service and pipe hold ids in
increasing order, and so do the effects, which are behind all that is still to be executed
(`InOrder`, `EffectsBehind`); an id that is not written yet is nowhere, and an awaited one was not put
aside (`OwnIsAhead`); every answer in the channel or the buffer is of an executed request
(`AnsweredWasRun`). `BacklogBounded` counts: while nobody polls, at most the pipe and one request are
outstanding, so that the buffer exceeds its window by no more. `BridgeImplementsRemoteCalls` is
the refinement `AnswersAreOwn`.

*Wizard.* `NeverAppliedTwice`, `AlwaysReviewed` and `ResultIsAlwaysTrue` are about what a
page, the store and a relaunch know of each other. The page mounted and the step the bar acts on may differ while
an exit runs: `Outlived` says which steps can be ahead of which page, and the lemmas `Moves` and the end of an exit
are shown once for all steps. The rest of `IInv`: nobody gets past the assessment
while an older one runs (`ScanFirst`), nor without a profile or, later, an answer (`ProfileKnown`, `AnswerGiven`);
a review is not ready before its plan is loaded (`LoadFirst`), and from a
review that is ready on, the plan is that of both (`PlanCurrent`); the final review, once mounted, lets none pass
unseen that must be acknowledged, so that in execution it was seen or the user was faster than the mount
(`Acknowledged`, `hurried`); a resumption is asked for only after
the execution (`ResumedLate`); before it nothing was applied (`NotYetRun`), and while it runs the journal covers
what was answered (`JournalCovers`) and is true (`JournalIsTrue`). Assumed: `None` is neither a plan nor a status, and
the demo's profile is none of the others.

*AuthClient.* `SessionAlwaysUsable` and `LogoutAlwaysEndsSession` need to know what every
captured, sent and stored pair stands for: pairs are issued in order and
descend from a sign-in of the same user, which has one live token at most (`Numbered`, `Lineage`); who is
shown as signed in has tokens of their own (`StoreOK`); the pair of a sign-in that is answered and not yet
stored is nobody else's (`SignInPending`); a refresh is of the tokens in force (`RefreshOwn`), and a
call sends tokens of its own sign-in (`SentOwn`); no request has revoked the tokens in force but those of a
deletion or a logout (`CurrentIsLive`, `Spent`); they are refused only after one of these or when that very token
has expired or was revoked elsewhere (`RefusalIsDue`, `ended`), and an answered logout leaves none live
(`LogoutServed`). `Steps` puts the steps into kinds, each stated by what it does; an expiry and an end elsewhere are one of
them. `PairsRemain` shows that the bound on pairs never blocks a request that
started. `SignedInUntilLogout` is the action property `StaysSignedIn`. Assumed: finitely many calls, a natural
number of relaunches and of spare pairs, `None` no user.

*Accounts.* The steps are first summed up as what they do to requests and tables: a request begins,
reads, or writes (`Begun`, `ReadStep`, `WriteStep`), and each table has the writes that touch it.
A request acts for an account that exists (`RequestsOK`), and an account without rows of its own is that of a sign-in
about to make them (`SeedPending`): with these, `TypeCorrect`. `TokensHaveOneSuccessor` needs
that whoever exchanges a token has revoked it, that nobody else exchanges it and that it has no
successor yet (`ExchangePending`). `AccountsCanSignIn`: with one request at a time, the identity of a sign-in
stays free until its link is made, an unlinking leaves the account a password or another provider's
identity, and a live account has a way in or a sign-in at work on one (`SignInPending`).
`DevicesStayLimited`: the limit a registration read is one the account had
(`LimitRead`), nobody else registers for it and, counted, there is room (`RegistrationPending`). For
any sets of users, identities and requests; assumed: finitely many requests, natural bounds and
settings, and `None` none of the values.

*TuningDesktop.* `Steps` sums up the seven handlers of the licence as `HandlerStep`: they ask the
cloud, or have found a tier and push it; and what the page does as `LoopCalls` and `LoopEnds`. `TypeCorrect` says that the
pending requests are the open promises, one each: it needs that whoever makes a call has none open
(`MayCall`). `AnswersAlwaysOwn` needs that the number of a loop's call is in the pipes with its own action only
(`Owned`), which holds because a new number is in neither pipe. `GraceAlwaysEnds`: a tier that was read, pushed or put
aside for the first push is one the cache still grants the next day (`Granted`), and once the hourly refresh of a day
ran, the service has such a tier, or it is being fetched or on its way (`Revised`). The day ends only when they
are through: a bound of the model, named at `Day`. Assumed: a plan that is not empty, `GRACE_DAYS` above 1 (7 in the code),
actions that are no tiers, and `None`, `Open` and `Error` none of the values.

*Subscriptions.* A step is summed up as what it does to each table, to Stripe, the feed, the deliveries and the
requests (`RowsKept`, `StripeKept`, ..., `TabsKept`); one lemma per handler shows its part, and `Kept`, all of them together, preserves
`IInv`. `RowsAlwaysFollowOwners` is about what a handler still knows when it writes: a delivery of a checkout carries the
subscriber of its subscription (`DeliveryOK`), also when the session had no metadata and the user was found by the customer, because a
customer of Stripe is one user's wherever it is held -- in the table, at Stripe, or in a request that has not saved it yet
(`CustomersAreOwn`); the owner of a subscription never changes once it is sold, and what is in a row or an event was sold
(`RowsAreSold`, `EventsAreTrue`); a row never changes hands. `PaymentsAlwaysReal` rests on `EventsAreTrue`: an event, in the
feed or being handled, reports an invoice that is paid, and Stripe's invoices stay paid, so that neither order nor
repetition matters; that a subscription with any of the statuses of a paid one has a paid invoice (`Begun`) holds for the statuses of
`Turned` as for the plain ones.

`CalmAlwaysAgrees` is `CalmAgreement`, with `CalmInv` beside `IInv`, for the calm settings without overrides (`Calm`), in which Stripe's
statuses are the plain ones (`Known`). What is still to be handled is one queue,
the event at work and then the feed (`Queue`): it is handled from its head, appended to by Stripe, and a restart
leaves it as it is. The queue tells the story of each sale (`Story`): its checkout before all else, and after a failed payment what
became of it (`Ordered`); no more than the sale went through, and its end (`Outcome`); and the last event says what the
sale is now (`News`). All that is told of an older sale of a user comes before the checkout of the live one (`OneLive`).
`CalmRows` relates rows and queue: from its handled checkout on a live sale has a row, which says what Stripe does unless
an update is still queued, and a row of a dead one has its end queued. The rest is what a handler or a request
half-way may count on: `DeliveryCalm` (the row it selected, the price it fetched), `RequestCalm` (what it told Stripe
still holds when it writes), one row per user (`OneRow`), one delivery and one request at a time (`OneDelivery`, `OneRequest`).
`StoryTurns` is the lemma for every change at Stripe, `HandlerGoesOn`, `HandlerAnswers` and `HandlerRewrites` those for the handlers;
`SaveWrites` shows that the unique index never stops a calm checkout.

All of this for any sets of users, customers, subscriptions, rows and requests; assumed: finitely many workers,
a natural bound on invoices, sales that are no donations, `None` none of the values, and, for `CalmAlwaysAgrees`,
that a calm setting handles one delivery at a time, which is what calm means.

*What the proof attempts corrected.* `ReversibleActions` once said that undoing a record puts
all values of its targets back; for a renamed file the code only ever moves the new name to
the old one (`rollback.rs:417`), and the step of a second restore could not be proved. TLC then
showed it with a second restore, which the run has had since. `DeviceLimit` was stated for one request
of each kind at a time; `RegistrationPending` was not inductive for an account that registers by both
routes at once, and there the limit is exceeded as with two requests of one kind: `OneRegistration` says so.
`CanSignIn` allowed an account that could only be found by its address; the proof shows the link. After a restart
`Subscriptions` had the unanswered events sent again in one fixed order; the proof needs none, and Stripe promises none,
so they now come in any.

*Only model-checked.* The liveness properties
(`EveryCallReturns`, `ExecutionEnds`, `RunsEnd`, `TierFollowsLicence`, `DeactivationHolds`, `CallsEnd`)
stay with TLC: the proof system reasons neither about fairness nor about `ENABLED`. Every safety property of a passing run
is a theorem.

## 5. Plan

1. *Done:* ledger, executor with rollback, bridge; wizard; subscriptions and
   accounts of the cloud API; the tuning application and its sign-in. All safety properties
   proved.
2. `Migrate`: the sidecar import as a client of `Ledger` at every start, with kills
   between its statements; nothing pending is lost.
3. `Resolver`: the playbook resolver and the questionnaire as operators, against
   their precedence rules.
4. `TuningExecutor`, `TuningJournal`: the second service against the same abstract
   `ReversibleActions`.

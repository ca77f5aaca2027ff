---------------------------- MODULE TuningDesktop ----------------------------
(***************************************************************************)
(* The tuning application: Electron's main process (main/index.ts), which  *)
(* keeps the tuning service running, passes it the calls of the pages and  *)
(* holds the licence; the licence's cache (tuning-license-client); the     *)
(* apply page (ApplyWorkflowPage.tsx).  The main process runs one event    *)
(* handler at a time, up to its next await: that is a step here.           *)
(*                                                                         *)
(* Of a licence only its tier is kept; "free" stands for every licence     *)
(* whose status does not allow paid features.  Time passes in days for the *)
(* cache; the timers of 2 to 60 seconds fire at any moment.                *)
(***************************************************************************)
EXTENDS Naturals, Sequences

CONSTANTS
  Plan,         \* the actions of the plan, a sequence
  Keys,         \* licence keys
  Tier,         \* what the cloud says of a key
  Loops,        \* the runs of executeActions, one per mounted page
  None, Open, Error,
  GRACE_DAYS,
  MAX_RESTART_ATTEMPTS,
  Ids,          \* bound: calls that are pending or in a pipe at once
  Settings      \* bounds, one record per instance: see Init

ASSUME TierAssumption == Tier \in [Keys -> {"free", "premium", "expert"}]
ASSUME IdsAssumption == Ids \subseteq Nat

Actions == {Plan[i] : i \in DOMAIN Plan}
Handlers == {"startup", "hourly", "activate", "deactivate", "refresh"}
Callers == Loops \cup Handlers
Tiers == {"free", "premium", "expert"}
Cached == [tier : Tiers, age : Nat]
Fetches == [key : Keys, cached : Cached \cup {None}]
Lines == [id : Ids, to : Actions \cup Tiers, says : {"success", "failed", "refused"}]

\* A plan without actions is not executed; the cache outlives the day of its validation.
ASSUME PlanAssumption == DOMAIN Plan = 1 .. Len(Plan) /\ Len(Plan) \in Nat \ {0} /\ Actions \cap Tiers = {}
ASSUME LoopsAssumption == Loops \cap Handlers = {} /\ None \notin Loops
ASSUME ValuesAssumption == /\ None \notin Cached \cup Fetches \cup Lines
                           /\ Open # None /\ Open # Error /\ Error # None /\ Open \notin Lines
ASSUME BoundsAssumption == GRACE_DAYS \in Nat /\ GRACE_DAYS > 1 /\ MAX_RESTART_ATTEMPTS \in Nat
Limits ==
  [activate : Nat, deactivate : Nat, refresh : Nat, deaths : Nat, days : Nat,
   hourly : BOOLEAN, offline : BOOLEAN, hangs : BOOLEAN, broken : BOOLEAN, loops : SUBSET Loops,
   keys : SUBSET (Keys \cup {None}), env : Keys \cup {None}, caches : SUBSET (Cached \cup {None})]
ASSUME SettingsAssumption == Settings \subseteq Limits

VARIABLES
  key, cache,      \* the files licence-key and license-cache.enc
  current,         \* currentLicense
  fetches,         \* per handler, the key and the cache of a fetchLicense under way
  boot,            \* the start of the application: its stage and the licence it found
  service,         \* "none", "up", "hung": in a script that does not end, or "dead":
                   \* ended, and main has not been told
  restart,         \* serviceRestartAttempts, its timer, whether a minute has passed, and
                   \* whether the last spawn failed
  inbox, outbox,   \* the pipes of the service
  tier,            \* the tier the service grants
  pending,         \* pendingRequests: the caller of each id
  promise,         \* per caller: None, Open, Error, or the answer of the service
  page,            \* the apply page: the loop of this mount and its phase
  loop,            \* per loop: the index of its action and the statuses it shows
  done,            \* history: the actions the service reported as applied
  left, refreshed  \* what the setting still allows; the hourly refresh ran today

licence == <<key, cache, current, fetches, boot, refreshed>>
bridge == <<pending, promise, inbox>>
process == <<service, restart, outbox, tier>>
pages == <<page, loop, done>>
vars == <<licence, bridge, process, pages, left>>

-----------------------------------------------------------------------------
(* Calls to the service.                                                   *)

NoCalls == [id \in {} |-> None]
Messages(pipe) == {pipe[i].id : i \in DOMAIN pipe}

\* The mutant NewIdOfPending numbers a call by what is pending only.
NewIdOfPending ==
  LET unused == Ids \ DOMAIN pending
  IN CHOOSE id \in unused : \A other \in unused : id <= other

\* ++requestId, counted again from the least number that nothing refers to.
NewId ==
  LET unused == Ids \ (DOMAIN pending \cup Messages(inbox) \cup Messages(outbox))
  IN CHOOSE id \in unused : \A other \in unused : id <= other
Room == Ids \ (DOMAIN pending \cup Messages(inbox) \cup Messages(outbox)) # {}

\* Whatever setTier is answered, its handler has nothing left to do.
Settle(c, answer) == IF c \in Loops THEN answer ELSE None

\* A service that ended may still look writable: the call is then lost.
callService(c, request) ==
  \/ /\ service \in {"none", "dead"}
     /\ promise' = [promise EXCEPT ![c] = Settle(c, Error)]
     /\ UNCHANGED <<pending, inbox>>
  \/ /\ service # "none" /\ Room
     /\ promise' = [promise EXCEPT ![c] = Open]
     /\ pending' = [id \in DOMAIN pending \cup {NewId} |-> IF id = NewId THEN c ELSE pending[id]]
     /\ inbox' = IF service = "up" THEN Append(inbox, [id |-> NewId, request |-> request]) ELSE inbox

Without(id) == [i \in DOMAIN pending \ {id} |-> pending[i]]

\* The mutant TimeOutKeeps leaves the call in pendingRequests.
TimeOutKeeps(id) ==
  /\ id \in DOMAIN pending
  /\ promise' = [promise EXCEPT ![pending[id]] = Settle(pending[id], Error)]
  /\ UNCHANGED <<pending, inbox, licence, process, pages, left>>

\* The mutant TimeOutSilently does not reject the promise.
TimeOutSilently(id) ==
  /\ id \in DOMAIN pending
  /\ pending' = Without(id)
  /\ UNCHANGED <<promise, inbox, licence, process, pages, left>>

\* The 30 seconds of a call are over.
TimeOut(id) ==
  /\ id \in DOMAIN pending
  /\ pending' = Without(id)
  /\ promise' = [promise EXCEPT ![pending[id]] = Settle(pending[id], Error)]
  /\ UNCHANGED <<inbox, licence, process, pages, left>>

\* A line of the service: the answer to a call, or to one that was given up.
Receive ==
  /\ service # "none" /\ outbox # <<>>
  /\ LET line == Head(outbox)
     IN IF line.id \in DOMAIN pending
        THEN /\ pending' = Without(line.id)
             /\ promise' = [promise EXCEPT ![pending[line.id]] =
                              Settle(pending[line.id], IF line.says = "refused" THEN Error ELSE line)]
        ELSE UNCHANGED <<pending, promise>>
  /\ outbox' = Tail(outbox)
  /\ UNCHANGED <<inbox, service, restart, tier, licence, pages, left>>

-----------------------------------------------------------------------------
(* The service, one request at a time.                                     *)

\* An action that fails may be answered with a status or with an error.
ApplyAction(a) ==
  /\ tier' = tier
  /\ \E says \in IF tier = "free" THEN {"refused"} ELSE {"success", "failed", "refused"} :
       /\ outbox' = Append(outbox, [id |-> Head(inbox).id, to |-> a, says |-> says])
       /\ done' = IF says = "success" THEN done \cup {a} ELSE done

SetTier(t) ==
  /\ tier' = t
  /\ outbox' = Append(outbox, [id |-> Head(inbox).id, to |-> t, says |-> "success"])
  /\ done' = done

Serve ==
  /\ service = "up" /\ inbox # <<>>
  /\ inbox' = Tail(inbox)
  /\ LET request == Head(inbox).request
     IN IF request \in Actions THEN ApplyAction(request) ELSE SetTier(request)
  /\ UNCHANGED <<pending, promise, service, restart, page, loop, licence, left>>

\* The scripts have no time limit (powershell.rs:44-54): one may never end.  What is
\* written to the service from then on is not read, so that it grants nothing any more.
Hang ==
  /\ service = "up" /\ left.hangs
  /\ inbox # <<>> /\ Head(inbox).request \in Actions /\ tier # "free"
  /\ service' = "hung" /\ inbox' = <<>> /\ tier' = "free"
  /\ UNCHANGED <<restart, outbox, pending, promise, licence, pages, left>>

Die ==
  /\ service \in {"up", "hung"} /\ left.deaths > 0
  /\ service' = "dead" /\ inbox' = <<>> /\ tier' = "free"
  /\ left' = [left EXCEPT !.deaths = @ - 1]
  /\ UNCHANGED <<restart, outbox, pending, promise, licence, pages>>

\* A minute since startService (bound: not when no exit follows).
Stable ==
  /\ service # "none" /\ ~restart.stable /\ left.deaths > 0
  /\ restart' = [restart EXCEPT !.stable = TRUE]
  /\ UNCHANGED <<service, outbox, tier, bridge, licence, pages, left>>

Restarts ==
  LET attempts == IF restart.stable THEN 0 ELSE restart.attempts
  IN IF attempts >= MAX_RESTART_ATTEMPTS
     THEN [restart EXCEPT !.attempts = attempts]
     ELSE [restart EXCEPT !.attempts = attempts + 1, !.timer = TRUE]

\* The exit event: every pending call is rejected, and a restart is planned.
Exited ==
  /\ service = "dead"
  /\ service' = "none" /\ outbox' = <<>> /\ restart' = Restarts
  /\ pending' = NoCalls
  /\ promise' = [c \in Callers |->
       IF \E id \in DOMAIN pending : pending[id] = c THEN Settle(c, Error) ELSE promise[c]]
  /\ UNCHANGED <<inbox, tier, licence, pages, left>>

\* A spawn that fails is logged, and that is all: no exit follows, so no restart.
startService ==
  /\ service' = "up" \/ (left.broken /\ service' = "none")
  /\ restart' = [restart EXCEPT !.timer = FALSE, !.stable = FALSE, !.failed = service' = "none"]

Restarted ==
  /\ service = "none" /\ restart.timer
  /\ startService /\ tier' = "free"
  /\ UNCHANGED <<outbox, bridge, licence, pages, left>>

-----------------------------------------------------------------------------
(* The licence.                                                            *)

\* The mutant RemainingBegun counts the day that has begun.
RemainingBegun(cached) == IF cached.age >= GRACE_DAYS THEN 0 ELSE GRACE_DAYS - cached.age

\* Days are counted from the validation; the last one counts as over once it begins.
Remaining(cached) == IF cached.age + 1 >= GRACE_DAYS THEN 0 ELSE GRACE_DAYS - (cached.age + 1)

applyOfflineGrace(cached) ==
  IF Remaining(cached) = 0 /\ cached.tier = "premium" THEN "free" ELSE cached.tier

\* The key of the file or, without one, that of OUDENOS_LICENSE_KEY.
loadStoredLicenseKey == IF key # None THEN key ELSE left.env

Idle(h) == fetches[h] = None /\ promise[h] = None
Running == boot.at \in {"timer", "done"}

\* The mutant UseUnpushed treats the hourly refresh as the user's.
UseUnpushed(h, state) ==
  CASE h = "startup" ->
         /\ boot' = [at |-> "timer", tier |-> state]
         /\ startService /\ UNCHANGED bridge
    [] h \in {"refresh", "hourly"} -> UNCHANGED <<boot, service, restart, bridge>>
    [] OTHER -> callService(h, state) /\ UNCHANGED <<boot, service, restart>>

\* What handler h does with the licence it obtained.
Use(h, state) ==
  CASE h = "startup" ->
         /\ boot' = [at |-> "timer", tier |-> state]
         /\ startService /\ UNCHANGED bridge
    [] h = "refresh" -> UNCHANGED <<boot, service, restart, bridge>>
    [] OTHER -> callService(h, state) /\ UNCHANGED <<boot, service, restart>>

\* The mutant initLicenseOfKey does nothing without a key.
initLicenseOfKey(h, k) ==
  IF k = None
  THEN current' = current /\ Use(h, current) /\ UNCHANGED <<cache, fetches>>
  ELSE IF cache # None /\ cache.age = 0
  THEN current' = applyOfflineGrace(cache) /\ Use(h, current') /\ UNCHANGED <<cache, fetches>>
  ELSE /\ fetches' = [fetches EXCEPT ![h] = [key |-> k, cached |-> cache]]
       /\ UNCHANGED <<current, cache, boot, service, restart, bridge>>

\* initLicense up to the request to the cloud, or to its end without one.
initLicense(h, k) ==
  IF k = None
  THEN current' = "free" /\ Use(h, "free") /\ UNCHANGED <<cache, fetches>>
  ELSE IF cache # None /\ cache.age = 0
  THEN current' = applyOfflineGrace(cache) /\ Use(h, current') /\ UNCHANGED <<cache, fetches>>
  ELSE /\ fetches' = [fetches EXCEPT ![h] = [key |-> k, cached |-> cache]]
       /\ UNCHANGED <<current, cache, boot, service, restart, bridge>>

\* The cloud answers, or refuses or is not reached: the cache that was read counts.
Fetched(h) ==
  /\ fetches[h] # None
  /\ fetches' = [fetches EXCEPT ![h] = None]
  /\ \/ /\ current' = Tier[fetches[h].key]
        /\ cache' = [tier |-> current', age |-> 0]
     \/ /\ left.offline
        /\ current' = IF fetches[h].cached = None THEN "free" ELSE applyOfflineGrace(fetches[h].cached)
        /\ cache' = cache
  /\ Use(h, current')
  /\ UNCHANGED <<key, refreshed, outbox, tier, pages, left>>

Ready ==
  /\ boot.at = "init" /\ fetches["startup"] = None
  /\ initLicense("startup", loadStoredLicenseKey)
  /\ UNCHANGED <<key, refreshed, outbox, tier, pages, left>>

\* Three seconds later: the licence found at the start.
PushAtStart ==
  /\ boot.at = "timer"
  /\ boot' = [boot EXCEPT !.at = "done"]
  /\ callService("startup", boot.tier)
  /\ UNCHANGED <<key, cache, current, fetches, refreshed, process, pages, left>>

refreshLicensePeriodic ==
  /\ boot.at = "done" /\ Idle("hourly") /\ left.hourly
  /\ initLicense("hourly", loadStoredLicenseKey)
  /\ refreshed' = TRUE
  /\ UNCHANGED <<key, outbox, tier, pages, left>>

Asked(h) == Running /\ Idle(h) /\ left[h] > 0 /\ left' = [left EXCEPT ![h] = @ - 1]

activate(k) ==
  /\ Asked("activate")
  /\ key' = k
  /\ initLicense("activate", k)
  /\ UNCHANGED <<refreshed, outbox, tier, pages>>

deactivate ==
  /\ Asked("deactivate")
  /\ key' = None /\ current' = "free"
  /\ callService("deactivate", "free")
  /\ UNCHANGED <<cache, fetches, boot, refreshed, process, pages>>

refresh ==
  /\ Asked("refresh")
  /\ initLicense("refresh", loadStoredLicenseKey)
  /\ UNCHANGED <<key, refreshed, outbox, tier, pages>>

\* Bound: a day has its hourly refreshes, and they end before the next one.
Day ==
  /\ left.days > 0 /\ refreshed
  /\ \A h \in Handlers : Idle(h)
  /\ inbox = <<>>
  /\ left' = [left EXCEPT !.days = @ - 1]
  /\ refreshed' = FALSE
  /\ cache' = IF cache = None THEN None ELSE [cache EXCEPT !.age = @ + 1]
  /\ UNCHANGED <<key, current, fetches, boot, bridge, process, pages>>

-----------------------------------------------------------------------------
(* The apply page.                                                         *)

Enter ==
  /\ Running /\ page.phase = "away"
  /\ \E l \in left.loops : page' = [mount |-> l, phase |-> "review"] /\ left' = [left EXCEPT !.loops = @ \ {l}]
  /\ UNCHANGED <<loop, done, licence, bridge, process>>

Leave ==
  /\ page.phase # "away"
  /\ page' = [page EXCEPT !.phase = "away"]
  /\ UNCHANGED <<loop, done, licence, bridge, process, left>>

\* The page turns to "executing", whose effect starts the loop.
onBegin ==
  /\ page.phase = "review"
  /\ page' = [page EXCEPT !.phase = "executing"]
  /\ loop' = [loop EXCEPT ![page.mount] =
       [i |-> 1, status |-> [j \in DOMAIN Plan |-> IF j = 1 THEN "applying" ELSE "pending"]]]
  /\ callService(page.mount, Plan[1])
  /\ UNCHANGED <<done, licence, process, left>>

\* Only the page stops: the loop goes on.
handleCancel ==
  /\ page.phase = "executing"
  /\ page' = [page EXCEPT !.phase = "complete"]
  /\ UNCHANGED <<loop, done, licence, bridge, process, left>>

\* An answer without a status, {error}, is not "failed".
Shown(answer) == IF answer # Error /\ answer.says = "failed" THEN "failed" ELSE "success"

\* The loop goes on with the answer to its call.
executeActions(l) ==
  /\ promise[l] \notin {None, Open}
  /\ LET i == loop[l].i
         shown == [loop[l].status EXCEPT ![i] = Shown(promise[l])]
     IN IF i < Len(Plan)
        THEN /\ loop' = [loop EXCEPT ![l] = [i |-> i + 1, status |-> [shown EXCEPT ![i + 1] = "applying"]]]
             /\ callService(l, Plan[i + 1])
             /\ page' = page
        ELSE /\ loop' = [loop EXCEPT ![l].status = shown]
             /\ promise' = [promise EXCEPT ![l] = None]
             /\ page' = IF page.mount = l /\ page.phase # "away" THEN [page EXCEPT !.phase = "complete"] ELSE page
             /\ UNCHANGED <<pending, inbox>>
  /\ UNCHANGED <<done, licence, process, left>>

-----------------------------------------------------------------------------
\* A setting: how often each thing may happen, the loops there may be, whether the
\* cloud, a script and a spawn may fail, and the files and the variable found at the start.
Init ==
  /\ left \in Settings
  /\ key \in left.keys /\ cache \in left.caches
  /\ current = "free" /\ refreshed = FALSE
  /\ fetches = [h \in Handlers |-> None]
  /\ boot = [at |-> "init", tier |-> "free"]
  /\ service = "none" /\ tier = "free"
  /\ restart = [attempts |-> 0, timer |-> FALSE, stable |-> FALSE, failed |-> FALSE]
  /\ inbox = <<>> /\ outbox = <<>> /\ pending = NoCalls
  /\ promise = [c \in Callers |-> None]
  /\ page = [mount |-> None, phase |-> "away"]
  /\ loop = [l \in Loops |-> [i |-> 0, status |-> <<>>]]
  /\ done = {}

Bridge == Receive \/ Serve \/ Hang \/ Die \/ Stable \/ Exited \/ Restarted \/ \E id \in Ids : TimeOut(id)
Licence ==
  \/ Ready \/ PushAtStart \/ refreshLicensePeriodic \/ deactivate \/ refresh \/ Day
  \/ \E k \in Keys : activate(k)
  \/ \E h \in Handlers : Fetched(h)
Page == Enter \/ Leave \/ onBegin \/ handleCancel \/ \E l \in Loops : executeActions(l)
Next == Bridge \/ Licence \/ Page

Spec == Init /\ [][Next]_vars

\* Timers fire and promises are handled; the service works off its requests unless it
\* hangs, and the requests to the cloud end, at the latest after ten seconds.  Strong for
\* the loops, as Room is a bound of the model: it may come and go, the code has no such
\* limit.
Fairness ==
  /\ WF_vars(Receive) /\ WF_vars(Serve) /\ WF_vars(Exited) /\ WF_vars(Restarted)
  /\ \A id \in Ids : WF_vars(TimeOut(id))
  /\ WF_vars(Ready) /\ WF_vars(PushAtStart) /\ WF_vars(refreshLicensePeriodic)
  /\ \A h \in Handlers : WF_vars(Fetched(h))
  /\ \A l \in Loops : SF_vars(executeActions(l))
FairSpec == Spec /\ Fairness

-----------------------------------------------------------------------------
\* Types; the pending requests are the open promises, one each.
TypeOK ==
  /\ key \in Keys \cup {None}
  /\ cache = None \/ (cache.tier \in Tiers /\ cache.age \in Nat)
  /\ current \in Tiers /\ tier \in Tiers
  /\ service \in {"none", "up", "hung", "dead"} /\ restart.failed \in BOOLEAN
  /\ restart.attempts \in 0 .. MAX_RESTART_ATTEMPTS
  /\ page.phase \in {"away", "review", "executing", "complete"}
  /\ done \subseteq Actions
  /\ DOMAIN pending \subseteq Ids
  /\ {pending[id] : id \in DOMAIN pending} = {c \in Callers : promise[c] = Open}
  /\ \A i, j \in DOMAIN pending : pending[i] = pending[j] => i = j

\* An answer that a loop takes is the answer to its own call, also when calls of other
\* handlers are pending and answers to given-up calls arrive (index.ts:153-171).
AnswersAreOwn ==
  \A l \in Loops : promise[l] \notin {None, Open, Error} => promise[l].to = Plan[loop[l].i]

\* The service grants the tier "premium" only if the cloud confirmed a licence within the
\* days of grace, whatever order the handlers' answers and restarts come in
\* (tuning-license-client/src/index.ts:320-335, index.ts:447-481).
GraceEnds == tier = "premium" => cache # None /\ cache.age < GRACE_DAYS

\* A run of the plan comes to its end: no call of it waits for ever, not for a script
\* that hangs, which only the timer ends, not for a service that ended before or after
\* the call was written, and not because the page was left (index.ts:191-199, 236-254;
\* ApplyWorkflowPage.tsx:762-803).
RunsEnd == \A l \in Loops : promise[l] = Open ~> promise[l] = None

\* Unless the service was given up after its last attempt, could not be spawned, or
\* hangs, it runs again and the hourly refresh has it grant the tier of the licence
\* again: after each restart, which forgets it, and after a licence that changed without
\* being pushed (index.ts:204-232, 436-460).
GivenUp ==
  service = "none" /\ ~restart.timer /\ (restart.attempts = MAX_RESTART_ATTEMPTS \/ restart.failed)
TierFollowsLicence == left.hourly => []<>(GivenUp \/ service = "hung" \/ (service = "up" /\ tier = current))

\* Without a key in the environment, a licence that was deactivated for good is gone for
\* good, although a fetch that was under way can bring it back for a while
\* (index.ts:58-99, 424-433).
FreeAtLast == <>[](tier = "free")
DeactivationHolds == left.env = None /\ <>[](key = None) => FreeAtLast

\* An action the page shows as applied was reported as applied by the service
\* (ApplyWorkflowPage.tsx:786).
AppliedWasReported ==
  \A l \in Loops : \A j \in DOMAIN loop[l].status :
    loop[l].status[j] = "success" => Plan[j] \in done
===============================================================================

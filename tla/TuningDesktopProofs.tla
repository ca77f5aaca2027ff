------------------------- MODULE TuningDesktopProofs -------------------------
(***************************************************************************)
(* Proofs about TuningDesktop: its type invariant, that a loop's answers   *)
(* are its own, and that the days of grace end.                            *)
(***************************************************************************)
EXTENDS TuningDesktop, WellFoundedInduction, SequenceTheorems, TLAPS

-----------------------------------------------------------------------------
(* The inductive invariant.                                                *)

Statuses == [DOMAIN Plan -> {"pending", "applying", "success", "failed"}]

\* What moves between main, the service, the cloud and the page.
Shapes ==
  /\ left \in Limits
  /\ cache \in Cached \cup {None} /\ fetches \in [Handlers -> Fetches \cup {None}]
  /\ boot \in [at : {"init", "timer", "done"}, tier : Tiers]
  /\ restart \in [attempts : 0 .. MAX_RESTART_ATTEMPTS, timer : BOOLEAN, stable : BOOLEAN, failed : BOOLEAN]
  /\ inbox \in Seq([id : Ids, request : Actions \cup Tiers]) /\ outbox \in Seq(Lines)
  /\ promise \in [Callers -> Lines \cup {None, Open, Error}]
  /\ \A h \in Handlers : promise[h] \in {None, Open}
  /\ page \in [mount : Loops \cup {None}, phase : {"away", "review", "executing", "complete"}]
  /\ loop \in [Loops -> [i : Nat, status : {<<>>} \cup Statuses]]
  /\ \A l \in Loops : promise[l] # None => loop[l] \in [i : DOMAIN Plan, status : Statuses]

\* Whoever is about to make a call has none open: a handler that waits for the cloud,
\* the start of the application, a loop that was not started.
MayCall ==
  /\ \A h \in Handlers : fetches[h] # None => promise[h] = None
  /\ boot.at # "done" => promise["startup"] = None
  /\ boot.at # "init" => fetches["startup"] = None
  /\ \A l \in left.loops : promise[l] = None /\ page.mount # l
  /\ page.phase = "review" => page.mount \in Loops /\ promise[page.mount] = None

\* The number of a loop's open call is in the pipes with its own action only.
Owned ==
  \A id \in DOMAIN pending : pending[id] \in Loops =>
    LET own == Plan[loop[pending[id]].i]
    IN /\ \A i \in DOMAIN inbox : inbox[i].id = id => inbox[i].request = own
       /\ \A i \in DOMAIN outbox : outbox[i].id = id => outbox[i].to = own

\* A tier on its way is one the cache still grants tomorrow, and the day's refresh
\* takes from the service one that it does not.
GraceLeft == cache # None /\ cache.age + 1 < GRACE_DAYS
Granted ==
  /\ service # "up" => tier = "free"
  /\ boot.at = "init" => service = "none" /\ ~restart.timer
  /\ \A h \in Handlers : fetches[h] # None /\ fetches[h].cached # None =>
       cache # None /\ (cache = fetches[h].cached \/ cache.age = 0)
  /\ boot.at = "timer" /\ boot.tier = "premium" => GraceLeft
  /\ \A i \in DOMAIN inbox : inbox[i].request = "premium" => GraceLeft
Revised ==
  refreshed => /\ boot.at = "done"
               /\ \/ tier = "premium" => GraceLeft
                  \/ fetches["hourly"] # None
                  \/ \E i \in DOMAIN inbox : inbox[i].request \in Tiers

IInv == TypeOK /\ Shapes /\ MayCall /\ Owned /\ AnswersAreOwn /\ Granted /\ Revised /\ GraceEnds

-----------------------------------------------------------------------------
(* Calls.                                                                  *)

LEMMA Least ==
  ASSUME NEW S, S \subseteq Nat, S # {}
  PROVE  \E x \in S : \A y \in S : x <= y
<1>1. IsWellFoundedOn(OpToRel(<, Nat), Nat)
  BY NatLessThanWellFounded, Zenon
<1>2. \E x \in S : \A y \in S : ~(<<y, x>> \in OpToRel(<, Nat))
  BY <1>1, WFMin, Zenon
<1>3. PICK x \in S : \A y \in S : ~(<<y, x>> \in OpToRel(<, Nat))
  BY <1>2
<1>4. ASSUME NEW y \in S PROVE x <= y
  <2>1. ~(y < x)
    BY <1>3, <1>4, Zenon DEF OpToRel
  <2> QED BY <2>1
<1> QED BY <1>4

LEMMA NewIdIsNew ==
  ASSUME Room
  PROVE  NewId \in Ids \ (DOMAIN pending \cup Messages(inbox) \cup Messages(outbox))
<1>1. PICK unused : unused = Ids \ (DOMAIN pending \cup Messages(inbox) \cup Messages(outbox))
  OBVIOUS
<1>2. unused # {} /\ unused \subseteq Nat
  BY <1>1, IdsAssumption DEF Room
<1>3. \E id \in unused : \A other \in unused : id <= other
  BY <1>2, Least
<1>4. NewId = CHOOSE id \in unused : \A other \in unused : id <= other
  BY <1>1 DEF NewId
<1>5. NewId \in unused
  BY <1>3, <1>4
<1> QED BY <1>1, <1>5

\* A call that got a number.
Numbered(c, request, n) ==
  /\ n \in Ids \ DOMAIN pending /\ service # "none"
  /\ \A i \in DOMAIN inbox : inbox[i].id # n
  /\ \A i \in DOMAIN outbox : outbox[i].id # n
  /\ promise' = [promise EXCEPT ![c] = Open]
  /\ DOMAIN pending' = DOMAIN pending \cup {n} /\ pending'[n] = c
  /\ \A id \in DOMAIN pending : pending'[id] = pending[id]
  /\ inbox' = IF service = "up" THEN Append(inbox, [id |-> n, request |-> request]) ELSE inbox
Called(c, request) ==
  \/ /\ service # "up" /\ promise' = [promise EXCEPT ![c] = Settle(c, Error)] /\ UNCHANGED <<pending, inbox>>
  \/ \E n \in Ids : Numbered(c, request, n)

LEMMA Calls ==
  ASSUME NEW c, NEW request, callService(c, request)
  PROVE  Called(c, request)
<1>1. CASE service \in {"none", "dead"} /\ promise' = [promise EXCEPT ![c] = Settle(c, Error)] /\ UNCHANGED <<pending, inbox>>
  BY <1>1 DEF Called
<1>2. CASE /\ service # "none" /\ Room /\ promise' = [promise EXCEPT ![c] = Open]
           /\ pending' = [id \in DOMAIN pending \cup {NewId} |-> IF id = NewId THEN c ELSE pending[id]]
           /\ inbox' = IF service = "up" THEN Append(inbox, [id |-> NewId, request |-> request]) ELSE inbox
  <2>1. PICK n : n = NewId
    OBVIOUS
  <2>2. n \in Ids \ (DOMAIN pending \cup Messages(inbox) \cup Messages(outbox))
    BY <1>2, <2>1, NewIdIsNew
  <2>3. /\ \A i \in DOMAIN inbox : inbox[i].id # n
        /\ \A i \in DOMAIN outbox : outbox[i].id # n
    BY <2>2 DEF Messages
  <2>4. /\ DOMAIN pending' = DOMAIN pending \cup {n} /\ pending'[n] = c
        /\ \A id \in DOMAIN pending : pending'[id] = pending[id]
    BY <1>2, <2>1, <2>2
  <2> QED BY <1>2, <2>1, <2>2, <2>3, <2>4 DEF Called, Numbered
<1> QED BY <1>1, <1>2 DEF callService

-----------------------------------------------------------------------------
(* The handlers of the licence.                                            *)

\* Handler h asks the cloud, ...
Asks(h) ==
  /\ UNCHANGED <<cache, boot, service, restart, bridge>> /\ (h = "startup" => boot.at = "init")
  /\ \E k \in Keys : fetches' = [fetches EXCEPT ![h] = [key |-> k, cached |-> cache]]
\* ... or has found tier t and does with it what it does.
Finds(h, t) ==
  /\ t \in Tiers /\ (t = "premium" => GraceLeft')
  /\ cache' = cache \/ (cache' \in Cached /\ cache'.age = 0)
  /\ fetches' = [fetches EXCEPT ![h] = None]
  /\ \/ UNCHANGED <<bridge, boot, service, restart>> /\ h = "refresh"
     \/ /\ UNCHANGED bridge /\ startService
        /\ h = "startup" /\ boot.at = "init" /\ boot' = [at |-> "timer", tier |-> t]
     \/ /\ Called(h, t) /\ UNCHANGED <<service, restart>>
        /\ \/ boot' = boot /\ h # "startup"
           \/ h = "startup" /\ boot' = [boot EXCEPT !.at = "done"]
HandlerStep(h) ==
  /\ h \in Handlers /\ promise[h] = None
  /\ Asks(h) \/ \E t : Finds(h, t)
  /\ key' \in Keys \cup {None} /\ current' \in Tiers
  /\ left' \in Limits /\ left'.loops = left.loops
  /\ refreshed' = refreshed \/ (refreshed' = TRUE /\ h = "hourly" /\ boot.at = "done")
  /\ UNCHANGED <<outbox, tier, pages>>

LEMMA Grace ==
  ASSUME NEW c \in Cached
  PROVE  /\ applyOfflineGrace(c) \in Tiers
         /\ applyOfflineGrace(c) = "premium" => c.age + 1 < GRACE_DAYS
<1>1. c.tier \in Tiers /\ c.age \in Nat
  BY DEF Cached
<1>2. PICK a : a = c.age
  OBVIOUS
<1>3. Remaining(c) # 0 => a + 1 < GRACE_DAYS
  BY <1>1, <1>2, BoundsAssumption DEF Remaining
<1> QED BY <1>1, <1>2, <1>3 DEF applyOfflineGrace, Tiers

LEMMA FreshIsLeft ==
  ASSUME NEW c \in Cached, c.age = 0
  PROVE  c # None /\ c.age + 1 < GRACE_DAYS
BY ValuesAssumption, BoundsAssumption

\* What Use makes of a tier that may be pushed.
LEMMA Uses ==
  ASSUME Shapes, MayCall, NEW h \in Handlers, NEW t \in Tiers, promise[h] = None, Use(h, t),
         t = "premium" => GraceLeft', h = "startup" => boot.at = "init",
         cache' = cache \/ (cache' \in Cached /\ cache'.age = 0), fetches' = [fetches EXCEPT ![h] = None]
  PROVE  Finds(h, t)
<1>1. CASE h = "startup"
  BY <1>1 DEF Use, Finds
<1>2. CASE h = "refresh"
  BY <1>2 DEF Use, Finds
<1>3. CASE h \notin {"startup", "refresh"}
  <2>1. callService(h, t) /\ UNCHANGED <<boot, service, restart>>
    BY <1>3 DEF Use
  <2> QED BY <1>3, <2>1, Calls DEF Finds
<1> QED BY <1>1, <1>2, <1>3

LEMMA Inits ==
  ASSUME Shapes, MayCall, NEW h \in Handlers, NEW k \in Keys \cup {None}, promise[h] = None, fetches[h] = None,
         current \in Tiers, initLicense(h, k), h = "startup" => boot.at = "init"
  PROVE  (Asks(h) \/ \E t : Finds(h, t)) /\ current' \in Tiers
<1>0. fetches = [fetches EXCEPT ![h] = None]
  BY DEF Shapes
<1>1. CASE k = None
  <2>1. current' = "free" /\ Use(h, "free") /\ UNCHANGED <<cache, fetches>>
    BY <1>1 DEF initLicense
  <2>2. Finds(h, "free")
    <3>1. "free" \in Tiers
      BY DEF Tiers
    <3> QED BY <1>0, <2>1, <3>1, Uses
  <2> QED BY <2>1, <2>2 DEF Finds
<1>2. CASE k # None /\ cache # None /\ cache.age = 0
  <2>1. current' = applyOfflineGrace(cache) /\ Use(h, current') /\ UNCHANGED <<cache, fetches>>
    BY <1>2 DEF initLicense
  <2>2. PICK t : t = current'
    OBVIOUS
  <2>3. cache \in Cached
    BY <1>2 DEF Shapes
  <2>4. t \in Tiers /\ (t = "premium" => GraceLeft')
    BY <1>2, <2>1, <2>2, <2>3, Grace DEF GraceLeft
  <2>5. Use(h, t) /\ fetches' = [fetches EXCEPT ![h] = None]
    BY <1>0, <2>1, <2>2
  <2>6. Finds(h, t)
    BY <2>1, <2>4, <2>5, Uses
  <2> QED BY <2>2, <2>4, <2>6
<1>3. CASE k # None /\ ~(cache # None /\ cache.age = 0)
  <2>1. /\ fetches' = [fetches EXCEPT ![h] = [key |-> k, cached |-> cache]]
        /\ UNCHANGED <<current, cache, boot, service, restart, bridge>>
    BY <1>3 DEF initLicense
  <2>2. Asks(h)
    BY <1>3, <2>1 DEF Asks
  <2> QED BY <2>1, <2>2
<1> QED BY <1>1, <1>2, <1>3

LEMMA Drawn ==
  ASSUME left \in Limits, NEW h \in {"activate", "deactivate", "refresh"}, Asked(h)
  PROVE  left' \in Limits /\ left'.loops = left.loops /\ h \in Handlers /\ fetches[h] = None /\ promise[h] = None /\ boot.at # "init"
<1>1. left[h] \in Nat /\ left[h] > 0 /\ left' = [left EXCEPT ![h] = @ - 1]
  BY DEF Asked, Limits
<1>2. PICK n : n = left[h] - 1
  OBVIOUS
<1>3. n \in Nat /\ left' = [left EXCEPT ![h] = n]
  BY <1>1, <1>2
<1>4. left' \in Limits /\ left'.loops = left.loops
  BY <1>3 DEF Limits
<1> QED BY <1>4 DEF Asked, Idle, Running, Handlers

LEMMA FetchedSteps ==
  ASSUME TypeOK, Shapes, MayCall, Granted, NEW h \in Handlers, Fetched(h)
  PROVE  HandlerStep(h)
<1>0. /\ promise[h] = None /\ fetches[h] \in Fetches /\ (h = "startup" => boot.at = "init")
      /\ left \in Limits /\ UNCHANGED <<key, refreshed, outbox, tier, pages, left>>
      /\ fetches' = [fetches EXCEPT ![h] = None] /\ Use(h, current')
  BY DEF Fetched, MayCall, Shapes
<1>1. PICK t : t = current'
  OBVIOUS
<1>2. CASE current' = Tier[fetches[h].key] /\ cache' = [tier |-> current', age |-> 0]
  <2>1. t \in Tiers
    BY <1>0, <1>1, <1>2, TierAssumption DEF Fetches, Tiers
  <2>2. cache' \in Cached /\ cache'.age = 0
    BY <1>1, <1>2, <2>1 DEF Cached
  <2>3. PICK c : c = cache'
    OBVIOUS
  <2>4. c # None /\ c.age + 1 < GRACE_DAYS
    BY <2>2, <2>3, FreshIsLeft
  <2>5. GraceLeft'
    BY <2>3, <2>4 DEF GraceLeft
  <2>6. Finds(h, t)
    BY <1>0, <1>1, <2>1, <2>2, <2>5, Uses
  <2> QED BY <1>0, <1>1, <2>1, <2>6 DEF HandlerStep, TypeOK
<1>3. CASE /\ current' = IF fetches[h].cached = None THEN "free" ELSE applyOfflineGrace(fetches[h].cached)
           /\ cache' = cache
  <2>1. PICK c : c = fetches[h].cached
    OBVIOUS
  <2>2. c \in Cached \cup {None}
    BY <1>0, <2>1 DEF Fetches
  <2>3. c # None => cache # None /\ (cache = c \/ cache.age = 0)
    BY <2>1, <1>0 DEF Granted, Fetched
  <2>4. t \in Tiers /\ (t = "premium" => c # None /\ c.age + 1 < GRACE_DAYS)
    BY <1>1, <1>3, <2>1, <2>2, Grace DEF Tiers
  <2>5. t = "premium" => GraceLeft
    <3>1. CASE c # None /\ cache = c
      BY <2>4, <3>1 DEF GraceLeft
    <3>2. CASE cache # None /\ cache.age = 0
      BY <3>2, BoundsAssumption DEF GraceLeft
    <3> QED BY <2>3, <2>4, <3>1, <3>2
  <2>6. t = "premium" => GraceLeft'
    BY <1>3, <2>5 DEF GraceLeft
  <2>7. Finds(h, t)
    BY <1>0, <1>1, <1>3, <2>4, <2>6, Uses
  <2> QED BY <1>0, <1>1, <2>4, <2>7 DEF HandlerStep, TypeOK
<1> QED BY <1>2, <1>3 DEF Fetched

LEMMA HandlerSteps ==
  ASSUME TypeOK, Shapes, MayCall, Granted,
         \/ Ready \/ PushAtStart \/ refreshLicensePeriodic \/ deactivate \/ refresh
         \/ \E k \in Keys : activate(k)
         \/ \E h \in Handlers : Fetched(h)
  PROVE  \E h \in Handlers : HandlerStep(h)
<1>0. left \in Limits /\ key \in Keys \cup {None} /\ current \in Tiers
      /\ loadStoredLicenseKey \in Keys \cup {None}
  BY DEF Shapes, TypeOK, Limits, loadStoredLicenseKey
<1>1. CASE Ready
  <2>1. /\ "startup" \in Handlers /\ promise["startup"] = None /\ fetches["startup"] = None /\ boot.at = "init"
        /\ initLicense("startup", loadStoredLicenseKey) /\ UNCHANGED <<key, refreshed, outbox, tier, pages, left>>
    BY <1>1 DEF Ready, MayCall, Handlers
  <2>2. (Asks("startup") \/ \E t : Finds("startup", t)) /\ current' \in Tiers
    BY <1>0, <2>1, Inits
  <2>3. HandlerStep("startup")
    BY <1>0, <2>1, <2>2 DEF HandlerStep
  <2> QED BY <2>1, <2>3
<1>2. CASE PushAtStart
  <2>1. /\ "startup" \in Handlers /\ promise["startup"] = None /\ fetches["startup"] = None /\ boot.tier \in Tiers
        /\ boot' = [boot EXCEPT !.at = "done"] /\ callService("startup", boot.tier)
        /\ UNCHANGED <<key, cache, current, fetches, refreshed, process, pages, left>>
        /\ (boot.tier = "premium" => GraceLeft)
    BY <1>2 DEF PushAtStart, MayCall, Handlers, Shapes, Granted
  <2>2. PICK t : t = boot.tier
    OBVIOUS
  <2>3. Called("startup", t)
    BY <2>1, <2>2, Calls
  <2>4. fetches' = [fetches EXCEPT !["startup"] = None]
    BY <2>1 DEF Shapes
  <2>5. t = "premium" => GraceLeft'
    BY <2>1, <2>2 DEF GraceLeft
  <2>6. Finds("startup", t)
    BY <2>1, <2>2, <2>3, <2>4, <2>5 DEF Finds, process
  <2>7. HandlerStep("startup")
    BY <1>0, <2>1, <2>6 DEF HandlerStep, process
  <2> QED BY <2>1, <2>7
<1>3. CASE refreshLicensePeriodic
  <2>1. /\ "hourly" \in Handlers /\ promise["hourly"] = None /\ fetches["hourly"] = None /\ boot.at = "done"
        /\ initLicense("hourly", loadStoredLicenseKey) /\ refreshed' = TRUE /\ UNCHANGED <<key, outbox, tier, pages, left>>
    BY <1>3 DEF refreshLicensePeriodic, Idle, Handlers
  <2>2. (Asks("hourly") \/ \E t : Finds("hourly", t)) /\ current' \in Tiers
    BY <1>0, <2>1, Inits
  <2>3. HandlerStep("hourly")
    BY <1>0, <2>1, <2>2 DEF HandlerStep
  <2> QED BY <2>1, <2>3
<1>4. CASE deactivate
  <2>1. Asked("deactivate") /\ key' = None /\ current' = "free" /\ callService("deactivate", "free")
        /\ UNCHANGED <<cache, fetches, boot, refreshed, process, pages>>
    BY <1>4 DEF deactivate
  <2>2. /\ left' \in Limits /\ left'.loops = left.loops /\ "deactivate" \in Handlers
        /\ fetches["deactivate"] = None /\ promise["deactivate"] = None
    BY <1>0, <2>1, Drawn
  <2>3. Called("deactivate", "free") /\ "free" \in Tiers
    BY <2>1, Calls DEF Tiers
  <2>4. fetches' = [fetches EXCEPT !["deactivate"] = None]
    BY <2>1, <2>2 DEF Shapes
  <2>5. Finds("deactivate", "free")
    BY <2>1, <2>3, <2>4 DEF Finds, process
  <2>6. HandlerStep("deactivate")
    BY <2>1, <2>2, <2>3, <2>5 DEF HandlerStep, process
  <2> QED BY <2>2, <2>6
<1>5. CASE refresh
  <2>1. Asked("refresh") /\ initLicense("refresh", loadStoredLicenseKey) /\ UNCHANGED <<key, refreshed, outbox, tier, pages>>
    BY <1>5 DEF refresh
  <2>2. /\ left' \in Limits /\ left'.loops = left.loops /\ "refresh" \in Handlers
        /\ fetches["refresh"] = None /\ promise["refresh"] = None
    BY <1>0, <2>1, Drawn
  <2>3. (Asks("refresh") \/ \E t : Finds("refresh", t)) /\ current' \in Tiers
    BY <1>0, <2>1, <2>2, Inits
  <2>4. HandlerStep("refresh")
    BY <1>0, <2>1, <2>2, <2>3 DEF HandlerStep
  <2> QED BY <2>2, <2>4
<1>6. CASE \E k \in Keys : activate(k)
  <2>1. PICK k \in Keys : activate(k)
    BY <1>6
  <2>2. Asked("activate") /\ key' = k /\ initLicense("activate", k) /\ UNCHANGED <<refreshed, outbox, tier, pages>>
    BY <2>1 DEF activate
  <2>3. /\ left' \in Limits /\ left'.loops = left.loops /\ "activate" \in Handlers
        /\ fetches["activate"] = None /\ promise["activate"] = None
    BY <1>0, <2>2, Drawn
  <2>4. (Asks("activate") \/ \E t : Finds("activate", t)) /\ current' \in Tiers
    BY <1>0, <2>2, <2>3, Inits
  <2>5. HandlerStep("activate")
    BY <1>0, <2>2, <2>3, <2>4 DEF HandlerStep
  <2> QED BY <2>3, <2>5
<1>7. CASE \E h \in Handlers : Fetched(h)
  BY <1>7, FetchedSteps
<1> QED BY <1>1, <1>2, <1>3, <1>4, <1>5, <1>6, <1>7

-----------------------------------------------------------------------------
(* The apply page.                                                         *)

\* Loop l calls the service, with the action its index then names.
LoopCalls(l) ==
  /\ l \in Loops \ left.loops /\ promise[l] # Open
  /\ Called(l, Plan[loop'[l].i]) /\ loop'[l] \in [i : DOMAIN Plan, status : Statuses]
  /\ loop' \in [Loops -> [i : Nat, status : {<<>>} \cup Statuses]]
  /\ \A m \in Loops \ {l} : loop'[m] = loop[m]
  /\ page' \in [mount : Loops \cup {None}, phase : {"away", "review", "executing", "complete"}]
  /\ page'.mount = page.mount
  /\ page'.phase = "review" => page.phase = "review" /\ page.mount # l
  /\ UNCHANGED <<done, licence, process, left>>
LoopEnds(l) ==
  /\ l \in Loops \ left.loops /\ promise[l] \notin {None, Open} /\ promise' = [promise EXCEPT ![l] = None]
  /\ loop' \in [Loops -> [i : Nat, status : {<<>>} \cup Statuses]]
  /\ \A m \in Loops \ {l} : loop'[m] = loop[m]
  /\ page' \in [mount : Loops \cup {None}, phase : {"away", "review", "executing", "complete"}]
  /\ page'.mount = page.mount
  /\ page'.phase = "review" => page.phase = "review" /\ page.mount # l
  /\ UNCHANGED <<pending, inbox, done, licence, process, left>>

LEMMA Begins ==
  ASSUME Shapes, MayCall, onBegin
  PROVE  \E l \in Loops : LoopCalls(l)
<1>1. PICK l : l = page.mount
  OBVIOUS
<1>2. /\ l \in Loops /\ promise[l] = None /\ page' = [page EXCEPT !.phase = "executing"]
      /\ loop' = [loop EXCEPT ![l] = [i |-> 1, status |-> [j \in DOMAIN Plan |-> IF j = 1 THEN "applying" ELSE "pending"]]]
      /\ callService(l, Plan[1]) /\ UNCHANGED <<done, licence, process, left>>
  BY <1>1 DEF onBegin, MayCall
<1>3. l \notin left.loops
  BY <1>1 DEF MayCall
<1>4. 1 \in DOMAIN Plan /\ 1 \in Nat
  BY PlanAssumption
<1>5. PICK r : r = [i |-> 1, status |-> [j \in DOMAIN Plan |-> IF j = 1 THEN "applying" ELSE "pending"]]
  OBVIOUS
<1>6. r \in [i : DOMAIN Plan, status : Statuses] /\ r \in [i : Nat, status : {<<>>} \cup Statuses] /\ r.i = 1
  BY <1>4, <1>5 DEF Statuses
<1>7. loop' = [loop EXCEPT ![l] = r] /\ loop \in [Loops -> [i : Nat, status : {<<>>} \cup Statuses]]
  BY <1>2, <1>5 DEF Shapes
<1>8. /\ loop' \in [Loops -> [i : Nat, status : {<<>>} \cup Statuses]] /\ loop'[l] = r
      /\ \A m \in Loops \ {l} : loop'[m] = loop[m]
  BY <1>2, <1>6, <1>7
<1>9. Called(l, Plan[loop'[l].i])
  BY <1>2, <1>6, <1>8, Calls
<1>10. page' \in [mount : Loops \cup {None}, phase : {"away", "review", "executing", "complete"}]
       /\ page'.mount = page.mount /\ page'.phase # "review"
  BY <1>2 DEF Shapes
<1>11. promise[l] # Open
  BY <1>2, ValuesAssumption
<1> QED BY <1>2, <1>3, <1>6, <1>8, <1>9, <1>10, <1>11 DEF LoopCalls

LEMMA GoesOn ==
  ASSUME Shapes, MayCall, NEW l \in Loops, executeActions(l)
  PROVE  LoopCalls(l) \/ LoopEnds(l)
<1>1. /\ promise[l] \notin {None, Open} /\ loop[l] \in [i : DOMAIN Plan, status : Statuses]
      /\ loop \in [Loops -> [i : Nat, status : {<<>>} \cup Statuses]]
      /\ page \in [mount : Loops \cup {None}, phase : {"away", "review", "executing", "complete"}]
  BY DEF executeActions, Shapes
<1>2. l \notin left.loops /\ (page.phase = "review" => page.mount # l)
  BY <1>1 DEF MayCall
<1>3. PICK i, s : i = loop[l].i /\ s = [loop[l].status EXCEPT ![i] = Shown(promise[l])]
  OBVIOUS
<1>4. i \in DOMAIN Plan /\ i \in 1 .. Len(Plan) /\ s \in Statuses
  BY <1>1, <1>3, PlanAssumption DEF Statuses, Shown
<1>5. CASE i < Len(Plan)
  <2>1. PICK r : r = [i |-> i + 1, status |-> [s EXCEPT ![i + 1] = "applying"]]
    OBVIOUS
  <2>2. loop' = [loop EXCEPT ![l] = r] /\ callService(l, Plan[i + 1]) /\ page' = page /\ UNCHANGED <<done, licence, process, left>>
    BY <1>3, <1>5, <2>1 DEF executeActions
  <2>3. i + 1 \in DOMAIN Plan /\ i + 1 \in Nat
    BY <1>4, <1>5, PlanAssumption
  <2>4. [s EXCEPT ![i + 1] = "applying"] \in Statuses
    BY <1>4 DEF Statuses
  <2>5. r \in [i : DOMAIN Plan, status : Statuses] /\ r \in [i : Nat, status : {<<>>} \cup Statuses] /\ r.i = i + 1
    BY <2>1, <2>3, <2>4
  <2>6. /\ loop' \in [Loops -> [i : Nat, status : {<<>>} \cup Statuses]] /\ loop'[l] = r
        /\ \A m \in Loops \ {l} : loop'[m] = loop[m]
    BY <1>1, <2>2, <2>5
  <2>7. Called(l, Plan[loop'[l].i])
    BY <2>2, <2>5, <2>6, Calls
  <2> QED BY <1>1, <1>2, <2>2, <2>5, <2>6, <2>7 DEF LoopCalls
<1>6. CASE ~(i < Len(Plan))
  <2>1. /\ loop' = [loop EXCEPT ![l].status = s] /\ promise' = [promise EXCEPT ![l] = None]
        /\ page' = IF page.mount = l /\ page.phase # "away" THEN [page EXCEPT !.phase = "complete"] ELSE page
        /\ UNCHANGED <<pending, inbox>> /\ UNCHANGED <<done, licence, process, left>>
    BY <1>3, <1>6 DEF executeActions
  <2>2. /\ loop' \in [Loops -> [i : Nat, status : {<<>>} \cup Statuses]]
        /\ \A m \in Loops \ {l} : loop'[m] = loop[m]
    BY <1>1, <1>4, <2>1
  <2>3. page' \in [mount : Loops \cup {None}, phase : {"away", "review", "executing", "complete"}]
        /\ page'.mount = page.mount /\ (page'.phase = "review" => page.phase = "review")
    BY <1>1, <2>1
  <2> QED BY <1>1, <1>2, <2>1, <2>2, <2>3 DEF LoopEnds
<1> QED BY <1>5, <1>6

-----------------------------------------------------------------------------
(* What a step is.                                                         *)

\* The call id is over for its caller.
Closes(id, answer) ==
  /\ id \in DOMAIN pending /\ pending' = Without(id)
  /\ promise' = [promise EXCEPT ![pending[id]] = Settle(pending[id], answer)]
Answered ==
  LET line == Head(outbox)
  IN /\ outbox # <<>> /\ outbox' = Tail(outbox)
     /\ \/ line.id \notin DOMAIN pending /\ UNCHANGED <<pending, promise>>
        \/ Closes(line.id, Error)
        \/ Closes(line.id, line)
     /\ UNCHANGED <<inbox, service, restart, tier, licence, pages, left>>

Step ==
  \/ \E h \in Handlers : HandlerStep(h)
  \/ \E l \in Loops : LoopCalls(l) \/ LoopEnds(l)
  \/ Answered
  \/ \E id \in Ids : TimeOut(id)
  \/ Serve \/ Hang \/ Die \/ Stable \/ Exited \/ Restarted \/ Day
  \/ Enter \/ Leave \/ handleCancel

LEMMA Steps ==
  ASSUME TypeOK, Shapes, MayCall, Granted, Next
  PROVE  Step
<1>1. CASE Receive
  BY <1>1 DEF Receive, Step, Answered, Closes
<1>2. CASE \E l \in Loops : executeActions(l)
  BY <1>2, GoesOn DEF Step
<1>3. CASE onBegin
  BY <1>3, Begins DEF Step
<1>4. CASE Licence /\ ~Day
  BY <1>4, HandlerSteps DEF Licence, Step
<1> QED BY <1>1, <1>2, <1>3, <1>4 DEF Next, Bridge, Page, Step, Licence

-----------------------------------------------------------------------------
(* The pending calls and the open promises.                                *)

Matched ==
  /\ \A id \in DOMAIN pending : id \in Ids /\ pending[id] \in Callers /\ promise[pending[id]] = Open
  /\ \A c \in Callers : promise[c] = Open => \E id \in DOMAIN pending : pending[id] = c
  /\ \A i, j \in DOMAIN pending : pending[i] = pending[j] => i = j
Promised ==
  /\ promise \in [Callers -> Lines \cup {None, Open, Error}]
  /\ \A h \in Handlers : promise[h] \in {None, Open}

LEMMA Matching ==
  Matched <=> /\ DOMAIN pending \subseteq Ids
              /\ {pending[id] : id \in DOMAIN pending} = {c \in Callers : promise[c] = Open}
              /\ \A i, j \in DOMAIN pending : pending[i] = pending[j] => i = j
BY DEF Matched

LEMMA CallMatches ==
  ASSUME Matched, Promised, NEW c \in Callers, NEW r, promise[c] # Open, Called(c, r)
  PROVE  /\ Matched' /\ Promised'
         /\ \A d \in Callers \ {c} : promise'[d] = promise[d]
<1>0. \A h \in Handlers : h \notin Loops
  BY LoopsAssumption
<1>1. CASE promise' = [promise EXCEPT ![c] = Settle(c, Error)] /\ UNCHANGED <<pending, inbox>>
  <2>1. Settle(c, Error) \in {None, Error} /\ (c \in Handlers => Settle(c, Error) = None)
    BY <1>0 DEF Settle
  <2>2. Promised' /\ \A d \in Callers \ {c} : promise'[d] = promise[d]
    BY <1>1, <2>1 DEF Promised
  <2>3. promise'[c] # Open
    BY <1>1, <2>1, ValuesAssumption DEF Promised
  <2>4. Matched'
    BY <1>1, <2>2, <2>3 DEF Matched
  <2> QED BY <2>2, <2>4
<1>2. CASE \E n \in Ids : Numbered(c, r, n)
  <2>1. PICK n \in Ids : Numbered(c, r, n)
    BY <1>2
  <2>2. /\ promise' = [promise EXCEPT ![c] = Open] /\ n \notin DOMAIN pending
        /\ DOMAIN pending' = DOMAIN pending \cup {n} /\ pending'[n] = c
        /\ \A id \in DOMAIN pending : pending'[id] = pending[id]
    BY <2>1 DEF Numbered
  <2>3. Promised' /\ promise'[c] = Open /\ \A d \in Callers \ {c} : promise'[d] = promise[d]
    BY <2>2 DEF Promised
  <2>4. \A id \in DOMAIN pending : pending[id] # c
    BY DEF Matched
  <2>5. \A id \in DOMAIN pending' : id \in Ids /\ pending'[id] \in Callers /\ promise'[pending'[id]] = Open
    BY <2>2, <2>3, <2>4 DEF Matched
  <2>6. \A d \in Callers : promise'[d] = Open => \E id \in DOMAIN pending' : pending'[id] = d
    <3>1. ASSUME NEW d \in Callers, promise'[d] = Open, d # c PROVE \E id \in DOMAIN pending' : pending'[id] = d
      <4>1. PICK id \in DOMAIN pending : pending[id] = d
        BY <2>3, <3>1 DEF Matched
      <4> QED BY <2>2, <4>1
    <3> QED BY <2>2, <3>1
  <2>7. \A i, j \in DOMAIN pending' : pending'[i] = pending'[j] => i = j
    BY <2>2, <2>4 DEF Matched
  <2> QED BY <2>3, <2>5, <2>6, <2>7 DEF Matched
<1> QED BY <1>1, <1>2 DEF Called

LEMMA CloseMatches ==
  ASSUME Matched, Promised, NEW id, NEW answer \in Lines \cup {Error}, Closes(id, answer)
  PROVE  /\ Matched' /\ Promised'
         /\ \A d \in Callers : promise'[d] = promise[d] \/ promise[d] = Open
<1>0. \A h \in Handlers : h \notin Loops
  BY LoopsAssumption
<1>1. PICK c \in Callers : c = pending[id]
  BY DEF Closes, Matched
<1>2. PICK a : a = Settle(c, answer)
  OBVIOUS
<1>3. a \in Lines \cup {None, Error} /\ (c \in Handlers => a = None)
  BY <1>0, <1>2 DEF Settle
<1>4. a # Open
  BY <1>3, ValuesAssumption
<1>5. /\ id \in DOMAIN pending /\ promise' = [promise EXCEPT ![c] = a] /\ promise[c] = Open
      /\ DOMAIN pending' = DOMAIN pending \ {id}
      /\ \A i \in DOMAIN pending' : pending'[i] = pending[i]
  BY <1>1, <1>2 DEF Closes, Without, Matched
<1>6. Promised' /\ promise'[c] = a /\ \A d \in Callers \ {c} : promise'[d] = promise[d]
  BY <1>3, <1>5 DEF Promised
<1>7. \A i \in DOMAIN pending' : pending'[i] # c
  BY <1>1, <1>5 DEF Matched
<1>8. \A i \in DOMAIN pending' : i \in Ids /\ pending'[i] \in Callers /\ promise'[pending'[i]] = Open
  BY <1>5, <1>6, <1>7 DEF Matched
<1>9. \A d \in Callers : promise'[d] = Open => \E i \in DOMAIN pending' : pending'[i] = d
  <2>1. ASSUME NEW d \in Callers, promise'[d] = Open PROVE \E i \in DOMAIN pending' : pending'[i] = d
    <3>1. d # c /\ promise[d] = Open
      BY <1>4, <1>6, <2>1
    <3>2. PICK i \in DOMAIN pending : pending[i] = d
      BY <3>1 DEF Matched
    <3> QED BY <1>1, <1>5, <3>1, <3>2
  <2> QED BY <2>1
<1>10. \A i, j \in DOMAIN pending' : pending'[i] = pending'[j] => i = j
  BY <1>5 DEF Matched
<1> QED BY <1>5, <1>6, <1>8, <1>9, <1>10 DEF Matched

LEMMA ExitMatches ==
  ASSUME Matched, Promised, Exited
  PROVE  /\ Matched' /\ Promised'
         /\ \A d \in Callers : promise'[d] = promise[d] \/ promise[d] = Open
<1>0. \A h \in Handlers : h \notin Loops
  BY LoopsAssumption
<1>1. \A c \in Callers : Settle(c, Error) \in {None, Error} /\ Settle(c, Error) # Open /\ (c \in Handlers => Settle(c, Error) = None)
  BY <1>0, ValuesAssumption DEF Settle
<1>2. /\ pending' = NoCalls /\ DOMAIN pending' = {}
      /\ promise' = [c \in Callers |-> IF \E id \in DOMAIN pending : pending[id] = c THEN Settle(c, Error) ELSE promise[c]]
  BY DEF Exited, NoCalls
<1>3. \A c \in Callers : (\E id \in DOMAIN pending : pending[id] = c) <=> promise[c] = Open
  BY DEF Matched
<1>4. \A c \in Callers : promise'[c] = IF promise[c] = Open THEN Settle(c, Error) ELSE promise[c]
  BY <1>2, <1>3
<1>5. \A c \in Callers : promise'[c] # Open
  BY <1>1, <1>4
<1>6. Handlers \subseteq Callers
  BY DEF Callers
<1>7. \A c \in Callers : promise'[c] \in Lines \cup {None, Open, Error}
  BY <1>1, <1>4 DEF Promised
<1>8. \A h \in Handlers : promise'[h] \in {None, Open}
  BY <1>1, <1>4, <1>6 DEF Promised
<1>9. DOMAIN promise' = Callers /\ promise' = [c \in Callers |-> promise'[c]]
  BY <1>2
<1> QED BY <1>2, <1>4, <1>5, <1>7, <1>8, <1>9 DEF Matched, Promised

LEMMA CallerSets ==
  /\ Handlers \subseteq Callers /\ Loops \subseteq Callers /\ "startup" \in Handlers
  /\ \A h \in Handlers : \A l \in Loops : h # l
BY LoopsAssumption DEF Callers, Handlers

\* A step of the handlers and loops, in what it does to the promises: of its own caller.
LEMMA ActorPromises ==
  ASSUME Matched, Promised, NEW c \in Callers,
         \/ c \in Handlers /\ HandlerStep(c)
         \/ c \in Loops /\ (LoopCalls(c) \/ LoopEnds(c))
  PROVE  Matched' /\ Promised' /\ \A d \in Callers \ {c} : promise'[d] = promise[d]
<1>1. CASE \E r : Called(c, r) /\ promise[c] # Open
  BY <1>1, CallMatches
<1>2. CASE UNCHANGED bridge
  BY <1>2 DEF bridge, Matched, Promised
<1>3. CASE LoopEnds(c)
  <2>1. promise' = [promise EXCEPT ![c] = None] /\ UNCHANGED <<pending, inbox>> /\ promise[c] \notin {None, Open} /\ c \in Loops
    BY <1>3 DEF LoopEnds
  <2>2. None # Open /\ c \notin Handlers
    BY <2>1, ValuesAssumption, CallerSets
  <2>3. promise'[c] = None /\ Promised' /\ \A d \in Callers \ {c} : promise'[d] = promise[d]
    BY <2>1, <2>2 DEF Promised
  <2>4. Matched'
    BY <2>1, <2>2, <2>3 DEF Matched
  <2> QED BY <2>3, <2>4
<1>4. CASE c \in Handlers /\ HandlerStep(c)
  <2>1. promise[c] # Open /\ (Asks(c) \/ \E t : Finds(c, t))
    BY <1>4, ValuesAssumption DEF HandlerStep
  <2>2. UNCHANGED bridge \/ \E r : Called(c, r)
    BY <2>1 DEF Asks, Finds
  <2> QED BY <1>1, <1>2, <2>1, <2>2
<1>5. CASE LoopCalls(c)
  <2>1. promise[c] # Open /\ \E r : Called(c, r)
    BY <1>5 DEF LoopCalls
  <2> QED BY <1>1, <2>1
<1> QED BY <1>3, <1>4, <1>5

\* Of the other steps, none opens a promise.
Other ==
  \/ Answered \/ (\E id \in Ids : TimeOut(id))
  \/ Serve \/ Hang \/ Die \/ Stable \/ Exited \/ Restarted \/ Day
  \/ Enter \/ Leave \/ handleCancel

LEMMA OtherPromises ==
  ASSUME Matched, Promised, outbox \in Seq(Lines), Other
  PROVE  /\ Matched' /\ Promised'
         /\ \A d \in Callers : promise'[d] = promise[d] \/ promise[d] = Open
<1>1. CASE \E id : \E answer \in Lines \cup {Error} : Closes(id, answer)
  BY <1>1, CloseMatches
<1>2. CASE UNCHANGED <<pending, promise>>
  BY <1>2 DEF Matched, Promised
<1>3. CASE Exited
  BY <1>3, ExitMatches
<1>4. CASE Answered
  <2>1. PICK line : line = Head(outbox)
    OBVIOUS
  <2>2. line \in Lines
    BY <1>4, <2>1, HeadTailProperties DEF Answered
  <2>3. UNCHANGED <<pending, promise>> \/ Closes(line.id, Error) \/ Closes(line.id, line)
    BY <1>4, <2>1 DEF Answered
  <2> QED BY <1>1, <1>2, <2>2, <2>3
<1>5. CASE \E id \in Ids : TimeOut(id)
  <2>1. \E id \in Ids : Closes(id, Error)
    BY <1>5 DEF TimeOut, Closes
  <2> QED BY <1>1, <2>1
<1>6. CASE Serve \/ Hang \/ Die \/ Stable \/ Restarted \/ Day \/ Enter \/ Leave \/ handleCancel
  BY <1>2, <1>6 DEF Serve, Hang, Die, Stable, Restarted, Day, Enter, Leave, handleCancel, bridge
<1> QED BY <1>3, <1>4, <1>5, <1>6 DEF Other

LEMMA Split ==
  ASSUME Step
  PROVE  \/ \E h \in Handlers : HandlerStep(h)
         \/ \E l \in Loops : LoopCalls(l) \/ LoopEnds(l)
         \/ Other
BY DEF Step, Other

LEMMA PromiseSteps ==
  ASSUME TypeOK, Shapes, Step
  PROVE  Matched' /\ Promised'
<1>1. Matched /\ Promised /\ outbox \in Seq(Lines)
  BY Matching DEF TypeOK, Shapes, Promised
<1>2. CASE Other
  BY <1>1, <1>2, OtherPromises
<1>3. CASE \E h \in Handlers : HandlerStep(h)
  BY <1>1, <1>3, CallerSets, ActorPromises
<1>4. CASE \E l \in Loops : LoopCalls(l) \/ LoopEnds(l)
  BY <1>1, <1>4, CallerSets, ActorPromises
<1> QED BY <1>2, <1>3, <1>4, Split

LEMMA MayCallSteps ==
  ASSUME TypeOK, Shapes, MayCall, Step
  PROVE  MayCall'
<1>0. /\ Matched /\ Promised /\ outbox \in Seq(Lines)
      /\ left \in Limits /\ left.loops \subseteq Loops
      /\ fetches \in [Handlers -> Fetches \cup {None}]
      /\ boot \in [at : {"init", "timer", "done"}, tier : Tiers]
      /\ page \in [mount : Loops \cup {None}, phase : {"away", "review", "executing", "complete"}]
  BY Matching DEF TypeOK, Shapes, Promised, Limits
<1>1. CASE \E h \in Handlers : HandlerStep(h)
  <2>1. PICK h \in Handlers : HandlerStep(h)
    BY <1>1
  <2>2. /\ promise[h] = None /\ (Asks(h) \/ \E t : Finds(h, t))
        /\ left'.loops = left.loops /\ UNCHANGED <<page, loop>>
    BY <2>1 DEF HandlerStep, pages
  <2>3. \A d \in Callers \ {h} : promise'[d] = promise[d]
    BY <1>0, <2>1, CallerSets, ActorPromises
  <2>4. CASE Asks(h)
    <3>1. PICK f : fetches' = [fetches EXCEPT ![h] = f]
      BY <2>4 DEF Asks
    <3>2. /\ UNCHANGED <<boot, promise>> /\ (h = "startup" => boot.at = "init")
          /\ \A g \in Handlers \ {h} : fetches'[g] = fetches[g]
      BY <1>0, <2>4, <3>1 DEF Asks, bridge
    <3> QED BY <2>2, <3>2, CallerSets DEF MayCall
  <2>5. CASE \E t : Finds(h, t)
    <3>1. PICK t : Finds(h, t)
      BY <2>5
    <3>2. /\ fetches'[h] = None
          /\ \A g \in Handlers \ {h} : fetches'[g] = fetches[g]
      BY <1>0, <3>1 DEF Finds
    <3>3. /\ boot'.at # "done" => promise'["startup"] = None
          /\ boot'.at # "init" => fetches'["startup"] = None
      <4>1. CASE UNCHANGED <<bridge, boot>>
        BY <3>2, <4>1, CallerSets DEF bridge, MayCall
      <4>2. CASE UNCHANGED bridge /\ h = "startup"
        BY <2>2, <3>2, <4>2 DEF bridge
      <4>3. CASE boot' = boot /\ h # "startup"
        <5>1. fetches'["startup"] = fetches["startup"] /\ promise'["startup"] = promise["startup"]
          BY <2>3, <3>2, <4>3, CallerSets
        <5> QED BY <4>3, <5>1 DEF MayCall
      <4>4. CASE h = "startup" /\ boot' = [boot EXCEPT !.at = "done"]
        BY <1>0, <3>2, <4>4
      <4> QED BY <3>1, <4>1, <4>2, <4>3, <4>4 DEF Finds
    <3>4. \A g \in Handlers : fetches'[g] # None => promise'[g] = None
      BY <2>3, <3>2, CallerSets DEF MayCall
    <3>5. \A l \in Loops : promise'[l] = promise[l]
      BY <2>1, <2>3, CallerSets
    <3> QED BY <1>0, <2>2, <3>3, <3>4, <3>5 DEF MayCall
  <2> QED BY <2>2, <2>4, <2>5
<1>2. CASE \E l \in Loops : LoopCalls(l) \/ LoopEnds(l)
  <2>1. PICK l \in Loops : LoopCalls(l) \/ LoopEnds(l)
    BY <1>2
  <2>2. \A d \in Callers \ {l} : promise'[d] = promise[d]
    BY <1>0, <2>1, CallerSets, ActorPromises
  <2>3. /\ UNCHANGED <<fetches, boot, left>> /\ page'.mount = page.mount /\ l \notin left.loops
        /\ (page'.phase = "review" => page.phase = "review" /\ page.mount # l)
    BY <2>1 DEF LoopCalls, LoopEnds, licence
  <2>4. \A h \in Handlers : promise'[h] = promise[h]
    BY <2>1, <2>2, CallerSets
  <2>5. \A m \in Loops \ {l} : promise'[m] = promise[m]
    BY <2>2, CallerSets
  <2> QED BY <1>0, <2>3, <2>4, <2>5, CallerSets DEF MayCall
<1>3. CASE Other
  <2>1. \A d \in Callers : promise[d] = None => promise'[d] = None
    BY <1>0, <1>3, OtherPromises, ValuesAssumption
  <2>2. UNCHANGED <<fetches, boot>>
    BY <1>3 DEF Other, Answered, TimeOut, Serve, Hang, Die, Stable, Exited, Restarted, Day, Enter, Leave, handleCancel, licence
  <2>3. CASE ~Enter
    <3>1. left'.loops = left.loops
      BY <1>0, <1>3, <2>3 DEF Other, Answered, TimeOut, Serve, Hang, Die, Stable, Exited, Restarted, Day, Leave, handleCancel, Limits
    <3>2. page'.mount = page.mount /\ (page'.phase = "review" => page.phase = "review")
      BY <1>0, <1>3, <2>3 DEF Other, Answered, TimeOut, Serve, Hang, Die, Stable, Exited, Restarted, Day, Leave, handleCancel, pages
    <3> QED BY <1>0, <2>1, <2>2, <3>1, <3>2, CallerSets DEF MayCall
  <2>4. CASE Enter
    <3>1. PICK l \in left.loops : page' = [mount |-> l, phase |-> "review"] /\ left' = [left EXCEPT !.loops = @ \ {l}]
      BY <2>4 DEF Enter
    <3>2. page'.mount = l /\ left'.loops = left.loops \ {l} /\ promise[l] = None /\ l \in Loops
      BY <1>0, <3>1 DEF MayCall, Limits
    <3> QED BY <1>0, <2>1, <2>2, <3>2, CallerSets DEF MayCall
  <2> QED BY <2>3, <2>4
<1> QED BY <1>1, <1>2, <1>3, Split

-----------------------------------------------------------------------------
(* Types.                                                                  *)

LEMMA LicenceTypes ==
  ASSUME TypeOK, Shapes, Step
  PROVE  /\ key' \in Keys \cup {None} /\ current' \in Tiers /\ cache' \in Cached \cup {None}
         /\ fetches' \in [Handlers -> Fetches \cup {None}]
         /\ boot' \in [at : {"init", "timer", "done"}, tier : Tiers]
         /\ left' \in Limits
<1>0. /\ left \in Limits /\ key \in Keys \cup {None} /\ current \in Tiers /\ cache \in Cached \cup {None}
      /\ fetches \in [Handlers -> Fetches \cup {None}]
      /\ boot \in [at : {"init", "timer", "done"}, tier : Tiers]
  BY DEF TypeOK, Shapes
<1>1. CASE \E h \in Handlers : HandlerStep(h)
  <2>1. PICK h \in Handlers : HandlerStep(h)
    BY <1>1
  <2>2. key' \in Keys \cup {None} /\ current' \in Tiers /\ left' \in Limits /\ (Asks(h) \/ \E t : Finds(h, t))
    BY <2>1 DEF HandlerStep
  <2>3. CASE Asks(h)
    <3>1. PICK k \in Keys : fetches' = [fetches EXCEPT ![h] = [key |-> k, cached |-> cache]]
      BY <2>3 DEF Asks
    <3>2. [key |-> k, cached |-> cache] \in Fetches
      BY <1>0 DEF Fetches
    <3>3. fetches' \in [Handlers -> Fetches \cup {None}]
      BY <1>0, <3>1, <3>2
    <3> QED BY <1>0, <2>2, <2>3, <3>3 DEF Asks
  <2>4. CASE \E t : Finds(h, t)
    BY <1>0, <2>2, <2>4 DEF Finds
  <2> QED BY <2>2, <2>3, <2>4
<1>2. CASE Day
  <2>1. /\ left' = [left EXCEPT !.days = @ - 1] /\ left.days > 0
        /\ cache' = IF cache = None THEN None ELSE [cache EXCEPT !.age = @ + 1]
        /\ UNCHANGED <<key, current, fetches, boot>>
    BY <1>2 DEF Day
  <2>2. cache' \in Cached \cup {None}
    BY <1>0, <2>1 DEF Cached
  <2>3. left' \in Limits
    BY <1>0, <2>1 DEF Limits
  <2> QED BY <1>0, <2>1, <2>2, <2>3
<1>3. CASE Enter
  <2>1. PICK l \in left.loops : left' = [left EXCEPT !.loops = @ \ {l}]
    BY <1>3 DEF Enter
  <2>2. left' \in Limits
    BY <1>0, <2>1 DEF Limits
  <2> QED BY <1>0, <1>3, <2>2 DEF Enter, licence
<1>4. CASE Die \/ \E id \in Ids : TimeOut(id)
  <2>1. left' \in Limits
    <3>1. CASE Die
      BY <1>0, <3>1 DEF Die, Limits
    <3>2. CASE \E id \in Ids : TimeOut(id)
      BY <1>0, <3>2 DEF TimeOut, Limits
    <3> QED BY <1>4, <3>1, <3>2
  <2> QED BY <1>0, <1>4, <2>1 DEF Die, TimeOut, licence
<1>5. CASE \/ \E l \in Loops : LoopCalls(l) \/ LoopEnds(l)
           \/ Answered \/ Serve \/ Hang \/ Stable \/ Exited \/ Restarted \/ Leave \/ handleCancel
  BY <1>0, <1>5 DEF LoopCalls, LoopEnds, Answered, Serve, Hang, Stable, Exited, Restarted, Leave, handleCancel, licence
<1> QED BY <1>1, <1>2, <1>3, <1>4, <1>5 DEF Step

LEMMA CallTypes ==
  ASSUME inbox \in Seq([id : Ids, request : Actions \cup Tiers]), NEW c, NEW r \in Actions \cup Tiers, Called(c, r)
  PROVE  inbox' \in Seq([id : Ids, request : Actions \cup Tiers])
<1>1. CASE UNCHANGED inbox
  BY <1>1
<1>2. CASE \E n \in Ids : Numbered(c, r, n)
  <2>1. PICK n \in Ids : inbox' = IF service = "up" THEN Append(inbox, [id |-> n, request |-> r]) ELSE inbox
    BY <1>2 DEF Numbered
  <2>2. PICK m : m = [id |-> n, request |-> r]
    OBVIOUS
  <2>3. m \in [id : Ids, request : Actions \cup Tiers]
    BY <2>2
  <2> QED BY <2>1, <2>2, <2>3, AppendProperties
<1> QED BY <1>1, <1>2 DEF Called

LEMMA LoopRequests ==
  ASSUME NEW l \in Loops, LoopCalls(l)
  PROVE  /\ loop'[l].i \in DOMAIN Plan /\ Plan[loop'[l].i] \in Actions
BY DEF LoopCalls, Actions

\* What the service answers to the head of its pipe.
Replies(line) ==
  /\ service = "up" /\ inbox # <<>> /\ line \in Lines
  /\ line.id = Head(inbox).id /\ line.to = Head(inbox).request
  /\ inbox' = Tail(inbox) /\ outbox' = Append(outbox, line)
  /\ tier' \in Tiers /\ (tier' = IF line.to \in Actions THEN tier ELSE line.to)
  /\ done \subseteq done' /\ done' \subseteq done \cup (Actions \cap {line.to})
  /\ UNCHANGED <<pending, promise, service, restart, page, loop, licence, left>>

LEMMA Serves ==
  ASSUME inbox \in Seq([id : Ids, request : Actions \cup Tiers]), tier \in Tiers, Serve
  PROVE  \E line : Replies(line)
<1>1. PICK m : m = Head(inbox)
  OBVIOUS
<1>2. m \in [id : Ids, request : Actions \cup Tiers] /\ inbox # <<>>
  BY <1>1, HeadTailProperties DEF Serve
<1>3. CASE m.request \in Actions
  <2>1. /\ ApplyAction(m.request) /\ service = "up" /\ inbox' = Tail(inbox)
        /\ UNCHANGED <<pending, promise, service, restart, page, loop, licence, left>>
    BY <1>1, <1>3 DEF Serve
  <2>2. PICK says \in {"success", "failed", "refused"} :
          /\ outbox' = Append(outbox, [id |-> m.id, to |-> m.request, says |-> says])
          /\ done' = IF says = "success" THEN done \cup {m.request} ELSE done
    BY <1>1, <2>1 DEF ApplyAction
  <2>3. PICK line : line = [id |-> m.id, to |-> m.request, says |-> says]
    OBVIOUS
  <2>4. line \in Lines /\ line.id = m.id /\ line.to = m.request
    BY <1>2, <2>3 DEF Lines
  <2>5. tier' = tier
    BY <2>1 DEF ApplyAction
  <2> QED BY <1>1, <1>2, <1>3, <2>1, <2>2, <2>3, <2>4, <2>5 DEF Replies
<1>4. CASE m.request \notin Actions
  <2>1. /\ SetTier(m.request) /\ service = "up" /\ inbox' = Tail(inbox)
        /\ UNCHANGED <<pending, promise, service, restart, page, loop, licence, left>>
    BY <1>1, <1>4 DEF Serve
  <2>2. /\ tier' = m.request /\ done' = done
        /\ outbox' = Append(outbox, [id |-> m.id, to |-> m.request, says |-> "success"])
    BY <1>1, <2>1 DEF SetTier
  <2>3. PICK line : line = [id |-> m.id, to |-> m.request, says |-> "success"]
    OBVIOUS
  <2>4. line \in Lines /\ line.id = m.id /\ line.to = m.request
    BY <1>2, <2>3 DEF Lines
  <2>5. m.request \in Tiers
    BY <1>2, <1>4
  <2> QED BY <1>1, <1>2, <1>4, <2>1, <2>2, <2>3, <2>4, <2>5 DEF Replies
<1> QED BY <1>3, <1>4

LEMMA PipeTypes ==
  ASSUME TypeOK, Shapes, Step
  PROVE  /\ inbox' \in Seq([id : Ids, request : Actions \cup Tiers]) /\ outbox' \in Seq(Lines)
         /\ tier' \in Tiers /\ done' \subseteq Actions
<1>0. /\ inbox \in Seq([id : Ids, request : Actions \cup Tiers]) /\ outbox \in Seq(Lines)
      /\ tier \in Tiers /\ done \subseteq Actions
  BY DEF TypeOK, Shapes
<1>1. CASE \E h \in Handlers : HandlerStep(h)
  <2>1. PICK h \in Handlers : HandlerStep(h)
    BY <1>1
  <2>2. UNCHANGED inbox \/ \E r \in Tiers : Called(h, r)
    BY <2>1 DEF HandlerStep, Asks, Finds, bridge
  <2>3. inbox' \in Seq([id : Ids, request : Actions \cup Tiers])
    BY <1>0, <2>2, CallTypes
  <2> QED BY <1>0, <2>1, <2>3 DEF HandlerStep, pages
<1>2. CASE \E l \in Loops : LoopCalls(l) \/ LoopEnds(l)
  <2>1. PICK l \in Loops : LoopCalls(l) \/ LoopEnds(l)
    BY <1>2
  <2>2. UNCHANGED inbox \/ \E r \in Actions : Called(l, r)
    BY <2>1, LoopRequests DEF LoopCalls, LoopEnds
  <2>3. inbox' \in Seq([id : Ids, request : Actions \cup Tiers])
    BY <1>0, <2>2, CallTypes
  <2> QED BY <1>0, <2>1, <2>3 DEF LoopCalls, LoopEnds, process
<1>3. CASE Serve
  <2>1. PICK line : Replies(line)
    BY <1>0, <1>3, Serves
  <2>2. inbox' \in Seq([id : Ids, request : Actions \cup Tiers])
    BY <1>0, <2>1, HeadTailProperties DEF Replies
  <2>3. outbox' \in Seq(Lines)
    BY <1>0, <2>1, AppendProperties DEF Replies
  <2> QED BY <1>0, <2>1, <2>2, <2>3 DEF Replies
<1>4. CASE Answered
  <2>1. outbox' \in Seq(Lines)
    BY <1>0, <1>4, HeadTailProperties DEF Answered
  <2> QED BY <1>0, <1>4, <2>1 DEF Answered, pages
<1>5. CASE Hang \/ Die \/ Exited
  <2>1. "free" \in Tiers
    BY DEF Tiers
  <2>2. /\ (inbox' = <<>> \/ inbox' = inbox) /\ (outbox' = <<>> \/ outbox' = outbox)
        /\ (tier' = "free" \/ tier' = tier) /\ done' = done
    BY <1>5 DEF Hang, Die, Exited, pages
  <2>3. inbox' \in Seq([id : Ids, request : Actions \cup Tiers])
    BY <1>0, <2>2, EmptySeq, Zenon
  <2>4. outbox' \in Seq(Lines)
    BY <1>0, <2>2, EmptySeq, Zenon
  <2> QED BY <1>0, <2>1, <2>2, <2>3, <2>4
<1>6. CASE \/ Stable \/ Restarted \/ Day \/ Enter \/ Leave \/ handleCancel \/ \E id \in Ids : TimeOut(id)
  <2>1. "free" \in Tiers
    BY DEF Tiers
  <2> QED BY <1>0, <1>6, <2>1 DEF Stable, Restarted, startService, Day, Enter, Leave, handleCancel, TimeOut, bridge, process, pages
<1> QED BY <1>1, <1>2, <1>3, <1>4, <1>5, <1>6 DEF Step

LEMMA ProcessTypes ==
  ASSUME TypeOK, Shapes, Step
  PROVE  /\ service' \in {"none", "up", "hung", "dead"}
         /\ restart' \in [attempts : 0 .. MAX_RESTART_ATTEMPTS, timer : BOOLEAN, stable : BOOLEAN, failed : BOOLEAN]
<1>0. /\ service \in {"none", "up", "hung", "dead"} /\ MAX_RESTART_ATTEMPTS \in Nat
      /\ restart \in [attempts : 0 .. MAX_RESTART_ATTEMPTS, timer : BOOLEAN, stable : BOOLEAN, failed : BOOLEAN]
  BY BoundsAssumption DEF TypeOK, Shapes
<1>1. CASE Exited
  <2>1. PICK n : n = IF restart.stable THEN 0 ELSE restart.attempts
    OBVIOUS
  <2>2. n \in 0 .. MAX_RESTART_ATTEMPTS
    BY <1>0, <2>1
  <2>3. restart' = IF n >= MAX_RESTART_ATTEMPTS THEN [restart EXCEPT !.attempts = n]
                   ELSE [restart EXCEPT !.attempts = n + 1, !.timer = TRUE]
    BY <1>1, <2>1 DEF Exited, Restarts
  <2>4. n + 1 \in 0 .. MAX_RESTART_ATTEMPTS \/ n >= MAX_RESTART_ATTEMPTS
    BY <1>0, <2>2
  <2>5. restart' \in [attempts : 0 .. MAX_RESTART_ATTEMPTS, timer : BOOLEAN, stable : BOOLEAN, failed : BOOLEAN]
    BY <1>0, <2>2, <2>3, <2>4
  <2> QED BY <1>0, <1>1, <2>5 DEF Exited
<1>2. CASE Stable \/ Restarted
  BY <1>0, <1>2 DEF Stable, Restarted, startService
<1>3. CASE \/ Answered \/ Serve \/ Hang \/ Die \/ Day \/ Enter \/ Leave \/ handleCancel \/ \E id \in Ids : TimeOut(id)
  BY <1>0, <1>3 DEF Answered, Serve, Hang, Die, Day, Enter, Leave, handleCancel, TimeOut, process
<1>4. CASE \E l \in Loops : LoopCalls(l) \/ LoopEnds(l)
  BY <1>0, <1>4 DEF LoopCalls, LoopEnds, process
<1>5. CASE \E h \in Handlers : HandlerStep(h)
  BY <1>0, <1>5 DEF HandlerStep, Asks, Finds, startService
<1> QED BY <1>1, <1>2, <1>3, <1>4, <1>5 DEF Step

LEMMA PageTypes ==
  ASSUME TypeOK, Shapes, Step
  PROVE  /\ page' \in [mount : Loops \cup {None}, phase : {"away", "review", "executing", "complete"}]
         /\ loop' \in [Loops -> [i : Nat, status : {<<>>} \cup Statuses]]
         /\ \A l \in Loops : promise'[l] # None => loop'[l] \in [i : DOMAIN Plan, status : Statuses]
<1>0. /\ page \in [mount : Loops \cup {None}, phase : {"away", "review", "executing", "complete"}]
      /\ loop \in [Loops -> [i : Nat, status : {<<>>} \cup Statuses]]
      /\ \A l \in Loops : promise[l] # None => loop[l] \in [i : DOMAIN Plan, status : Statuses]
      /\ Matched /\ Promised /\ outbox \in Seq(Lines) /\ left.loops \subseteq Loops
  BY Matching DEF TypeOK, Shapes, Promised, Limits
<1>1. CASE \E h \in Handlers : HandlerStep(h)
  <2>1. \A l \in Loops : promise'[l] = promise[l]
    BY <1>0, <1>1, CallerSets, ActorPromises
  <2> QED BY <1>0, <1>1, <2>1 DEF HandlerStep, pages
<1>2. CASE \E l \in Loops : LoopCalls(l) \/ LoopEnds(l)
  <2>1. PICK l \in Loops : LoopCalls(l) \/ LoopEnds(l)
    BY <1>2
  <2>2. \A m \in Loops \ {l} : promise'[m] = promise[m] /\ loop'[m] = loop[m]
    <3>1. \A m \in Loops \ {l} : loop'[m] = loop[m]
      BY <2>1 DEF LoopCalls, LoopEnds
    <3> QED BY <1>0, <2>1, <3>1, CallerSets, ActorPromises
  <2>3. promise'[l] # None => loop'[l] \in [i : DOMAIN Plan, status : Statuses]
    <3>1. CASE LoopCalls(l)
      BY <3>1 DEF LoopCalls
    <3>2. CASE LoopEnds(l)
      <4>1. promise'[l] = None
        BY <1>0, <2>1, <3>2, CallerSets DEF LoopEnds, Promised
      <4> QED BY <4>1
    <3> QED BY <2>1, <3>1, <3>2
  <2>4. /\ page' \in [mount : Loops \cup {None}, phase : {"away", "review", "executing", "complete"}]
        /\ loop' \in [Loops -> [i : Nat, status : {<<>>} \cup Statuses]]
    BY <2>1 DEF LoopCalls, LoopEnds
  <2> QED BY <1>0, <2>2, <2>3, <2>4
<1>3. CASE Other
  <2>1. \A l \in Loops : promise'[l] # None => promise[l] # None
    BY <1>0, <1>3, OtherPromises, CallerSets, ValuesAssumption
  <2>2. loop' = loop
    BY <1>3 DEF Other, Answered, TimeOut, Serve, Hang, Die, Stable, Exited, Restarted, Day, Enter, Leave, handleCancel, pages
  <2>3. page' \in [mount : Loops \cup {None}, phase : {"away", "review", "executing", "complete"}]
    BY <1>0, <1>3 DEF Other, Answered, TimeOut, Serve, Hang, Die, Stable, Exited, Restarted, Day, Enter, Leave, handleCancel, pages
  <2> QED BY <1>0, <2>1, <2>2, <2>3
<1> QED BY <1>1, <1>2, <1>3, Split

LEMMA TypeSteps ==
  ASSUME TypeOK, Shapes, Step
  PROVE  TypeOK' /\ Shapes'
<1>1. Matched' /\ Promised'
  BY PromiseSteps
<1>2. /\ key' \in Keys \cup {None} /\ current' \in Tiers /\ cache' \in Cached \cup {None}
      /\ fetches' \in [Handlers -> Fetches \cup {None}]
      /\ boot' \in [at : {"init", "timer", "done"}, tier : Tiers]
      /\ left' \in Limits
  BY LicenceTypes
<1>3. /\ inbox' \in Seq([id : Ids, request : Actions \cup Tiers]) /\ outbox' \in Seq(Lines)
      /\ tier' \in Tiers /\ done' \subseteq Actions
  BY PipeTypes
<1>4. /\ service' \in {"none", "up", "hung", "dead"}
      /\ restart' \in [attempts : 0 .. MAX_RESTART_ATTEMPTS, timer : BOOLEAN, stable : BOOLEAN, failed : BOOLEAN]
  BY ProcessTypes
<1>5. /\ page' \in [mount : Loops \cup {None}, phase : {"away", "review", "executing", "complete"}]
      /\ loop' \in [Loops -> [i : Nat, status : {<<>>} \cup Statuses]]
      /\ \A l \in Loops : promise'[l] # None => loop'[l] \in [i : DOMAIN Plan, status : Statuses]
  BY PageTypes
<1>6. Shapes'
  BY <1>1, <1>2, <1>3, <1>4, <1>5 DEF Shapes, Promised
<1>7. /\ DOMAIN pending' \subseteq Ids
      /\ {pending'[id] : id \in DOMAIN pending'} = {c \in Callers : promise'[c] = Open}
      /\ \A i, j \in DOMAIN pending' : pending'[i] = pending'[j] => i = j
  BY <1>1 DEF Matched
<1>8. cache' = None \/ (cache'.tier \in Tiers /\ cache'.age \in Nat)
  BY <1>2 DEF Cached
<1>9. TypeOK'
  BY <1>2, <1>3, <1>4, <1>5, <1>7, <1>8 DEF TypeOK
<1> QED BY <1>6, <1>9

-----------------------------------------------------------------------------
(* The answers of a loop are its own.                                      *)

\* What is in a pipe comes from the old one or is m.
From(new, old, m) ==
  \A i \in DOMAIN new : new[i] = m \/ \E j \in DOMAIN old : new[i] = old[j]

LEMMA Pipes ==
  ASSUME NEW S, NEW pipe \in Seq(S), NEW m \in S
  PROVE  /\ From(Append(pipe, m), pipe, m)
         /\ pipe # <<>> => From(Tail(pipe), pipe, Head(pipe)) /\ Head(pipe) \in S /\ 1 \in DOMAIN pipe /\ Head(pipe) = pipe[1]
         /\ From(<<>>, pipe, m) /\ From(pipe, pipe, m)
<1>1. From(Append(pipe, m), pipe, m)
  BY AppendProperties DEF From
<1>2. pipe # <<>> => Head(pipe) \in S /\ 1 \in DOMAIN pipe /\ Head(pipe) = pipe[1]
  BY HeadTailProperties
<1>3. pipe # <<>> => From(Tail(pipe), pipe, Head(pipe))
  <2>1. ASSUME pipe # <<>>, NEW i \in DOMAIN Tail(pipe) PROVE \E j \in DOMAIN pipe : Tail(pipe)[i] = pipe[j]
    <3>1. Len(pipe) \in Nat /\ Tail(pipe) \in Seq(S) /\ Len(Tail(pipe)) = Len(pipe) - 1
      BY <2>1, HeadTailProperties
    <3>2. i \in 1 .. Len(pipe) - 1 /\ i + 1 \in DOMAIN pipe
      BY <2>1, <3>1
    <3>3. Tail(pipe)[i] = pipe[i + 1]
      BY <2>1, <3>2, HeadTailProperties
    <3> QED BY <3>2, <3>3
  <2> QED BY <2>1 DEF From
<1>4. From(<<>>, pipe, m) /\ From(pipe, pipe, m)
  BY DEF From
<1> QED BY <1>1, <1>2, <1>3, <1>4

LEMMA CallPipes ==
  ASSUME NEW c, NEW r \in Actions \cup Tiers, NEW n \in Ids, Numbered(c, r, n),
         inbox \in Seq([id : Ids, request : Actions \cup Tiers])
  PROVE  From(inbox', inbox, [id |-> n, request |-> r])
<1>1. PICK m : m = [id |-> n, request |-> r]
  OBVIOUS
<1>2. m \in [id : Ids, request : Actions \cup Tiers]
  BY <1>1
<1>3. From(Append(inbox, m), inbox, m) /\ From(inbox, inbox, m)
  BY <1>2, Pipes
<1> QED BY <1>1, <1>3 DEF Numbered

LEMMA OwnedHandler ==
  ASSUME TypeOK, Shapes, Owned, NEW h \in Handlers, HandlerStep(h)
  PROVE  Owned'
<1>0. /\ h \notin Loops /\ UNCHANGED <<outbox, loop>> /\ inbox \in Seq([id : Ids, request : Actions \cup Tiers])
  BY CallerSets DEF HandlerStep, pages, Shapes
<1>1. CASE UNCHANGED <<pending, inbox>>
  BY <1>0, <1>1 DEF Owned
<1>2. CASE \E t \in Tiers : \E n \in Ids : Numbered(h, t, n)
  <2>1. PICK t \in Tiers, n \in Ids : Numbered(h, t, n)
    BY <1>2
  <2>2. PICK m : m = [id |-> n, request |-> t]
    OBVIOUS
  <2>3. From(inbox', inbox, m) /\ m.id = n
    BY <1>0, <2>1, <2>2, CallPipes
  <2>4. /\ DOMAIN pending' = DOMAIN pending \cup {n} /\ pending'[n] = h /\ n \notin DOMAIN pending
        /\ \A id \in DOMAIN pending : pending'[id] = pending[id]
    BY <2>1 DEF Numbered
  <2> QED BY <1>0, <2>3, <2>4 DEF Owned, From
<1> QED BY <1>1, <1>2 DEF HandlerStep, Asks, Finds, Called, bridge

LEMMA OwnedLoop ==
  ASSUME TypeOK, Shapes, Owned, NEW l \in Loops, LoopCalls(l) \/ LoopEnds(l)
  PROVE  Owned'
<1>0. /\ UNCHANGED outbox /\ inbox \in Seq([id : Ids, request : Actions \cup Tiers])
      /\ \A m \in Loops \ {l} : loop'[m] = loop[m]
      /\ promise[l] # Open
  BY DEF LoopCalls, LoopEnds, process, Shapes
<1>1. \A id \in DOMAIN pending : pending[id] # l
  BY <1>0, Matching DEF TypeOK, Matched
<1>2. CASE UNCHANGED <<pending, inbox>>
  BY <1>0, <1>1, <1>2 DEF Owned
<1>3. CASE LoopCalls(l) /\ \E n \in Ids : Numbered(l, Plan[loop'[l].i], n)
  <2>1. PICK r : r = Plan[loop'[l].i]
    OBVIOUS
  <2>2. PICK n \in Ids : Numbered(l, r, n)
    BY <1>3, <2>1
  <2>3. r \in Actions
    BY <1>3, <2>1, LoopRequests
  <2>4. PICK m : m = [id |-> n, request |-> r]
    OBVIOUS
  <2>5. From(inbox', inbox, m) /\ m.id = n /\ m.request = r
    BY <1>0, <2>2, <2>3, <2>4, CallPipes
  <2>6. /\ DOMAIN pending' = DOMAIN pending \cup {n} /\ pending'[n] = l /\ n \notin DOMAIN pending
        /\ \A id \in DOMAIN pending : pending'[id] = pending[id]
        /\ \A i \in DOMAIN inbox : inbox[i].id # n
        /\ \A i \in DOMAIN outbox : outbox[i].id # n
    BY <2>2 DEF Numbered
  <2>7. ASSUME NEW id \in DOMAIN pending, pending'[id] \in Loops
        PROVE  LET own == Plan[loop[pending[id]].i]
               IN /\ \A i \in DOMAIN inbox' : inbox'[i].id = id => inbox'[i].request = own
                  /\ \A i \in DOMAIN outbox' : outbox'[i].id = id => outbox'[i].to = own
    BY <1>0, <2>5, <2>6, <2>7 DEF Owned, From
  <2>8. /\ \A i \in DOMAIN inbox' : inbox'[i].id = n => inbox'[i].request = r
        /\ \A i \in DOMAIN outbox' : outbox'[i].id # n
    BY <1>0, <2>5, <2>6 DEF From
  <2>9. \A id \in DOMAIN pending : pending'[id] \in Loops => loop'[pending'[id]] = loop[pending[id]]
    BY <1>0, <1>1, <2>6
  <2> QED BY <2>1, <2>6, <2>7, <2>8, <2>9 DEF Owned
<1> QED BY <1>2, <1>3 DEF LoopCalls, LoopEnds, Called

LEMMA OwnedOther ==
  ASSUME TypeOK, Shapes, Owned, Other
  PROVE  Owned'
<1>0. inbox \in Seq([id : Ids, request : Actions \cup Tiers]) /\ outbox \in Seq(Lines) /\ tier \in Tiers
  BY DEF Shapes, TypeOK
<1>1. loop' = loop
  BY DEF Other, Answered, TimeOut, Serve, Hang, Die, Stable, Exited, Restarted, Day, Enter, Leave, handleCancel, pages
<1>2. DOMAIN pending' \subseteq DOMAIN pending /\ \A id \in DOMAIN pending' : pending'[id] = pending[id]
  <2>1. CASE Exited
    BY <2>1 DEF Exited, NoCalls
  <2>2. CASE Answered \/ \E id \in Ids : TimeOut(id)
    BY <2>2 DEF Answered, TimeOut, Closes, Without
  <2> QED BY <2>1, <2>2 DEF Other, Serve, Hang, Die, Stable, Restarted, Day, Enter, Leave, handleCancel, bridge
<1>3. CASE Serve
  <2>1. PICK line : Replies(line)
    BY <1>0, <1>3, Serves
  <2>2. PICK m : m = Head(inbox)
    OBVIOUS
  <2>3. /\ line \in Lines /\ inbox # <<>> /\ line.id = m.id /\ line.to = m.request
        /\ inbox' = Tail(inbox) /\ outbox' = Append(outbox, line)
    BY <2>1, <2>2 DEF Replies
  <2>4. 1 \in DOMAIN inbox /\ m = inbox[1] /\ m \in [id : Ids, request : Actions \cup Tiers]
    <3>1. PICK S : S = [id : Ids, request : Actions \cup Tiers]
      OBVIOUS
    <3>2. inbox \in Seq(S)
      BY <1>0, <3>1
    <3>3. Head(inbox) \in S
      BY <2>3, <3>2, HeadTailProperties, Zenon
    <3>4. 1 \in DOMAIN inbox /\ Head(inbox) = inbox[1]
      BY <2>3, <3>2
    <3> QED BY <2>2, <3>1, <3>3, <3>4
  <2>5. From(inbox', inbox, m) /\ From(outbox', outbox, line)
    <3>1. From(inbox', inbox, m)
      BY <1>0, <2>2, <2>3, <2>4, Pipes
    <3>2. From(outbox', outbox, line)
      BY <1>0, <2>3, Pipes
    <3> QED BY <3>1, <3>2
  <2> QED BY <1>1, <1>2, <2>3, <2>4, <2>5 DEF Owned, From
<1>4. CASE ~Serve
  <2>1. inbox' = inbox \/ inbox' = <<>>
    BY <1>4 DEF Other, Answered, TimeOut, Hang, Die, Stable, Exited, Restarted, Day, Enter, Leave, handleCancel, bridge
  <2>2. \A i \in DOMAIN inbox' : \E j \in DOMAIN inbox : inbox'[i] = inbox[j]
    BY <2>1
  <2>3. \A i \in DOMAIN outbox' : \E j \in DOMAIN outbox : outbox'[i] = outbox[j]
    <3>1. CASE Answered
      <4>1. PICK m : m = Head(outbox)
        OBVIOUS
      <4>2. outbox # <<>> /\ outbox' = Tail(outbox)
        BY <3>1 DEF Answered
      <4>3. m \in Lines /\ 1 \in DOMAIN outbox /\ m = outbox[1]
        BY <1>0, <4>1, <4>2, HeadTailProperties
      <4>4. From(outbox', outbox, m)
        BY <1>0, <4>1, <4>2, <4>3, Pipes
      <4> QED BY <4>3, <4>4 DEF From
    <3>2. CASE ~Answered
      <4>1. outbox' = outbox \/ outbox' = <<>>
        BY <1>4, <3>2 DEF Other, TimeOut, Hang, Die, Stable, Exited, Restarted, Day, Enter, Leave, handleCancel, process
      <4> QED BY <4>1
    <3> QED BY <3>1, <3>2
  <2> QED BY <1>1, <1>2, <2>2, <2>3 DEF Owned
<1> QED BY <1>3, <1>4

LEMMA OwnedSteps ==
  ASSUME TypeOK, Shapes, Owned, Step
  PROVE  Owned'
BY Split, OwnedHandler, OwnedLoop, OwnedOther

LEMMA AnswerSteps ==
  ASSUME TypeOK, Shapes, Owned, AnswersAreOwn, Step
  PROVE  AnswersAreOwn'
<1>0. Matched /\ Promised /\ outbox \in Seq(Lines)
  BY Matching DEF TypeOK, Shapes, Promised
<1>1. CASE \E h \in Handlers : HandlerStep(h)
  <2>1. \A l \in Loops : promise'[l] = promise[l]
    BY <1>0, <1>1, CallerSets, ActorPromises
  <2> QED BY <1>1, <2>1 DEF AnswersAreOwn, HandlerStep, pages
<1>2. CASE \E l \in Loops : LoopCalls(l) \/ LoopEnds(l)
  <2>1. PICK l \in Loops : LoopCalls(l) \/ LoopEnds(l)
    BY <1>2
  <2>2. \A m \in Loops \ {l} : promise'[m] = promise[m]
    BY <1>0, <2>1, CallerSets, ActorPromises
  <2>3. \A m \in Loops \ {l} : loop'[m] = loop[m]
    BY <2>1 DEF LoopCalls, LoopEnds
  <2>4. promise'[l] \in {None, Open, Error}
    BY <1>0, <2>1, CallerSets DEF LoopCalls, LoopEnds, Called, Numbered, Settle, Promised
  <2> QED BY <2>2, <2>3, <2>4 DEF AnswersAreOwn
<1>3. CASE Other
  <2>1. loop' = loop
    BY <1>3 DEF Other, Answered, TimeOut, Serve, Hang, Die, Stable, Exited, Restarted, Day, Enter, Leave, handleCancel, pages
  <2>2. ASSUME NEW l \in Loops, promise'[l] \notin {None, Open, Error} PROVE promise'[l].to = Plan[loop[l].i]
    <3>1. CASE UNCHANGED promise
      BY <2>2, <3>1 DEF AnswersAreOwn
    <3>2. CASE \E id \in DOMAIN pending : Closes(id, Error)
      BY <1>0, <2>2, <3>2 DEF AnswersAreOwn, Closes, Settle, Matched, Promised
    <3>3. CASE Exited
      <4>1. l \in Callers
        BY CallerSets
      <4> QED BY <2>2, <3>3, <4>1 DEF AnswersAreOwn, Exited, Settle
    <3>4. CASE Answered /\ Closes(Head(outbox).id, Head(outbox))
      <4>1. PICK line : line = Head(outbox)
        OBVIOUS
      <4>2. 1 \in DOMAIN outbox /\ line = outbox[1] /\ line \in Lines
        BY <1>0, <3>4, <4>1, HeadTailProperties DEF Answered
      <4>3. line.id \in DOMAIN pending /\ promise' = [promise EXCEPT ![pending[line.id]] = Settle(pending[line.id], line)]
        BY <3>4, <4>1 DEF Closes
      <4>4. CASE pending[line.id] = l
        <5>1. promise'[l] = line
          BY <1>0, <4>3, <4>4, CallerSets DEF Settle, Promised
        <5> QED BY <4>2, <4>3, <4>4, <5>1 DEF Owned
      <4>5. CASE pending[line.id] # l
        <5>1. promise'[l] = promise[l]
          BY <1>0, <4>3, <4>5, CallerSets DEF Promised, Matched
        <5> QED BY <2>2, <5>1 DEF AnswersAreOwn
      <4> QED BY <4>4, <4>5
    <3> QED BY <1>3, <3>1, <3>2, <3>3, <3>4 DEF Other, Answered, TimeOut, Closes, Serve, Hang, Die, Stable, Restarted, Day, Enter, Leave, handleCancel, bridge
  <2> QED BY <2>1, <2>2 DEF AnswersAreOwn
<1> QED BY <1>1, <1>2, <1>3, Split

-----------------------------------------------------------------------------
(* The days of grace.                                                      *)

Grants == Granted /\ Revised /\ GraceEnds
\* Every message of the old pipe but m is in the new one.
Keeps(new, old, m) ==
  \A j \in DOMAIN old : old[j] = m \/ \E i \in DOMAIN new : new[i] = old[j]

LEMMA Kept ==
  ASSUME NEW S, NEW pipe \in Seq(S), NEW m \in S
  PROVE  /\ Keeps(Append(pipe, m), pipe, m) /\ \E i \in DOMAIN Append(pipe, m) : Append(pipe, m)[i] = m
         /\ \A j \in DOMAIN pipe : \E i \in DOMAIN Append(pipe, m) : Append(pipe, m)[i] = pipe[j]
         /\ pipe # <<>> => Keeps(Tail(pipe), pipe, Head(pipe))
<1>1. Len(pipe) \in Nat /\ DOMAIN pipe = 1 .. Len(pipe)
  BY LenProperties
<1>2. /\ Append(pipe, m) \in Seq(S) /\ Len(Append(pipe, m)) = Len(pipe) + 1
      /\ \A j \in 1 .. Len(pipe) : Append(pipe, m)[j] = pipe[j]
      /\ Append(pipe, m)[Len(pipe) + 1] = m
  BY AppendProperties
<1>3. DOMAIN Append(pipe, m) = 1 .. Len(pipe) + 1
  BY <1>2, LenProperties
<1>4. \A j \in DOMAIN pipe : \E i \in DOMAIN Append(pipe, m) : Append(pipe, m)[i] = pipe[j]
  BY <1>1, <1>2, <1>3
<1>5. \E i \in DOMAIN Append(pipe, m) : Append(pipe, m)[i] = m
  BY <1>1, <1>2, <1>3
<1>6. pipe # <<>> => Keeps(Tail(pipe), pipe, Head(pipe))
  <2>1. ASSUME pipe # <<>>, NEW j \in DOMAIN pipe, j # 1 PROVE \E i \in DOMAIN Tail(pipe) : Tail(pipe)[i] = pipe[j]
    <3>1. Tail(pipe) \in Seq(S) /\ Len(Tail(pipe)) = Len(pipe) - 1
      BY <2>1, HeadTailProperties
    <3>2. j - 1 \in 1 .. Len(pipe) - 1 /\ (j - 1) + 1 = j
      BY <1>1, <2>1
    <3>3. DOMAIN Tail(pipe) = 1 .. Len(pipe) - 1
      BY <3>1, LenProperties
    <3>4. Tail(pipe)[j - 1] = pipe[j]
      BY <2>1, <3>2, HeadTailProperties
    <3> QED BY <3>2, <3>3, <3>4
  <2>2. pipe # <<>> => Head(pipe) = pipe[1]
    OBVIOUS
  <2> QED BY <2>1, <2>2 DEF Keeps
<1> QED BY <1>4, <1>5, <1>6 DEF Keeps

LEMMA CallKeeps ==
  ASSUME NEW c, NEW r \in Actions \cup Tiers, NEW n \in Ids, Numbered(c, r, n),
         inbox \in Seq([id : Ids, request : Actions \cup Tiers])
  PROVE  /\ \A i \in DOMAIN inbox' : inbox'[i].request = r \/ \E j \in DOMAIN inbox : inbox'[i] = inbox[j]
         /\ \A j \in DOMAIN inbox : \E i \in DOMAIN inbox' : inbox'[i] = inbox[j]
         /\ service = "up" => \E i \in DOMAIN inbox' : inbox'[i].request = r
<1>1. PICK m : m = [id |-> n, request |-> r]
  OBVIOUS
<1>2. m \in [id : Ids, request : Actions \cup Tiers] /\ m.request = r
  BY <1>1
<1>3. inbox' = IF service = "up" THEN Append(inbox, m) ELSE inbox
  BY <1>1 DEF Numbered
<1>4. From(inbox', inbox, m)
  BY <1>1, CallPipes
<1>5. /\ \A j \in DOMAIN inbox : \E i \in DOMAIN Append(inbox, m) : Append(inbox, m)[i] = inbox[j]
      /\ \E i \in DOMAIN Append(inbox, m) : Append(inbox, m)[i] = m
  <2>1. PICK S : S = [id : Ids, request : Actions \cup Tiers]
    OBVIOUS
  <2>2. inbox \in Seq(S) /\ m \in S
    BY <1>2, <2>1
  <2>3. /\ Keeps(Append(inbox, m), inbox, m) /\ \E i \in DOMAIN Append(inbox, m) : Append(inbox, m)[i] = m
        /\ \A j \in DOMAIN inbox : \E i \in DOMAIN Append(inbox, m) : Append(inbox, m)[i] = inbox[j]
    BY <2>2, Kept
  <2> QED BY <2>3
<1> QED BY <1>2, <1>3, <1>4, <1>5 DEF From

LEMMA GraceHandler ==
  ASSUME TypeOK, Shapes, MayCall, Grants, NEW h \in Handlers, HandlerStep(h)
  PROVE  Grants'
<1>0. /\ cache \in Cached \cup {None} /\ fetches \in [Handlers -> Fetches \cup {None}]
      /\ boot \in [at : {"init", "timer", "done"}, tier : Tiers]
      /\ inbox \in Seq([id : Ids, request : Actions \cup Tiers])
      /\ "hourly" \in Handlers
  BY DEF Shapes, Handlers
<1>1. /\ UNCHANGED tier /\ (Asks(h) \/ \E t \in Tiers : Finds(h, t))
      /\ (refreshed' = refreshed \/ (refreshed' = TRUE /\ h = "hourly" /\ boot.at = "done"))
  BY DEF HandlerStep, Finds
<1>2. cache' = cache \/ (cache' # None /\ cache'.age = 0 /\ GraceLeft')
  <2>1. cache' = cache \/ (cache' \in Cached /\ cache'.age = 0)
    BY <1>1 DEF Asks, Finds
  <2>2. PICK c : c = cache'
    OBVIOUS
  <2>3. c \in Cached /\ c.age = 0 => c # None /\ c.age + 1 < GRACE_DAYS
    BY FreshIsLeft
  <2> QED BY <2>1, <2>2, <2>3 DEF GraceLeft
<1>3. GraceLeft => GraceLeft'
  BY <1>2 DEF GraceLeft
<1>4. GraceEnds'
  <2>1. CASE cache' = cache
    BY <1>1, <2>1 DEF Grants, GraceEnds
  <2>2. CASE cache' # None /\ cache'.age = 0
    BY <2>2, BoundsAssumption DEF GraceEnds
  <2> QED BY <1>2, <2>1, <2>2
<1>5. /\ service' # "up" => tier' = "free"
      /\ boot'.at = "init" => service' = "none" /\ ~restart'.timer
  BY <1>0, <1>1 DEF Grants, Granted, Asks, Finds, startService
<1>6. CASE Asks(h)
  <2>1. PICK k \in Keys : fetches' = [fetches EXCEPT ![h] = [key |-> k, cached |-> cache]]
    BY <1>6 DEF Asks
  <2>2. PICK f : f = [key |-> k, cached |-> cache]
    OBVIOUS
  <2>3. f \in Fetches /\ f # None /\ f.cached = cache
    BY <1>0, <2>2, ValuesAssumption DEF Fetches
  <2>4. /\ fetches'[h] = f /\ (\A g \in Handlers \ {h} : fetches'[g] = fetches[g])
        /\ UNCHANGED <<cache, boot, service, restart, inbox>>
    BY <1>0, <1>6, <2>1, <2>2 DEF Asks, bridge
  <2>5. Granted'
    <3>1. \A g \in Handlers : fetches'[g] # None /\ fetches'[g].cached # None =>
            cache' # None /\ (cache' = fetches'[g].cached \/ cache'.age = 0)
      BY <2>3, <2>4 DEF Grants, Granted
    <3> QED BY <1>3, <1>5, <2>4, <3>1 DEF Grants, Granted
  <2>6. Revised'
    <3>1. CASE refreshed' = refreshed
      <4>1. fetches["hourly"] # None => fetches'["hourly"] # None
        BY <1>0, <2>3, <2>4
      <4> QED BY <1>1, <1>3, <2>4, <3>1, <4>1 DEF Grants, Revised
    <3>2. CASE h = "hourly" /\ boot.at = "done"
      BY <2>3, <2>4, <3>2 DEF Revised
    <3> QED BY <1>1, <3>1, <3>2
  <2> QED BY <1>4, <2>5, <2>6 DEF Grants
<1>7. CASE \E t \in Tiers : Finds(h, t)
  <2>1. PICK t \in Tiers : Finds(h, t)
    BY <1>7
  <2>2. /\ t = "premium" => GraceLeft'
        /\ fetches'[h] = None /\ \A g \in Handlers \ {h} : fetches'[g] = fetches[g]
    BY <1>0, <2>1 DEF Finds
  <2>3. \A g \in Handlers : fetches'[g] # None /\ fetches'[g].cached # None =>
          cache' # None /\ (cache' = fetches'[g].cached \/ cache'.age = 0)
    BY <1>2, <2>2 DEF Grants, Granted
  <2>4. boot'.at = "timer" /\ boot'.tier = "premium" => GraceLeft'
    BY <1>0, <1>3, <2>1, <2>2 DEF Finds, Grants, Granted
  <2>5. /\ \A i \in DOMAIN inbox' : inbox'[i].request = t \/ \E j \in DOMAIN inbox : inbox'[i] = inbox[j]
        /\ \A j \in DOMAIN inbox : \E i \in DOMAIN inbox' : inbox'[i] = inbox[j]
    <3>1. CASE UNCHANGED inbox
      BY <3>1
    <3>2. CASE \E n \in Ids : Numbered(h, t, n)
      BY <1>0, <3>2, CallKeeps
    <3> QED BY <2>1, <3>1, <3>2 DEF Finds, Called, bridge
  <2>6. \A i \in DOMAIN inbox' : inbox'[i].request = "premium" => GraceLeft'
    BY <1>3, <2>2, <2>5 DEF Grants, Granted
  <2>7. Granted'
    BY <1>5, <2>3, <2>4, <2>6 DEF Granted
  <2>8. Revised'
    <3>1. CASE h = "hourly"
      <4>1. Called(h, t) /\ boot' = boot
        BY <2>1, <3>1 DEF Finds
      <4>2. tier = "free" \/ \E i \in DOMAIN inbox' : inbox'[i].request = t
        <5>1. CASE service # "up"
          BY <5>1 DEF Grants, Granted
        <5>2. CASE service = "up"
          BY <1>0, <4>1, <5>2, CallKeeps DEF Called
        <5> QED BY <5>1, <5>2
      <4> QED BY <1>1, <2>1, <4>1, <4>2 DEF Revised, Grants
    <3>2. CASE h # "hourly"
      <4>1. refreshed' = refreshed /\ fetches'["hourly"] = fetches["hourly"]
        BY <1>0, <1>1, <2>2, <3>2
      <4>2. boot.at = "done" => boot'.at = "done"
        BY <1>0, <2>1 DEF Finds
      <4>3. (\E i \in DOMAIN inbox : inbox[i].request \in Tiers) => \E i \in DOMAIN inbox' : inbox'[i].request \in Tiers
        BY <2>5
      <4> QED BY <1>1, <1>3, <4>1, <4>2, <4>3 DEF Revised, Grants
    <3> QED BY <3>1, <3>2
  <2> QED BY <1>4, <2>7, <2>8 DEF Grants
<1> QED BY <1>1, <1>6, <1>7

LEMMA GraceLoop ==
  ASSUME TypeOK, Shapes, Grants, NEW l \in Loops, LoopCalls(l) \/ LoopEnds(l)
  PROVE  Grants'
<1>0. inbox \in Seq([id : Ids, request : Actions \cup Tiers])
  BY DEF Shapes
<1>1. UNCHANGED <<cache, fetches, boot, refreshed, service, restart, tier>>
  BY DEF LoopCalls, LoopEnds, licence, process
<1>2. /\ \A i \in DOMAIN inbox' : inbox'[i].request \in Actions \/ \E j \in DOMAIN inbox : inbox'[i] = inbox[j]
      /\ \A j \in DOMAIN inbox : \E i \in DOMAIN inbox' : inbox'[i] = inbox[j]
  <2>1. CASE UNCHANGED inbox
    BY <2>1
  <2>2. CASE \E r \in Actions : \E n \in Ids : Numbered(l, r, n)
    BY <1>0, <2>2, CallKeeps
  <2> QED BY <2>1, <2>2, LoopRequests DEF LoopCalls, LoopEnds, Called
<1>3. "premium" \notin Actions
  BY PlanAssumption DEF Tiers
<1>4. GraceLeft' <=> GraceLeft
  BY <1>1 DEF GraceLeft
<1>5. \A i \in DOMAIN inbox' : inbox'[i].request = "premium" => GraceLeft
  BY <1>2, <1>3 DEF Grants, Granted
<1>6. (\E i \in DOMAIN inbox : inbox[i].request \in Tiers) => \E i \in DOMAIN inbox' : inbox'[i].request \in Tiers
  BY <1>2
<1>7. Granted'
  BY <1>1, <1>4, <1>5 DEF Grants, Granted
<1>8. Revised'
  BY <1>1, <1>4, <1>6 DEF Grants, Revised
<1> QED BY <1>1, <1>7, <1>8 DEF Grants, GraceEnds

LEMMA GraceDay ==
  ASSUME TypeOK, Shapes, Grants, Day
  PROVE  Grants'
<1>0. /\ cache \in Cached \cup {None} /\ "hourly" \in Handlers
      /\ left.days > 0 /\ refreshed /\ refreshed' = FALSE /\ inbox = <<>> /\ \A h \in Handlers : fetches[h] = None
      /\ cache' = IF cache = None THEN None ELSE [cache EXCEPT !.age = @ + 1]
      /\ UNCHANGED <<fetches, boot, inbox, service, tier>>
  BY DEF Shapes, Day, Idle, Handlers, bridge, process
<1>1. boot.at = "done" /\ (tier = "premium" => GraceLeft)
  BY <1>0 DEF Grants, Revised
<1>2. GraceLeft => cache' # None /\ cache'.age < GRACE_DAYS
  <2>1. ASSUME GraceLeft PROVE cache' # None /\ cache'.age < GRACE_DAYS
    <3>1. cache \in Cached /\ cache # None /\ cache.age + 1 < GRACE_DAYS
      BY <1>0, <2>1 DEF GraceLeft
    <3>2. PICK c : c = [cache EXCEPT !.age = @ + 1]
      OBVIOUS
    <3>3. c \in Cached /\ c.age = cache.age + 1
      BY <3>1, <3>2 DEF Cached
    <3>4. c # None
      BY <3>3, ValuesAssumption
    <3> QED BY <1>0, <3>1, <3>2, <3>3, <3>4
  <2> QED BY <2>1
<1>3. GraceEnds'
  BY <1>0, <1>1, <1>2 DEF GraceEnds
<1>4. Granted'
  BY <1>0, <1>1 DEF Grants, Granted
<1>5. Revised'
  BY <1>0 DEF Revised
<1> QED BY <1>3, <1>4, <1>5 DEF Grants

LEMMA GraceServe ==
  ASSUME TypeOK, Shapes, Grants, Serve
  PROVE  Grants'
<1>0. inbox \in Seq([id : Ids, request : Actions \cup Tiers]) /\ tier \in Tiers
  BY DEF Shapes, TypeOK
<1>1. PICK line : Replies(line)
  BY <1>0, Serves
<1>2. PICK m : m = Head(inbox)
  OBVIOUS
<1>3. /\ inbox # <<>> /\ inbox' = Tail(inbox) /\ line.to = m.request
      /\ (tier' = IF m.request \in Actions THEN tier ELSE m.request)
      /\ service = "up" /\ UNCHANGED <<service, cache, fetches, boot, refreshed>>
  BY <1>1, <1>2 DEF Replies, licence
<1>4. 1 \in DOMAIN inbox /\ m = inbox[1] /\ From(inbox', inbox, m) /\ Keeps(inbox', inbox, m)
  <2>1. PICK S : S = [id : Ids, request : Actions \cup Tiers]
    OBVIOUS
  <2>2. inbox \in Seq(S)
    BY <1>0, <2>1
  <2>3. 1 \in DOMAIN inbox /\ m = inbox[1]
    BY <1>2, <1>3, <2>2
  <2>4. m \in S
    BY <1>2, <1>3, <2>2, HeadTailProperties, Zenon
  <2>5. From(Tail(inbox), inbox, Head(inbox))
    BY <1>3, <2>2, <2>4, Pipes, Zenon
  <2>6. Keeps(Tail(inbox), inbox, Head(inbox))
    BY <1>3, <2>2, <2>4, Kept, Zenon
  <2> QED BY <1>2, <1>3, <2>3, <2>5, <2>6
<1>5. GraceLeft' <=> GraceLeft
  BY <1>3 DEF GraceLeft
<1>6. \A i \in DOMAIN inbox' : inbox'[i].request = "premium" => GraceLeft
  BY <1>4 DEF From, Grants, Granted
<1>7. tier' = tier \/ (tier' = "premium" => GraceLeft)
  BY <1>3, <1>4 DEF Grants, Granted
<1>8. GraceEnds'
  <2>1. GraceLeft => cache # None /\ cache.age < GRACE_DAYS
    <3>1. ASSUME GraceLeft PROVE cache # None /\ cache.age < GRACE_DAYS
      <4>1. cache \in Cached /\ cache # None /\ cache.age + 1 < GRACE_DAYS
        BY <3>1 DEF Shapes, GraceLeft
      <4>2. cache.age \in Nat
        BY <4>1 DEF Cached
      <4> QED BY <4>1, <4>2, BoundsAssumption
    <3> QED BY <3>1
  <2> QED BY <1>3, <1>7, <2>1 DEF Grants, GraceEnds
<1>9. Granted'
  BY <1>3, <1>5, <1>6 DEF Grants, Granted
<1>10. Revised'
  <2>1. CASE m.request \notin Actions
    <3>1. tier' = "premium" => GraceLeft
      BY <1>3, <1>4, <2>1 DEF Grants, Granted
    <3> QED BY <1>3, <1>5, <3>1 DEF Grants, Revised
  <2>2. CASE m.request \in Actions
    <3>1. m.request \notin Tiers
      BY <2>2, PlanAssumption
    <3>2. (\E i \in DOMAIN inbox : inbox[i].request \in Tiers) => \E i \in DOMAIN inbox' : inbox'[i].request \in Tiers
      BY <1>4, <3>1 DEF Keeps
    <3> QED BY <1>3, <1>5, <2>2, <3>2 DEF Grants, Revised
  <2> QED BY <2>1, <2>2
<1> QED BY <1>8, <1>9, <1>10 DEF Grants

LEMMA GraceOther ==
  ASSUME TypeOK, Shapes, Grants, Other
  PROVE  Grants'
<1>1. CASE Hang \/ Die
  <2>1. /\ tier' = "free" /\ inbox' = <<>> /\ service \in {"up", "hung"} /\ service' # "up"
        /\ UNCHANGED <<cache, fetches, boot, refreshed>>
    BY <1>1 DEF Hang, Die, licence
  <2>2. GraceLeft' <=> GraceLeft
    BY <2>1 DEF GraceLeft
  <2> QED BY <2>1, <2>2 DEF Grants, Granted, Revised, GraceEnds
<1>2. CASE Stable \/ Exited \/ Restarted
  <2>1. /\ (tier' = tier \/ tier' = "free") /\ UNCHANGED <<inbox, cache, fetches, boot, refreshed>>
    BY <1>2 DEF Stable, Exited, Restarted, startService, bridge, licence
  <2>2. /\ service' # "up" => tier' = "free"
        /\ boot'.at = "init" => service' = "none" /\ ~restart'.timer
    BY <1>2, <2>1 DEF Shapes, Stable, Exited, Restarted, startService, Grants, Granted
  <2>3. GraceLeft' <=> GraceLeft
    BY <2>1 DEF GraceLeft
  <2>4. Granted'
    BY <2>1, <2>2, <2>3 DEF Grants, Granted
  <2>5. Revised'
    BY <2>1, <2>3 DEF Grants, Revised
  <2>6. GraceEnds'
    BY <2>1 DEF Grants, GraceEnds
  <2> QED BY <2>4, <2>5, <2>6 DEF Grants
<1>3. CASE Answered \/ Enter \/ Leave \/ handleCancel \/ \E id \in Ids : TimeOut(id)
  <2>1. UNCHANGED <<tier, service, restart, inbox, cache, fetches, boot, refreshed>>
    BY <1>3 DEF Answered, Enter, Leave, handleCancel, TimeOut, bridge, process, licence
  <2>2. GraceLeft' <=> GraceLeft
    BY <2>1 DEF GraceLeft
  <2>3. Granted' /\ Revised' /\ GraceEnds'
    BY <2>1, <2>2 DEF Grants, Granted, Revised, GraceEnds
  <2> QED BY <2>3 DEF Grants
<1> QED BY <1>1, <1>2, <1>3, GraceDay, GraceServe DEF Other

LEMMA GraceSteps ==
  ASSUME TypeOK, Shapes, MayCall, Grants, Step
  PROVE  Grants'
BY Split, GraceHandler, GraceLoop, GraceOther

-----------------------------------------------------------------------------
(* The theorems.                                                           *)

LEMMA InitInv == Init => IInv
<1> SUFFICES ASSUME Init PROVE IInv
  OBVIOUS
<1>1. /\ left \in Limits /\ left \in Settings /\ key \in Keys \cup {None} /\ cache \in Cached \cup {None}
  BY SettingsAssumption DEF Init, Limits
<1>2. /\ \A c \in Callers : promise[c] = None
      /\ DOMAIN pending = {} /\ \A h \in Handlers : fetches[h] = None
  BY DEF Init, NoCalls
<1>3. TypeOK
  <2>1. Matched
    BY <1>2, ValuesAssumption DEF Matched
  <2>2. cache = None \/ (cache.tier \in Tiers /\ cache.age \in Nat)
    BY <1>1 DEF Cached
  <2> QED BY <1>1, <2>1, <2>2, Matching, BoundsAssumption DEF Init, TypeOK, Tiers
<1>4. Shapes
  <2>1. inbox \in Seq([id : Ids, request : Actions \cup Tiers]) /\ outbox \in Seq(Lines)
    BY EmptySeq, Zenon DEF Init
  <2>2. \A l \in Loops : promise[l] = None
    BY <1>2, CallerSets
  <2>3. \A h \in Handlers : promise[h] = None
    BY <1>2, CallerSets
  <2>4. loop \in [Loops -> [i : Nat, status : {<<>>} \cup Statuses]]
    BY DEF Init
  <2> QED BY <1>1, <2>1, <2>2, <2>3, <2>4, BoundsAssumption DEF Init, Shapes, Tiers
<1>5. MayCall
  <2>1. \A l \in left.loops : l \in Loops /\ l # None
    BY <1>1, LoopsAssumption DEF Limits
  <2> QED BY <1>2, <2>1, CallerSets DEF Init, MayCall
<1>6. Owned /\ AnswersAreOwn
  BY <1>2, CallerSets DEF Owned, AnswersAreOwn
<1>7. Granted /\ Revised /\ GraceEnds
  BY <1>2 DEF Init, Granted, Revised, GraceEnds
<1> QED BY <1>3, <1>4, <1>5, <1>6, <1>7 DEF IInv

LEMMA IInvInductive ==
  ASSUME IInv, [Next]_vars
  PROVE  IInv'
<1>1. CASE UNCHANGED vars
  BY <1>1 DEF vars, licence, bridge, process, pages, IInv, TypeOK, Shapes, MayCall, Owned, AnswersAreOwn,
     Granted, GraceLeft, Revised, GraceEnds
<1>2. CASE Next
  <2>1. Step /\ Grants
    BY <1>2, Steps DEF IInv, Grants
  <2>2. TypeOK' /\ Shapes'
    BY <2>1, TypeSteps DEF IInv
  <2>3. MayCall'
    BY <2>1, MayCallSteps DEF IInv
  <2>4. Owned' /\ AnswersAreOwn'
    BY <2>1, OwnedSteps, AnswerSteps DEF IInv
  <2>5. Granted' /\ Revised' /\ GraceEnds'
    BY <2>1, GraceSteps DEF IInv, Grants
  <2> QED BY <2>2, <2>3, <2>4, <2>5 DEF IInv
<1> QED BY <1>1, <1>2

THEOREM Invariance == Spec => []IInv
<1>1. Init => IInv
  BY InitInv
<1>2. IInv /\ [Next]_vars => IInv'
  BY IInvInductive
<1> QED BY <1>1, <1>2, PTL DEF Spec

\* Types hold, and the pending requests of the main process are the open promises,
\* one each: no call is forgotten, and none is answered twice (index.ts:153-202, 236-254).
THEOREM TypeCorrect == Spec => []TypeOK
<1>1. IInv => TypeOK
  BY DEF IInv
<1> QED BY <1>1, Invariance, PTL

\* An answer that a loop of the apply page takes is the answer to its own call, for any
\* number of mounted pages, handlers and calls that were given up (index.ts:153-171).
THEOREM AnswersAlwaysOwn == Spec => []AnswersAreOwn
<1>1. IInv => AnswersAreOwn
  BY DEF IInv
<1> QED BY <1>1, Invariance, PTL

\* The service never grants "premium" past the days of grace, in whatever order the
\* handlers' answers, the service's ends and its restarts come
\* (tuning-license-client/src/index.ts:320-335, index.ts:447-481).
THEOREM GraceAlwaysEnds == Spec => []GraceEnds
<1>1. IInv => GraceEnds
  BY DEF IInv
<1> QED BY <1>1, Invariance, PTL
===============================================================================

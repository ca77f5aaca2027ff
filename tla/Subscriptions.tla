---------------------------- MODULE Subscriptions ----------------------------
(***************************************************************************)
(* Paid access of the tuning product: cloud-api's webhooks.ts,             *)
(* subscription.ts, donations.ts and the overrides of admin.ts, against    *)
(* the tables users, subscriptions, payment_history and donations.  Stripe *)
(* (external) keeps the subscriptions that are charged and reports each    *)
(* change of them as an event with a snapshot of what changed.             *)
(*                                                                         *)
(* Handlers of one Node process interleave at every await: each query and  *)
(* each call of Stripe is one step here.  A behaviour is either `calm'     *)
(* (Stripe delivers in order and one at a time, each user does one thing   *)
(* at a time and has one live subscription, donations come from guests, no *)
(* trial, pause or unpaid debt is set at Stripe) or `wild' (none of this). *)
(***************************************************************************)
EXTENDS Naturals, Sequences, FiniteSets

Tiers == {"premium", "expert"}
Statuses == {"active", "past_due", "cancelled", "expired", "trialing", "incomplete"}
\* The tiers and statuses an administrator may set: see Grant.
Grants == (Tiers \cup {"free"}) \X (Statuses \ {"incomplete"})

CONSTANTS
  Users, Customers, None,
  Sales,       \* Stripe subscriptions to the tuning product
  Gifts,       \* monthly donations, which are Stripe subscriptions too
  Rows,        \* rows of the table subscriptions
  Workers,     \* deliveries handled at the same time
  Tabs,        \* requests of users and administrators at the same time
  MaxInvoices, \* bound: invoices per Stripe subscription
  Settings     \* the settings explored: see setting

ASSUME NoneAssumption ==
  /\ None \notin Users \cup Customers \cup Sales \cup Gifts \cup Rows
  /\ None \notin {"succeeded", "failed"}
ASSUME SubsAssumption == Sales \cap Gifts = {}
ASSUME BoundsAssumption == MaxInvoices \in Nat \ {0} /\ IsFiniteSet(Workers)
ASSUME SettingsAssumption ==
  /\ Settings \subseteq [calm : BOOLEAN, users : SUBSET Users, subs : SUBSET (Sales \cup Gifts), grants : SUBSET Grants,
                        turns : BOOLEAN, cancels : BOOLEAN, workers : Nat,
                        faults : Nat, invoices : 0 .. MaxInvoices, feed : Nat]
  /\ \A x \in Settings : x.calm => x.workers <= 1

Subs == Sales \cup Gifts
Invoices == Subs \X (1 .. MaxInvoices)

VARIABLES
  setting,  \* fixed: calm or not, users and Stripe subscriptions that act, the
            \* overrides granted, whether Stripe turns statuses and users cancel,
            \* bounds of deliveries at the same time, faults, invoices and
            \* undelivered events
  row,      \* the table subscriptions
  latest,   \* the rows with the greatest updatedAt of their user
  customer, \* users.stripeCustomerId
  payment,  \* payment_history.status per invoice, None when there is no record
  gift,     \* the table donations
  donor,    \* the users with isDonor
  stripe,   \* Stripe's subscriptions
  settled,  \* Stripe's paid invoices
  invoiced, \* Stripe's number of invoices per subscription
  feed,     \* events not delivered yet
  worker,   \* deliveries being handled
  tab,      \* requests being handled
  faults    \* faults so far

database == <<row, latest, customer, payment, gift, donor>>
remote == <<stripe, settled, invoiced>>
vars == <<setting, row, latest, customer, payment, gift, donor, stripe, settled,
          invoiced, feed, worker, tab, faults>>

NoRow == [user |-> None, sub |-> None, tier |-> "free", status |-> "active",
          ending |-> FALSE, override |-> "none"]
NoGift == [status |-> "none", sub |-> None, user |-> None]
NoSub == [status |-> "none", ending |-> FALSE, tier |-> "premium", user |-> None,
          cust |-> None, meta |-> "session"]
Idle == [pc |-> "idle"]

\* The statuses of a Stripe subscription that may be cancelled.
LiveStatuses == {"active", "past_due", "trialing", "unpaid", "paused", "incomplete"}
Live(s) == stripe[s].status \in LiveStatuses
RowsOf(u) == {k \in Rows : row[k].user = u}
RowsWith(s) == {k \in Rows : row[k].user # None /\ row[k].sub = s}

\* SELECT ... LIMIT 1 without an order: any of the rows, None without one.
Pick(rows) == IF rows = {} THEN {None} ELSE rows

\* UPDATE of some rows of user u, given with their new contents; updatedAt makes
\* them the latest of u.
Update(u, new) ==
  /\ row' = [k \in Rows |-> IF k \in DOMAIN new THEN new[k] ELSE row[k]]
  /\ latest' = IF DOMAIN new = {} THEN latest ELSE (latest \ RowsOf(u)) \cup DOMAIN new

Insert(u, r) ==
  \E k \in Rows :
    /\ row[k] = NoRow
    /\ row' = [row EXCEPT ![k] = r]
    /\ latest' = (latest \ RowsOf(u)) \cup {k}

UpdateOne(k, r) == Update(row[k].user, [x \in {k} |-> r])

-----------------------------------------------------------------------------
(* Stripe (external): what subscription.ts asks of it and what it reports. *)

Event(kind, s, n) ==
  [kind |-> kind, sub |-> s, n |-> n, status |-> stripe'[s].status,
   ending |-> stripe'[s].ending, tier |-> stripe'[s].tier]
Emit(events) ==
  /\ Len(feed) + Len(events) <= setting.feed
  /\ feed' = feed \o events
Change(s, r) == stripe' = [stripe EXCEPT ![s] = r]

UserBusy(u) == \E t \in Tabs : tab[t] # Idle /\ tab[t].user = u
UserMayAct(u) == setting.calm => u = None \/ ~UserBusy(u)

\* The customer pays: the subscription starts with its first invoice.
Pay(s) ==
  /\ stripe[s].status \in {"open", "incomplete"}
  /\ UserMayAct(stripe[s].user)
  /\ (setting.calm /\ s \in Sales) =>
       \A x \in Sales \ {s} : stripe[x].user = stripe[s].user => ~Live(x)
  /\ \E m \in IF setting.calm THEN {"session"} ELSE {"session", "subscription", "none"} :
       Change(s, [stripe[s] EXCEPT !.status = "active", !.meta = m])
  /\ invoiced' = [invoiced EXCEPT ![s] = 1] /\ settled' = settled \cup {<<s, 1>>}
  /\ Emit(<<Event("checkout", s, 1), Event("succeeded", s, 1)>>)
  /\ UNCHANGED <<setting, database, worker, tab, faults>>

\* A renewal is paid, or fails; Stripe retries a failed one.
Renew(s, ok) ==
  /\ stripe[s].status = "active" /\ ~stripe[s].ending /\ invoiced[s] < setting.invoices
  /\ invoiced' = [invoiced EXCEPT ![s] = @ + 1]
  /\ LET n == invoiced[s] + 1 IN
       IF ok
         THEN /\ settled' = settled \cup {<<s, n>>} /\ UNCHANGED stripe
              /\ Emit(<<Event("succeeded", s, n)>>)
         ELSE /\ Change(s, [stripe[s] EXCEPT !.status = "past_due"]) /\ UNCHANGED settled
              /\ Emit(<<Event("failed", s, n), Event("updated", s, n)>>)
  /\ UNCHANGED <<setting, database, worker, tab, faults>>

Retry(s) ==
  /\ stripe[s].status \in {"past_due", "unpaid"}
  /\ Change(s, [stripe[s] EXCEPT !.status = "active"])
  /\ settled' = settled \cup {<<s, invoiced[s]>>}
  /\ Emit(<<Event("succeeded", s, invoiced[s]), Event("updated", s, invoiced[s])>>)
  /\ UNCHANGED <<setting, database, invoiced, worker, tab, faults>>

\* The billing portal: the user changes the plan.
ChangePlan(s) ==
  /\ s \in Sales /\ stripe[s].status = "active" /\ stripe[s].tier = "premium"
  /\ UserMayAct(stripe[s].user)
  /\ Change(s, [stripe[s] EXCEPT !.tier = "expert"])
  /\ Emit(<<Event("updated", s, 0)>>)
  /\ UNCHANGED <<setting, database, settled, invoiced, worker, tab, faults>>

\* Statuses that the product does not ask for: a first payment that waits for the
\* bank, and is given up, a trial, which may end in a pause, a debt kept unpaid.
StatusTurns ==
  {<<"open", "incomplete">>, <<"incomplete", "incomplete_expired">>, <<"active", "trialing">>, <<"trialing", "active">>,
   <<"trialing", "paused">>, <<"paused", "active">>, <<"past_due", "unpaid">>}
Turn(s) ==
  /\ setting.turns /\ ~setting.calm
  /\ \E x \in StatusTurns :
       /\ stripe[s].status = x[1]
       /\ Change(s, [stripe[s] EXCEPT !.status = x[2]])
  /\ Emit(<<Event("updated", s, 0)>>)
  /\ UNCHANGED <<setting, database, settled, invoiced, worker, tab, faults>>

Ended(s) == Change(s, [stripe[s] EXCEPT !.status = "canceled"]) /\ Emit(<<Event("deleted", s, 0)>>)

\* The period of a cancelled subscription is over, or Stripe gives up on a debt.
End(s) ==
  /\ stripe[s].status \in {"past_due", "unpaid"} \/ (Live(s) /\ stripe[s].ending)
  /\ Ended(s)
  /\ UNCHANGED <<setting, database, settled, invoiced, worker, tab, faults>>

-----------------------------------------------------------------------------
(* webhooks.ts.  An event stays with its worker until it is answered.      *)

Deliver(w) ==
  /\ worker[w] = Idle
  /\ Cardinality({v \in Workers : worker[v] # Idle}) < setting.workers
  /\ \E i \in 1 .. (IF setting.calm THEN 1 ELSE Len(feed)), again \in BOOLEAN :
       /\ i <= Len(feed)
       /\ again => ~setting.calm /\ faults < setting.faults
       /\ faults' = IF again THEN faults + 1 ELSE faults
       /\ feed' = IF again THEN feed ELSE SubSeq(feed, 1, i - 1) \o SubSeq(feed, i + 1, Len(feed))
       /\ worker' = [worker EXCEPT ![w] =
            [pc |-> feed[i].kind, event |-> feed[i], user |-> None, row |-> None, tier |-> "free"]]
  /\ UNCHANGED <<setting, database, remote, tab>>

At(w, kind, pc) == worker[w] # Idle /\ worker[w].event.kind = kind /\ worker[w].pc = pc
Go(w, r) == worker' = [worker EXCEPT ![w] = r]
Goto(w, pc) == Go(w, [worker[w] EXCEPT !.pc = pc])
Answer(w) == Go(w, Idle)
\* The catch of the route: an error is logged and answered with 200.
Drop(w) == Answer(w)
Handler == UNCHANGED <<setting, remote, feed, tab, faults>>

\* The stored status of a Stripe status.
mapStripeStatus(st) ==
  CASE st = "canceled" -> "cancelled"
    [] st = "incomplete_expired" -> "expired"
    [] st = "unpaid" -> "past_due"
    [] st \in {"active", "trialing", "past_due", "incomplete"} -> st
    [] OTHER -> "active"

\* Mutant: without metadata the user is anyone who has a customer.
ResolveAnyUser(w) ==
  /\ At(w, "checkout", "checkout") /\ worker[w].event.sub \in Sales
  /\ LET s == worker[w].event.sub
         u == IF stripe[s].meta # "none" THEN {stripe[s].user}
              ELSE Pick({x \in Users : customer[x] # None})
     IN \E x \in u : IF x = None THEN Answer(w)
                     ELSE Go(w, [worker[w] EXCEPT !.pc = "retrieve", !.user = x])
  /\ UNCHANGED database /\ Handler

\* checkout.session.completed: the user of the session ...
ResolveUser(w) ==
  /\ At(w, "checkout", "checkout") /\ worker[w].event.sub \in Sales
  /\ LET s == worker[w].event.sub
         u == IF stripe[s].meta # "none" THEN {stripe[s].user}
              ELSE Pick({x \in Users : customer[x] # None /\ customer[x] = stripe[s].cust})
     IN \E x \in u : IF x = None THEN Answer(w)
                     ELSE Go(w, [worker[w] EXCEPT !.pc = "retrieve", !.user = x])
  /\ UNCHANGED database /\ Handler

\* ... the price it has now ...
Retrieve(w) ==
  /\ At(w, "checkout", "retrieve")
  /\ Go(w, [worker[w] EXCEPT !.pc = "find", !.tier = stripe[worker[w].event.sub].tier])
  /\ UNCHANGED database /\ Handler

\* ... whether the user has a row ...
FindExisting(w) ==
  /\ At(w, "checkout", "find")
  /\ \E k \in Pick(RowsOf(worker[w].user)) : Go(w, [worker[w] EXCEPT !.pc = "save", !.row = k])
  /\ UNCHANGED database /\ Handler

\* ... which is written over, or inserted.  stripeSubscriptionId is unique.
SubData(s, tier, r) == [r EXCEPT !.sub = s, !.tier = tier, !.status = "active", !.ending = FALSE]
Save(w) ==
  LET s == worker[w].event.sub
      u == worker[w].user
      rows == RowsOf(u)
      New(r) == SubData(s, worker[w].tier, r)
      clash == IF worker[w].row = None THEN RowsWith(s) # {}
               ELSE RowsWith(s) \ rows # {} \/ Cardinality(rows) > 1
  IN
  /\ At(w, "checkout", "save")
  /\ IF clash THEN Drop(w) /\ UNCHANGED <<row, latest>>
     ELSE /\ Goto(w, "link")
          /\ IF worker[w].row = None THEN Insert(u, New([NoRow EXCEPT !.user = u]))
             ELSE Update(u, [k \in rows |-> New(row[k])])
  /\ UNCHANGED <<customer, payment, gift, donor>> /\ Handler

LinkCustomer(w) ==
  /\ At(w, "checkout", "link")
  /\ customer' = [customer EXCEPT ![worker[w].user] = stripe[worker[w].event.sub].cust]
  /\ Answer(w)
  /\ UNCHANGED <<row, latest, payment, gift, donor>> /\ Handler

\* customer.subscription.updated and .deleted: the row by its Stripe id ...
FindBySub(w) ==
  /\ \/ At(w, "updated", "updated")
     \/ At(w, "deleted", "deleted") /\ worker[w].event.sub \in Sales
  /\ \E k \in Pick(RowsWith(worker[w].event.sub)) :
       IF k = None THEN Answer(w) ELSE Go(w, [worker[w] EXCEPT !.pc = "write", !.row = k])
  /\ UNCHANGED database /\ Handler

\* ... and then by its own id.
Updated(w) ==
  LET e == worker[w].event
      r == row[worker[w].row]
      New == [r EXCEPT !.tier = e.tier, !.status = mapStripeStatus(e.status), !.ending = e.ending]
  IN
  /\ At(w, "updated", "write")
  /\ UpdateOne(worker[w].row, New) /\ Answer(w)
  /\ UNCHANGED <<customer, payment, gift, donor>> /\ Handler

\* Mutant: the ended subscription stays in the row.
DeletedKeepsSub(w) ==
  LET r == row[worker[w].row]
      New == [r EXCEPT !.tier = "free", !.status = "cancelled"]
  IN
  /\ At(w, "deleted", "write")
  /\ UpdateOne(worker[w].row, New) /\ Answer(w)
  /\ UNCHANGED <<customer, payment, gift, donor>> /\ Handler

Deleted(w) ==
  LET r == row[worker[w].row]
      New == [r EXCEPT !.tier = "free", !.status = "cancelled", !.sub = None]
  IN
  /\ At(w, "deleted", "write")
  /\ UpdateOne(worker[w].row, New) /\ Answer(w)
  /\ UNCHANGED <<customer, payment, gift, donor>> /\ Handler

\* invoice.payment_succeeded and .payment_failed: the user by the customer ...
Paying(w, pc) == At(w, "succeeded", pc) \/ At(w, "failed", pc)
FindPayer(w) ==
  /\ Paying(w, "succeeded") \/ Paying(w, "failed")
  /\ LET c == stripe[worker[w].event.sub].cust IN
     \E u \in Pick({x \in Users : c # None /\ customer[x] = c}) :
       IF u = None THEN Answer(w) ELSE Go(w, [worker[w] EXCEPT !.pc = "find", !.user = u])
  /\ UNCHANGED database /\ Handler

FindRow(w) ==
  /\ Paying(w, "find")
  /\ \E k \in Pick(RowsOf(worker[w].user)) : Go(w, [worker[w] EXCEPT !.pc = "record", !.row = k])
  /\ UNCHANGED database /\ Handler

\* ... one record per invoice, the first one ...
Record(w) ==
  LET i == <<worker[w].event.sub, worker[w].event.n>> IN
  /\ Paying(w, "record")
  /\ payment' = IF payment[i] # None THEN payment ELSE [payment EXCEPT ![i] = worker[w].event.kind]
  /\ IF worker[w].row = None THEN Answer(w) ELSE Goto(w, "status")
  /\ UNCHANGED <<row, latest, customer, gift, donor>> /\ Handler

\* ... and the status of the user's row.
SetStatus(w) ==
  LET r == row[worker[w].row]
      New == [r EXCEPT !.status = IF worker[w].event.kind = "succeeded" THEN "active" ELSE "past_due"]
  IN
  /\ Paying(w, "status")
  /\ UpdateOne(worker[w].row, New) /\ Answer(w)
  /\ UNCHANGED <<customer, payment, gift, donor>> /\ Handler

\* donations.ts: a donation is completed, and its user becomes a donor.
CompleteGift(w) ==
  LET d == worker[w].event.sub IN
  /\ At(w, "checkout", "checkout") /\ d \in Gifts
  /\ gift' = [gift EXCEPT ![d].status = "completed", ![d].sub = d]
  /\ Goto(w, "donor")
  /\ UNCHANGED <<row, latest, customer, payment, donor>> /\ Handler

MarkDonor(w) ==
  /\ At(w, "checkout", "donor")
  /\ donor' = donor \cup ({gift[worker[w].event.sub].user} \ {None})
  /\ Answer(w)
  /\ UNCHANGED <<row, latest, customer, payment, gift>> /\ Handler

CancelledGift(w) ==
  LET d == worker[w].event.sub IN
  /\ At(w, "deleted", "deleted") /\ d \in Gifts
  /\ gift' = [gift EXCEPT ![d].status = "cancelled"]
  /\ Answer(w)
  /\ UNCHANGED <<row, latest, customer, payment, donor>> /\ Handler

\* A query or a call of Stripe throws.
HandlerFails(w) ==
  /\ worker[w] # Idle /\ ~setting.calm /\ faults < setting.faults
  /\ Drop(w) /\ faults' = faults + 1
  /\ UNCHANGED <<setting, database, remote, feed, tab>>

Webhook(w) ==
  \/ ResolveUser(w) \/ Retrieve(w) \/ FindExisting(w) \/ Save(w) \/ LinkCustomer(w)
  \/ FindBySub(w) \/ Updated(w) \/ Deleted(w)
  \/ FindPayer(w) \/ FindRow(w) \/ Record(w) \/ SetStatus(w)
  \/ CompleteGift(w) \/ MarkDonor(w) \/ CancelledGift(w)

-----------------------------------------------------------------------------
(* The requests of subscription.ts, donations.ts and admin.ts.             *)

Begin(t, u, pc, k, s, c) ==
  /\ tab[t] = Idle
  /\ setting.calm => ~UserBusy(u)
  /\ tab' = [tab EXCEPT ![t] = [user |-> u, pc |-> pc, row |-> k, sub |-> s, cust |-> c]]
Doing(t, pc) == tab[t] # Idle /\ tab[t].pc = pc
Step(t, r) == tab' = [tab EXCEPT ![t] = r]
Reply(t) == Step(t, Idle)
Request == UNCHANGED <<setting, worker, faults>>

\* POST /checkout: the user's Stripe customer is read, or made and saved ...
Checkout(t, u) ==
  /\ Begin(t, u, IF customer[u] = None THEN "create" ELSE "session",
           None, None, customer[u])
  /\ UNCHANGED <<database, remote, feed>> /\ Request

CreateCustomer(t) ==
  /\ Doing(t, "create")
  /\ \E c \in Customers :
       /\ \A u \in Users : customer[u] # c
       /\ \A s \in Subs : stripe[s].cust # c
       /\ \A x \in Tabs : tab[x] # Idle => tab[x].cust # c
       /\ Step(t, [tab[t] EXCEPT !.pc = "save", !.cust = c])
  /\ UNCHANGED <<database, remote, feed>> /\ Request

SaveCustomer(t) ==
  /\ Doing(t, "save")
  /\ customer' = [customer EXCEPT ![tab[t].user] = tab[t].cust]
  /\ Step(t, [tab[t] EXCEPT !.pc = "session"])
  /\ UNCHANGED <<row, latest, payment, gift, donor, remote, feed>> /\ Request

\* ... and a session is opened for it.
OpenSession(t) ==
  /\ Doing(t, "session")
  /\ \E s \in Sales \cap setting.subs :
       /\ stripe[s] = NoSub
       /\ Change(s, [NoSub EXCEPT !.status = "open", !.user = tab[t].user, !.cust = tab[t].cust])
  /\ Reply(t)
  /\ UNCHANGED <<database, settled, invoiced, feed>> /\ Request

\* POST /cancel, at once or at the end of the period, and POST /reactivate:
\* the row is selected, Stripe is told, the row is updated.
Cancel(t, u, how) ==
  /\ setting.cancels
  /\ \E k \in {x \in RowsOf(u) : row[x].status = "active" /\ row[x].sub # None} :
       Begin(t, u, how, k, row[k].sub, None)
  /\ UNCHANGED <<database, remote, feed>> /\ Request

Reactivate(t, u) ==
  /\ \E k \in {x \in RowsOf(u) \cap latest : row[x].sub # None /\ row[x].ending} :
       Begin(t, u, "reactivate", k, row[k].sub, None)
  /\ UNCHANGED <<database, remote, feed>> /\ Request

TellStripe(t) ==
  LET s == tab[t].sub IN
  /\ Doing(t, "cancelNow") \/ Doing(t, "cancelLater") \/ Doing(t, "reactivate")
  /\ IF ~Live(s) THEN Reply(t) /\ UNCHANGED <<stripe, feed>>
     ELSE /\ Step(t, [tab[t] EXCEPT !.pc = CASE @ = "cancelNow" -> "cancelled"
                                            [] @ = "cancelLater" -> "ending"
                                            [] @ = "reactivate" -> "renewing"])
          /\ IF tab[t].pc = "cancelNow" THEN Ended(s)
             ELSE /\ Change(s, [stripe[s] EXCEPT !.ending = tab[t].pc = "cancelLater"])
                  /\ Emit(<<Event("updated", s, 0)>>)
  /\ UNCHANGED <<database, settled, invoiced>> /\ Request

\* Mutant: the cancellation is stored in Stripe's spelling.
WriteCanceled(t) ==
  LET r == row[tab[t].row]
      New == CASE tab[t].pc = "cancelled" -> [r EXCEPT !.status = "canceled", !.ending = FALSE]
               [] tab[t].pc = "ending" -> [r EXCEPT !.ending = TRUE]
               [] tab[t].pc = "renewing" -> [r EXCEPT !.ending = FALSE]
  IN
  /\ Doing(t, "cancelled") \/ Doing(t, "ending") \/ Doing(t, "renewing")
  /\ UpdateOne(tab[t].row, New) /\ Reply(t)
  /\ UNCHANGED <<customer, payment, gift, donor, remote, feed>> /\ Request

WriteRow(t) ==
  LET r == row[tab[t].row]
      New == CASE tab[t].pc = "cancelled" -> [r EXCEPT !.status = "cancelled", !.ending = FALSE]
               [] tab[t].pc = "ending" -> [r EXCEPT !.ending = TRUE]
               [] tab[t].pc = "renewing" -> [r EXCEPT !.ending = FALSE]
  IN
  /\ Doing(t, "cancelled") \/ Doing(t, "ending") \/ Doing(t, "renewing")
  /\ UpdateOne(tab[t].row, New) /\ Reply(t)
  /\ UNCHANGED <<customer, payment, gift, donor, remote, feed>> /\ Request

\* GET /status: an override past its date is found, and all rows are reset.
Status(t, u) ==
  /\ \E k \in RowsOf(u) \cap latest : row[k].override = "past"
  /\ Begin(t, u, "expire", None, None, None)
  /\ UNCHANGED <<database, remote, feed>> /\ Request

Expire(t) ==
  LET New(k) == [row[k] EXCEPT !.tier = "free", !.status = "cancelled", !.override = "none"]
  IN
  /\ Doing(t, "expire")
  /\ Update(tab[t].user, [k \in RowsOf(tab[t].user) |-> New(k)]) /\ Reply(t)
  /\ UNCHANGED <<customer, payment, gift, donor, remote, feed>> /\ Request

\* An administrator's override, of any tier and status, with or without end, or
\* gift of paid access for some days.
Override(t, u) ==
  /\ setting.grants # {}
  /\ \E k \in Pick(RowsOf(u)) : Begin(t, u, "override", k, None, None)
  /\ UNCHANGED <<database, remote, feed>> /\ Request

Grant(t) ==
  /\ Doing(t, "override")
  /\ \E g \in setting.grants, o \in {"dated", "forever"} :
       LET New(r) == [r EXCEPT !.tier = g[1], !.status = g[2], !.override = o]
       IN IF tab[t].row = None
            THEN Insert(tab[t].user, New([NoRow EXCEPT !.user = tab[t].user]))
            ELSE UpdateOne(tab[t].row, New(row[tab[t].row]))
  /\ Reply(t)
  /\ UNCHANGED <<customer, payment, gift, donor, remote, feed>> /\ Request

\* POST /create of a monthly donation, with the user's customer when there is one ...
Donate(t, u, d) ==
  /\ gift[d] = NoGift
  /\ setting.calm => u = None
  /\ Begin(t, u, "donate", None, d, IF u = None THEN None ELSE customer[u])
  /\ gift' = [gift EXCEPT ![d].status = "pending", ![d].user = u]
  /\ UNCHANGED <<row, latest, customer, payment, donor, remote, feed>> /\ Request

\* Mutant: the donation is completed when its session is opened.
OpenPaidGift(t) ==
  /\ Doing(t, "donate")
  /\ Change(tab[t].sub, [NoSub EXCEPT !.status = "open", !.user = tab[t].user, !.cust = tab[t].cust])
  /\ gift' = [gift EXCEPT ![tab[t].sub].status = "completed"]
  /\ Reply(t)
  /\ UNCHANGED <<row, latest, customer, payment, donor, settled, invoiced, feed>> /\ Request

OpenGift(t) ==
  /\ Doing(t, "donate")
  /\ Change(tab[t].sub, [NoSub EXCEPT !.status = "open", !.user = tab[t].user, !.cust = tab[t].cust])
  /\ Reply(t)
  /\ UNCHANGED <<database, settled, invoiced, feed>> /\ Request

\* ... and POST /cancel-monthly.
CancelMonthly(t, u, d) ==
  /\ gift[d].user = u /\ gift[d].sub = d
  /\ Begin(t, u, "cancelGift", None, d, None)
  /\ UNCHANGED <<database, remote, feed>> /\ Request

StopGift(t) ==
  /\ Doing(t, "cancelGift")
  /\ IF ~Live(tab[t].sub) THEN Reply(t) /\ UNCHANGED <<stripe, feed>>
     ELSE Step(t, [tab[t] EXCEPT !.pc = "giftCancelled"]) /\ Ended(tab[t].sub)
  /\ UNCHANGED <<database, settled, invoiced>> /\ Request

WriteGift(t) ==
  /\ Doing(t, "giftCancelled")
  /\ gift' = [gift EXCEPT ![tab[t].sub].status = "cancelled"]
  /\ Reply(t)
  /\ UNCHANGED <<row, latest, customer, payment, donor, remote, feed>> /\ Request

RequestFails(t) ==
  /\ tab[t] # Idle /\ faults < setting.faults
  /\ Reply(t) /\ faults' = faults + 1
  /\ UNCHANGED <<setting, database, remote, feed, worker>>

-----------------------------------------------------------------------------
(* The process restarts: what was not answered with 200 is sent again, in  *)
(* any order.                                                              *)

Unanswered == {worker[w].event : w \in {x \in Workers : worker[x] # Idle}}
Crash ==
  /\ faults < setting.faults /\ faults' = faults + 1
  /\ \E again \in [1 .. Cardinality(Unanswered) -> Unanswered] :
       /\ Unanswered = {again[i] : i \in DOMAIN again}
       /\ feed' = again \o feed
  /\ worker' = [w \in Workers |-> Idle] /\ tab' = [t \in Tabs |-> Idle]
  /\ UNCHANGED <<setting, database, remote>>

\* The date of an override passes.
OverrideEnds(k) ==
  /\ row[k].override = "dated"
  /\ row' = [row EXCEPT ![k].override = "past"]
  /\ UNCHANGED <<setting, latest, customer, payment, gift, donor, remote, feed, worker, tab,
                 faults>>

-----------------------------------------------------------------------------

Init ==
  /\ setting \in Settings
  /\ row = [k \in Rows |-> NoRow] /\ latest = {}
  /\ customer = [u \in Users |-> None]
  /\ payment = [i \in Invoices |-> None]
  /\ gift = [d \in Gifts |-> NoGift] /\ donor = {}
  /\ stripe = [s \in Subs |-> NoSub] /\ settled = {} /\ invoiced = [s \in Subs |-> 0]
  /\ feed = <<>>
  /\ worker = [w \in Workers |-> Idle] /\ tab = [t \in Tabs |-> Idle]
  /\ faults = 0

Billing ==
  \E s \in setting.subs : Pay(s) \/ Renew(s, TRUE) \/ Renew(s, FALSE) \/ Retry(s) \/ ChangePlan(s) \/ Turn(s) \/ End(s)

Serve(t) ==
  \/ CreateCustomer(t) \/ SaveCustomer(t) \/ OpenSession(t)
  \/ TellStripe(t) \/ WriteRow(t) \/ Expire(t) \/ Grant(t)
  \/ OpenGift(t) \/ StopGift(t) \/ WriteGift(t)

Ask(t) ==
  \/ \E u \in setting.users : \/ Checkout(t, u) \/ Cancel(t, u, "cancelNow") \/ Cancel(t, u, "cancelLater")
                      \/ Reactivate(t, u) \/ Status(t, u) \/ Override(t, u)
  \/ \E u \in setting.users \cup {None}, d \in Gifts \cap setting.subs : Donate(t, u, d)
  \/ \E u \in setting.users, d \in Gifts \cap setting.subs : CancelMonthly(t, u, d)

Next ==
  \/ Billing
  \/ \E w \in Workers : Deliver(w) \/ Webhook(w) \/ HandlerFails(w)
  \/ \E t \in Tabs : Ask(t) \/ Serve(t) \/ RequestFails(t)
  \/ Crash
  \/ \E k \in Rows : OverrideEnds(k)

Spec == Init /\ [][Next]_vars

-----------------------------------------------------------------------------
(* Properties.                                                             *)

Stored ==
  [user : Users \cup {None}, sub : Sales \cup {None}, tier : Tiers \cup {"free"},
   status : Statuses, ending : BOOLEAN, override : {"none", "dated", "forever", "past"}]

\* Every variable holds values of its kind, and the feed stays in its bound.
TypeOK ==
  /\ setting \in Settings
  /\ row \in [Rows -> Stored]
  /\ latest \subseteq {k \in Rows : row[k] # NoRow}
  /\ customer \in [Users -> Customers \cup {None}]
  /\ payment \in [Invoices -> {None, "succeeded", "failed"}]
  /\ donor \subseteq Users /\ settled \subseteq Invoices
  /\ invoiced \in [Subs -> 0 .. MaxInvoices]
  /\ \A t \in Tabs : tab[t] # Idle => tab[t].user \in Users \cup {None}
  /\ \A w \in Workers : worker[w] # Idle => worker[w].event.sub \in Subs

\* A row carries only a Stripe subscription of its own user, and the customer by
\* which an invoice finds its user is the payer's: no delivery, in whatever order,
\* however often and beside whichever other, gives or takes another user's access.
RowsFollowOwners ==
  /\ \A k \in Rows : row[k].sub # None => stripe[row[k].sub].user = row[k].user
  /\ \A u \in Users, s \in Subs : customer[u] # None /\ stripe[s].cust = customer[u] => stripe[s].user = u

\* The payment history claims no payment that was not made, and a donor has
\* paid: neither duplicates nor crashes in the middle of a handler forge one.
PaymentsAreReal ==
  /\ \A i \in Invoices : payment[i] = "succeeded" => i \in settled
  /\ \A u \in donor : \E d \in Gifts : gift[d].user = u /\ <<d, 1>> \in settled
  /\ \A d \in Gifts : gift[d].status = "completed" => <<d, 1>> \in settled

Quiet == feed = <<>> /\ (\A w \in Workers : worker[w] = Idle) /\ (\A t \in Tabs : tab[t] = Idle)
Overridden(u) == \E k \in RowsOf(u) : row[k].override # "none"
Agrees(k, s) ==
  /\ row[k].sub = s /\ row[k].user = stripe[s].user
  /\ row[k].tier = stripe[s].tier /\ row[k].ending = stripe[s].ending
  /\ row[k].status = stripe[s].status
Agreement ==
  /\ \A s \in Sales : Live(s) /\ ~Overridden(stripe[s].user) => \E k \in Rows : Agrees(k, s)
  /\ \A k \in Rows : row[k].sub # None => Live(row[k].sub)

\* When Stripe delivers in order and the users do one thing at a time, the
\* routes that tell Stripe first and write their row afterwards, the events
\* that overtake them and the restarts between two statements leave no trace:
\* once everything is handled the table says what Stripe charges.
CalmAgreement == setting.calm /\ setting.grants = {} /\ Quiet => Agreement
=============================================================================

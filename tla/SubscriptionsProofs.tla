------------------------- MODULE SubscriptionsProofs -------------------------
(***************************************************************************)
(* Proofs about Subscriptions: its type invariant, that rows follow their  *)
(* owners, that no payment is invented, and that in calm settings the rows *)
(* say what Stripe charges.  A step is first summed up as what it does to  *)
(* each table (the operators named ...Kept); for the last theorem, what is *)
(* still to be handled is one queue, and CalmInv relates it to the rows.   *)
(***************************************************************************)
EXTENDS Subscriptions, FiniteSetTheorems, SequenceTheorems, TLAPS

-----------------------------------------------------------------------------
(* The inductive invariant.                                                *)

Given == [status : {"none", "pending", "completed", "cancelled"}, sub : Gifts \cup {None}, user : Users \cup {None}]
\* The statuses of Stripe; in calm settings it does without some.
Plain == {"none", "open", "active", "past_due", "canceled"}
Turned == {"trialing", "unpaid", "paused", "incomplete", "incomplete_expired"}
Known == IF setting.calm THEN Plain ELSE Plain \cup Turned
\* Those of a subscription whose first invoice is paid.
Begun == {"active", "past_due", "trialing", "unpaid", "paused"}
Charged ==
  [status : Known, ending : BOOLEAN, tier : Tiers,
   user : Users \cup {None}, cust : Customers \cup {None}, meta : {"session", "subscription", "none"}]
Kinds == {"checkout", "succeeded", "failed", "updated", "deleted"}
Events ==
  [kind : Kinds, sub : Subs, n : 0 .. MaxInvoices, status : Plain \cup Turned,
   ending : BOOLEAN, tier : Tiers]
Deliveries ==
  [pc : Kinds \cup {"retrieve", "find", "save", "link", "donor", "write", "record", "status"},
   event : Events, user : Users \cup {None}, row : Rows \cup {None}, tier : Tiers \cup {"free"}]
Requests ==
  [user : Users \cup {None}, row : Rows \cup {None}, sub : Subs \cup {None}, cust : Customers \cup {None},
   pc : {"create", "save", "session", "cancelNow", "cancelLater", "reactivate", "cancelled", "ending", "renewing",
         "expire", "override", "donate", "cancelGift", "giftCancelled"}]

\* What Stripe, its events and the handlers keep.
Shapes ==
  /\ gift \in [Gifts -> Given] /\ stripe \in [Subs -> Charged] /\ feed \in Seq(Events)
  /\ worker \in [Workers -> Deliveries \cup {Idle}] /\ tab \in [Tabs -> Requests \cup {Idle}]

\* An event reports what happened, given the invoices that are paid.
Reported(e, paid) ==
  /\ e.kind \in {"checkout", "succeeded"} => <<e.sub, e.n>> \in paid
  /\ e.kind = "checkout" => e.n = 1
  /\ e.kind = "failed" => e.n > 0
EventsAreTrue ==
  /\ \A i \in DOMAIN feed : Reported(feed[i], settled)
  /\ \A w \in Workers : worker[w] # Idle => Reported(worker[w].event, settled)
  /\ \A s \in Subs : stripe[s].status \in Begun => invoiced[s] > 0
  /\ \A i \in settled : i[1] \in Sales => stripe[i[1]].status # "none"

\* A customer of Stripe is one user's, in the table, at Stripe and in a request.
Holders ==
  {<<customer[u], u>> : u \in Users} \cup {<<stripe[s].cust, stripe[s].user>> : s \in Subs}
    \cup {<<tab[t].cust, tab[t].user>> : t \in {x \in Tabs : tab[x] # Idle}}
CustomersAreOwn == \A p, q \in Holders : p[1] = q[1] /\ p[1] # None => p[2] = q[2]

\* The user a delivery found is the subscriber, and a row that was selected is somebody's.
DeliveryOK(d) ==
  /\ d.row # None => row[d.row].user # None
  /\ d.pc \in {"write", "status"} => d.row # None
  /\ d.pc \in {"retrieve", "find", "save", "link"} => d.user # None
  /\ d.event.kind = "checkout" /\ d.pc \in {"retrieve", "find", "save", "link"} =>
       d.event.sub \in Sales /\ d.user = stripe[d.event.sub].user
  /\ d.event.kind = "checkout" /\ d.pc = "donor" => d.event.sub \in Gifts
RequestOK(r) ==
  /\ r.row # None => row[r.row].user # None
  /\ r.pc \in {"create", "save", "session", "override", "expire"} => r.user # None
  /\ r.pc \in {"cancelNow", "cancelLater", "reactivate"} => r.sub \in Sales
  /\ r.pc \in {"cancelNow", "cancelLater", "reactivate", "cancelled", "ending", "renewing"} => r.row # None
  /\ r.pc \in {"donate", "cancelGift", "giftCancelled"} => r.sub \in Gifts
RowsAreSold ==
  /\ \A k \in latest : row[k].user # None
  /\ \A k \in Rows : row[k].sub # None => stripe[row[k].sub].status # "none"

IInv ==
  /\ TypeOK /\ Shapes /\ EventsAreTrue /\ CustomersAreOwn /\ RowsAreSold
  /\ \A w \in Workers : worker[w] # Idle => DeliveryOK(worker[w])
  /\ \A t \in Tabs : tab[t] # Idle => RequestOK(tab[t])
  /\ RowsFollowOwners /\ PaymentsAreReal

-----------------------------------------------------------------------------

Rewritten(k, new) ==
  /\ new \in Stored
  /\ row[k].user # None => new.user = row[k].user
  /\ new.sub # None =>
       \/ new.sub = row[k].sub /\ new.user = row[k].user
       \/ stripe[new.sub].user = new.user /\ stripe[new.sub].status # "none"
RowsKept ==
  /\ row' \in [Rows -> Stored] /\ \A k \in Rows : Rewritten(k, row'[k])
  /\ latest' \subseteq Rows /\ \A k \in latest' : row'[k].user # None

-----------------------------------------------------------------------------
(* The table subscriptions.                                                *)

LEMMA Facts ==
  ASSUME IInv
  PROVE  /\ setting \in Settings /\ row \in [Rows -> Stored] /\ latest \subseteq Rows
         /\ \A k \in latest : row[k].user # None
         /\ customer \in [Users -> Customers \cup {None}]
         /\ settled \subseteq Invoices /\ invoiced \in [Subs -> 0 .. MaxInvoices]
         /\ gift \in [Gifts -> Given] /\ stripe \in [Subs -> Charged] /\ feed \in Seq(Events)
         /\ worker \in [Workers -> Deliveries \cup {Idle}] /\ tab \in [Tabs -> Requests \cup {Idle}]
         /\ \A w \in Workers : worker[w] # Idle =>
              worker[w] \in Deliveries /\ DeliveryOK(worker[w]) /\ Reported(worker[w].event, settled)
         /\ \A t \in Tabs : tab[t] # Idle => tab[t] \in Requests /\ RequestOK(tab[t])
BY DEF IInv, TypeOK, Shapes, EventsAreTrue, RowsAreSold

LEMMA SameRow ==
  ASSUME IInv, NEW k \in Rows
  PROVE  Rewritten(k, row[k])
BY Facts DEF Rewritten

\* UPDATE of rows that are somebody's.
LEMMA UpdateKeeps ==
  ASSUME IInv, NEW u, NEW new, Update(u, new), DOMAIN new \subseteq Rows,
         \A k \in DOMAIN new : Rewritten(k, new[k]) /\ row[k].user # None
  PROVE  RowsKept
<1>1. row' = [k \in Rows |-> IF k \in DOMAIN new THEN new[k] ELSE row[k]]
  BY DEF Update
<1>2. \A k \in Rows : Rewritten(k, row'[k])
  BY <1>1, SameRow
<1>3. row' \in [Rows -> Stored]
  BY <1>1, <1>2 DEF Rewritten
<1>4. \A k \in Rows : row[k].user # None => row'[k].user # None
  BY <1>2 DEF Rewritten
<1>5. latest' \subseteq latest \cup DOMAIN new
  BY DEF Update
<1>6. latest' \subseteq Rows /\ \A k \in latest' : row'[k].user # None
  BY <1>4, <1>5, Facts
<1> QED BY <1>2, <1>3, <1>6 DEF RowsKept

LEMMA UpdateOneKeeps ==
  ASSUME IInv, NEW k \in Rows, NEW r, UpdateOne(k, r), Rewritten(k, r), row[k].user # None
  PROVE  RowsKept
<1>1. PICK new : new = [x \in {k} |-> r]
  OBVIOUS
<1>2. Update(row[k].user, new) /\ DOMAIN new = {k} /\ new[k] = r
  BY <1>1 DEF UpdateOne
<1> QED BY <1>2, UpdateKeeps

LEMMA InsertKeeps ==
  ASSUME IInv, NEW u \in Users, NEW r, Insert(u, r), r \in Stored, r.user = u,
         r.sub # None => stripe[r.sub].user = u /\ stripe[r.sub].status # "none"
  PROVE  RowsKept
<1>1. PICK k \in Rows : /\ row[k] = NoRow /\ row' = [row EXCEPT ![k] = r]
                        /\ latest' = (latest \ RowsOf(u)) \cup {k}
  BY DEF Insert
<1>2. row[k].user = None
  BY <1>1 DEF NoRow
<1>3. Rewritten(k, r)
  BY <1>2 DEF Rewritten
<1>4. row \in [Rows -> Stored] /\ latest \subseteq Rows /\ (\A x \in latest : row[x].user # None)
  BY Facts
<1>5. row' \in [Rows -> Stored] /\ row'[k] = r /\ (\A x \in Rows \ {k} : row'[x] = row[x])
  BY <1>1, <1>4
<1>6. \A x \in Rows : Rewritten(x, row'[x])
  BY <1>3, <1>5, SameRow
<1>7. latest' \subseteq Rows /\ \A x \in latest' : row'[x].user # None
  BY <1>1, <1>4, <1>5, NoneAssumption
<1> QED BY <1>5, <1>6, <1>7 DEF RowsKept

LEMMA RowsUnchanged ==
  ASSUME IInv, UNCHANGED <<row, latest>>
  PROVE  RowsKept
BY Facts, SameRow DEF RowsKept

LEMMA SaveKeeps ==
  ASSUME IInv, NEW w \in Workers, Save(w)
  PROVE  RowsKept
<1>1. PICK d : d = worker[w]
  OBVIOUS
<1>2. d \in Deliveries /\ DeliveryOK(d) /\ Reported(d.event, settled) /\ d.event.kind = "checkout" /\ d.pc = "save"
  BY <1>1, Facts DEF Save, At
<1>3. PICK s, u : s = d.event.sub /\ u = d.user
  OBVIOUS
<1>4. /\ s \in Sales /\ u \in Users /\ u = stripe[s].user /\ <<s, 1>> \in settled
      /\ d.event.n = 1 /\ d.row \in Rows \cup {None} /\ d.tier \in Tiers \cup {"free"}
  BY <1>2, <1>3 DEF DeliveryOK, Reported, Deliveries
<1>5. stripe[s].status # "none"
  <2>1. PICK i : i = <<s, 1>>
    OBVIOUS
  <2>2. i \in settled /\ i[1] = s
    BY <1>4, <2>1
  <2> QED BY <1>4, <2>2 DEF IInv, EventsAreTrue
<1>6. CASE UNCHANGED <<row, latest>>
  BY <1>6, RowsUnchanged
<1>7. ASSUME NEW r \in Stored, r.user = u
      PROVE  SubData(s, d.tier, r) \in Stored /\ SubData(s, d.tier, r).user = u /\ SubData(s, d.tier, r).sub = s
  BY <1>4, <1>7 DEF SubData, Stored, Statuses
<1>8. CASE d.row = None /\ Insert(u, SubData(s, d.tier, [NoRow EXCEPT !.user = u]))
  <2>1. PICK r : r = [NoRow EXCEPT !.user = u]
    OBVIOUS
  <2>2. r \in Stored /\ r.user = u
    BY <1>4, <2>1 DEF NoRow, Stored, Statuses
  <2>3. PICK n : n = SubData(s, d.tier, r)
    OBVIOUS
  <2>4. n \in Stored /\ n.user = u /\ n.sub = s /\ Insert(u, n)
    BY <1>7, <1>8, <2>1, <2>2, <2>3
  <2> QED BY <1>4, <1>5, <2>4, InsertKeeps
<1>9. CASE Update(u, [k \in RowsOf(u) |-> SubData(s, d.tier, row[k])])
  <2>1. PICK new : new = [k \in RowsOf(u) |-> SubData(s, d.tier, row[k])]
    OBVIOUS
  <2>2. DOMAIN new \subseteq Rows /\ Update(u, new)
    BY <1>9, <2>1 DEF RowsOf
  <2>3. ASSUME NEW k \in DOMAIN new PROVE Rewritten(k, new[k]) /\ row[k].user # None
    <3>1. k \in Rows /\ row[k] \in Stored /\ row[k].user = u /\ new[k] = SubData(s, d.tier, row[k])
      BY <2>1, <2>3, Facts DEF RowsOf
    <3>2. PICK n : n = SubData(s, d.tier, row[k])
      OBVIOUS
    <3>3. n \in Stored /\ n.user = u /\ n.sub = s
      BY <1>7, <3>1, <3>2
    <3> QED BY <1>4, <1>5, <3>1, <3>2, <3>3, NoneAssumption DEF Rewritten
  <2> QED BY <2>2, <2>3, UpdateKeeps
<1>10. \/ UNCHANGED <<row, latest>>
       \/ d.row = None /\ Insert(u, SubData(s, d.tier, [NoRow EXCEPT !.user = u]))
       \/ Update(u, [k \in RowsOf(u) |-> SubData(s, d.tier, row[k])])
  BY <1>1, <1>3 DEF Save
<1> QED BY <1>6, <1>8, <1>9, <1>10

\* A row is rewritten for a delivery or a request that selected it.
LEMMA RewriteKeeps ==
  ASSUME IInv, NEW k \in Rows, row[k].user # None, NEW r \in Stored, UpdateOne(k, r),
         r.user = row[k].user, r.sub \in {row[k].sub, None}
  PROVE  RowsKept
<1>1. Rewritten(k, r)
  BY DEF Rewritten
<1> QED BY <1>1, UpdateOneKeeps

LEMMA DeliveryWrites ==
  ASSUME IInv, NEW w \in Workers, Updated(w) \/ Deleted(w) \/ SetStatus(w)
  PROVE  RowsKept
<1>1. PICK d : d = worker[w]
  OBVIOUS
<1>2. d \in Deliveries /\ DeliveryOK(d) /\ Reported(d.event, settled) /\ d.pc \in {"write", "status"}
  BY <1>1, Facts DEF Updated, Deleted, SetStatus, Paying, At
<1>3. PICK k, r : k = d.row /\ r = row[d.row]
  OBVIOUS
<1>4. k \in Rows /\ r \in Stored /\ r = row[k] /\ row[k].user # None /\ d.event \in Events
  BY <1>2, <1>3, Facts DEF DeliveryOK, Deliveries
<1>5. CASE Updated(w)
  <2>1. PICK e : e = d.event
    OBVIOUS
  <2>2. PICK n : n = [r EXCEPT !.tier = e.tier, !.status = mapStripeStatus(e.status), !.ending = e.ending]
    OBVIOUS
  <2>3. e.tier \in Tiers /\ e.ending \in BOOLEAN
    BY <1>4, <2>1 DEF Events
  <2>4. mapStripeStatus(e.status) \in Statuses
    BY DEF mapStripeStatus, Statuses
  <2>5. n \in Stored /\ n.user = r.user /\ n.sub = r.sub
    BY <1>4, <2>2, <2>3, <2>4 DEF Stored
  <2>6. UpdateOne(k, n)
    BY <1>1, <1>3, <1>5, <2>1, <2>2 DEF Updated
  <2> QED BY <1>4, <2>5, <2>6, RewriteKeeps
<1>6. CASE Deleted(w)
  <2>1. PICK n : n = [r EXCEPT !.tier = "free", !.status = "cancelled", !.sub = None]
    OBVIOUS
  <2>2. n \in Stored /\ n.user = r.user /\ n.sub = None
    BY <1>4, <2>1 DEF Stored, Statuses
  <2>3. UpdateOne(k, n)
    BY <1>1, <1>3, <1>6, <2>1 DEF Deleted
  <2> QED BY <1>4, <2>2, <2>3, RewriteKeeps
<1>7. CASE SetStatus(w)
  <2>1. PICK n : n = [r EXCEPT !.status = IF d.event.kind = "succeeded" THEN "active" ELSE "past_due"]
    OBVIOUS
  <2>2. n \in Stored /\ n.user = r.user /\ n.sub = r.sub
    BY <1>4, <2>1 DEF Stored, Statuses
  <2>3. UpdateOne(k, n)
    BY <1>1, <1>3, <1>7, <2>1 DEF SetStatus
  <2> QED BY <1>4, <2>2, <2>3, RewriteKeeps
<1> QED BY <1>5, <1>6, <1>7

LEMMA RequestWrites ==
  ASSUME IInv, NEW t \in Tabs, WriteRow(t) \/ Expire(t) \/ Grant(t)
  PROVE  RowsKept
<1>1. PICK q : q = tab[t]
  OBVIOUS
<1>2. q \in Requests /\ RequestOK(q)
  BY <1>1, Facts DEF WriteRow, Expire, Grant, Doing
<1>3. PICK k, r : k = q.row /\ r = row[q.row]
  OBVIOUS
<1>4. k # None => k \in Rows /\ r \in Stored /\ r = row[k] /\ row[k].user # None
  BY <1>2, <1>3, Facts DEF RequestOK, Requests
<1>5. CASE WriteRow(t)
  <2>1. k # None /\ q.pc \in {"cancelled", "ending", "renewing"}
    BY <1>1, <1>2, <1>3, <1>5 DEF WriteRow, Doing, RequestOK
  <2>2. PICK n : n = CASE q.pc = "cancelled" -> [r EXCEPT !.status = "cancelled", !.ending = FALSE]
                       [] q.pc = "ending" -> [r EXCEPT !.ending = TRUE]
                       [] q.pc = "renewing" -> [r EXCEPT !.ending = FALSE]
    OBVIOUS
  <2>3. n \in Stored /\ n.user = r.user /\ n.sub = r.sub
    BY <1>4, <2>1, <2>2 DEF Stored, Statuses
  <2>4. UpdateOne(k, n)
    BY <1>1, <1>3, <1>5, <2>2 DEF WriteRow
  <2> QED BY <1>4, <2>1, <2>3, <2>4, RewriteKeeps
<1>6. CASE Expire(t)
  <2>1. PICK new : new = [x \in RowsOf(q.user) |-> [row[x] EXCEPT !.tier = "free", !.status = "cancelled", !.override = "none"]]
    OBVIOUS
  <2>2. Update(q.user, new) /\ DOMAIN new = RowsOf(q.user) /\ RowsOf(q.user) \subseteq Rows /\ q.user # None
    BY <1>1, <1>2, <1>6, <2>1 DEF Expire, Doing, RequestOK, RowsOf
  <2>3. ASSUME NEW x \in DOMAIN new PROVE Rewritten(x, new[x]) /\ row[x].user # None
    <3>1. x \in Rows /\ row[x] \in Stored /\ row[x].user = q.user
      BY <2>2, <2>3, Facts DEF RowsOf
    <3>2. PICK o, n : o = row[x] /\ n = [o EXCEPT !.tier = "free", !.status = "cancelled", !.override = "none"]
      OBVIOUS
    <3>3. n \in Stored /\ n.user = o.user /\ n.sub = o.sub /\ new[x] = n
      BY <2>1, <2>2, <2>3, <3>1, <3>2 DEF Stored, Statuses
    <3> QED BY <2>2, <3>1, <3>2, <3>3 DEF Rewritten
  <2> QED BY <2>2, <2>3, UpdateKeeps
<1>7. CASE Grant(t)
  <2>1. q.user \in Users /\ q.pc = "override"
    BY <1>1, <1>2, <1>7 DEF Grant, Doing, RequestOK, Requests
  <2>2. PICK g \in setting.grants, o \in {"dated", "forever"} :
          LET New(x) == [x EXCEPT !.tier = g[1], !.status = g[2], !.override = o]
          IN IF q.row = None THEN Insert(q.user, New([NoRow EXCEPT !.user = q.user]))
             ELSE UpdateOne(q.row, New(row[q.row]))
    BY <1>1, <1>7 DEF Grant
  <2>0. g[1] \in Tiers \cup {"free"} /\ g[2] \in Statuses
    BY <2>2, Facts, SettingsAssumption DEF Grants
  <2>3. CASE k = None
    <3>1. PICK n : n = [[NoRow EXCEPT !.user = q.user] EXCEPT !.tier = g[1], !.status = g[2], !.override = o]
      OBVIOUS
    <3>2. n \in Stored /\ n.user = q.user /\ n.sub = None
      BY <2>0, <2>1, <3>1 DEF NoRow, Stored
    <3>3. Insert(q.user, n)
      BY <1>3, <2>2, <2>3, <3>1
    <3> QED BY <2>1, <3>2, <3>3, InsertKeeps
  <2>4. CASE k # None
    <3>1. PICK n : n = [r EXCEPT !.tier = g[1], !.status = g[2], !.override = o]
      OBVIOUS
    <3>2. n \in Stored /\ n.user = r.user /\ n.sub = r.sub
      BY <1>4, <2>0, <2>4, <3>1 DEF Stored
    <3>3. UpdateOne(k, n)
      BY <1>3, <2>2, <2>4, <3>1
    <3> QED BY <1>4, <2>4, <3>2, <3>3, RewriteKeeps
  <2> QED BY <2>3, <2>4
<1> QED BY <1>5, <1>6, <1>7

LEMMA OverrideEndsKeeps ==
  ASSUME IInv, NEW k \in Rows, OverrideEnds(k)
  PROVE  RowsKept
<1>1. PICK r, n : r = row[k] /\ n = [r EXCEPT !.override = "past"]
  OBVIOUS
<1>2. r \in Stored /\ row \in [Rows -> Stored] /\ latest \subseteq Rows /\ \A x \in latest : row[x].user # None
  BY <1>1, Facts
<1>3. n \in Stored /\ n.user = r.user /\ n.sub = r.sub
  BY <1>1, <1>2 DEF Stored
<1>4. row' = [row EXCEPT ![k] = n] /\ latest' = latest
  BY <1>1, <1>2 DEF OverrideEnds
<1>5. row' \in [Rows -> Stored] /\ row'[k] = n /\ \A x \in Rows \ {k} : row'[x] = row[x]
  BY <1>2, <1>3, <1>4
<1>6. \A x \in Rows : Rewritten(x, row'[x])
  BY <1>1, <1>3, <1>5, SameRow DEF Rewritten
<1> QED BY <1>1, <1>2, <1>3, <1>4, <1>5, <1>6 DEF RowsKept

\* What the handlers of webhooks.ts write.
LEMMA HandlersTouch ==
  ASSUME NEW w \in Workers, Deliver(w) \/ Webhook(w) \/ HandlerFails(w)
  PROVE  /\ UNCHANGED <<setting, remote, tab>> /\ (Deliver(w) \/ UNCHANGED feed)
         /\ Save(w) \/ Updated(w) \/ Deleted(w) \/ SetStatus(w) \/ UNCHANGED <<row, latest>>
         /\ LinkCustomer(w) \/ UNCHANGED customer
         /\ Record(w) \/ UNCHANGED payment
         /\ CompleteGift(w) \/ MarkDonor(w) \/ CancelledGift(w) \/ UNCHANGED <<gift, donor>>
<1>1. CASE Deliver(w)
  BY <1>1 DEF Deliver, database
<1>2. CASE HandlerFails(w)
  BY <1>2 DEF HandlerFails, database
<1>3. CASE UNCHANGED database /\ Handler
  BY <1>3 DEF Handler, database
<1>4. CASE ResolveUser(w) \/ Retrieve(w) \/ FindExisting(w)
  <2>1. UNCHANGED database /\ Handler
    BY <1>4, Zenon DEF ResolveUser, Retrieve, FindExisting
  <2> QED BY <1>3, <2>1
<1>5. CASE FindBySub(w) \/ FindPayer(w) \/ FindRow(w)
  <2>1. UNCHANGED database /\ Handler
    BY <1>5, Zenon DEF FindBySub, FindPayer, FindRow
  <2> QED BY <1>3, <2>1
<1>6. CASE Save(w)
  BY <1>6 DEF Save, Handler
<1>7. CASE Updated(w) \/ Deleted(w) \/ SetStatus(w)
  BY <1>7 DEF Updated, Deleted, SetStatus, Handler
<1>8. CASE LinkCustomer(w) \/ Record(w)
  BY <1>8 DEF LinkCustomer, Record, Handler
<1>9. CASE CompleteGift(w) \/ MarkDonor(w) \/ CancelledGift(w)
  BY <1>9 DEF CompleteGift, MarkDonor, CancelledGift, Handler
<1> QED BY <1>1, <1>2, <1>4, <1>5, <1>6, <1>7, <1>8, <1>9 DEF Webhook

LEMMA RowSteps ==
  ASSUME IInv, Next
  PROVE  RowsKept
<1>1. CASE Billing
  <2>1. UNCHANGED <<row, latest>>
    BY <1>1 DEF Billing, Pay, Renew, Retry, ChangePlan, End, database, Turn
  <2> QED BY <2>1, RowsUnchanged
<1>2. CASE \E w \in Workers : Deliver(w) \/ Webhook(w) \/ HandlerFails(w)
  <2>1. PICK w \in Workers : Deliver(w) \/ Webhook(w) \/ HandlerFails(w)
    BY <1>2
  <2>2. CASE Save(w)
    BY <2>2, SaveKeeps
  <2>3. CASE Updated(w) \/ Deleted(w) \/ SetStatus(w)
    BY <2>3, DeliveryWrites
  <2>4. CASE ~Save(w) /\ ~(Updated(w) \/ Deleted(w) \/ SetStatus(w))
    <3>1. UNCHANGED <<row, latest>>
      BY <2>1, <2>4, HandlersTouch
    <3> QED BY <3>1, RowsUnchanged
  <2> QED BY <2>2, <2>3, <2>4
<1>3. CASE \E t \in Tabs : Ask(t) \/ Serve(t) \/ RequestFails(t)
  <2>1. PICK t \in Tabs : Ask(t) \/ Serve(t) \/ RequestFails(t)
    BY <1>3
  <2>2. CASE WriteRow(t) \/ Expire(t) \/ Grant(t)
    BY <2>2, RequestWrites
  <2>3. CASE Ask(t)
    <3>1. UNCHANGED <<row, latest>>
      BY <2>3 DEF Ask, Checkout, Cancel, Reactivate, Status, Override, Donate, CancelMonthly, database
    <3> QED BY <3>1, RowsUnchanged
  <2>4. CASE ~Ask(t) /\ ~(WriteRow(t) \/ Expire(t) \/ Grant(t))
    <3>1. UNCHANGED <<row, latest>>
      BY <2>1, <2>4 DEF Serve, RequestFails, CreateCustomer, SaveCustomer, OpenSession, TellStripe, OpenGift, StopGift, WriteGift, database
    <3> QED BY <3>1, RowsUnchanged
  <2> QED BY <2>2, <2>3, <2>4
<1>4. CASE Crash
  <2>1. UNCHANGED <<row, latest>>
    BY <1>4 DEF Crash, database
  <2> QED BY <2>1, RowsUnchanged
<1>5. CASE \E k \in Rows : OverrideEnds(k)
  BY <1>5, OverrideEndsKeeps
<1> QED BY <1>1, <1>2, <1>3, <1>4, <1>5 DEF Next

-----------------------------------------------------------------------------
(* Stripe.                                                                 *)

Whose(c, u) == c = None \/ <<c, u>> \in Holders
StripeKept ==
  /\ stripe' \in [Subs -> Charged] /\ invoiced' \in [Subs -> 0 .. MaxInvoices]
  /\ settled' \subseteq Invoices /\ settled \subseteq settled'
  /\ \A s \in Sales : stripe[s].status # "none" =>
       stripe'[s].status # "none" /\ stripe'[s].user = stripe[s].user
  /\ \A s \in Subs : stripe'[s].status \in Begun => invoiced'[s] > 0
  /\ \A i \in settled' : i[1] \in Sales => stripe'[i[1]].status # "none"
  /\ \A s \in Subs : Whose(stripe'[s].cust, stripe'[s].user)

LEMMA StripeFacts ==
  ASSUME IInv, NEW s \in Subs
  PROVE  /\ stripe[s] \in Charged /\ invoiced[s] \in 0 .. MaxInvoices
         /\ Whose(stripe[s].cust, stripe[s].user)
         /\ stripe[s].status \in Begun => invoiced[s] > 0
         /\ \A i \in settled : i[1] \in Sales => stripe[i[1]].status # "none"
BY Facts DEF Whose, Holders, IInv, EventsAreTrue

LEMMA StripeUnchanged ==
  ASSUME IInv, UNCHANGED <<stripe, settled, invoiced>>
  PROVE  StripeKept
<1>1. \A s \in Subs : /\ Whose(stripe[s].cust, stripe[s].user)
                      /\ stripe[s].status \in Begun => invoiced[s] > 0
  BY StripeFacts
<1>2. \A i \in settled : i[1] \in Sales => stripe[i[1]].status # "none"
  BY DEF IInv, EventsAreTrue
<1> QED BY <1>1, <1>2, Facts DEF StripeKept

\* One subscription changes, with its invoices.
LEMMA ChangeKeeps ==
  ASSUME IInv, NEW s \in Subs, NEW r \in Charged, Change(s, r), NEW n \in 0 .. MaxInvoices,
         invoiced' = [invoiced EXCEPT ![s] = n], settled' = settled \/ (n > 0 /\ settled' = settled \cup {<<s, n>>}),
         r.status # "none", r.status \in Begun => n > 0, Whose(r.cust, r.user),
         s \in Sales /\ stripe[s].status # "none" => r.user = stripe[s].user
  PROVE  StripeKept
<1>1. /\ stripe' = [stripe EXCEPT ![s] = r] /\ stripe \in [Subs -> Charged] /\ invoiced \in [Subs -> 0 .. MaxInvoices]
      /\ settled \subseteq Invoices
  BY Facts DEF Change
<1>2. /\ stripe' \in [Subs -> Charged] /\ stripe'[s] = r /\ invoiced'[s] = n
      /\ invoiced' \in [Subs -> 0 .. MaxInvoices]
      /\ \A x \in Subs \ {s} : stripe'[x] = stripe[x] /\ invoiced'[x] = invoiced[x]
  BY <1>1
<1>3. /\ settled' \subseteq Invoices /\ settled \subseteq settled'
      /\ \A i \in settled' : i \in settled \/ i[1] = s
  BY <1>1, BoundsAssumption DEF Invoices
<1>4. \A x \in Subs : stripe'[x].status \in Begun => invoiced'[x] > 0
  BY <1>2, StripeFacts
<1>5. \A x \in Subs : Whose(stripe'[x].cust, stripe'[x].user)
  BY <1>2, StripeFacts
<1>6. Sales \subseteq Subs
  BY DEF Subs
<1>7. \A i \in settled' : i[1] \in Sales => stripe'[i[1]].status # "none"
  BY <1>2, <1>3, <1>6, StripeFacts
<1>8. \A x \in Sales : stripe[x].status # "none" => stripe'[x].status # "none" /\ stripe'[x].user = stripe[x].user
  BY <1>2, <1>6
<1> QED BY <1>2, <1>3, <1>4, <1>5, <1>7, <1>8 DEF StripeKept

\* The customer and the subscriber stay.
LEMMA SameOwner ==
  ASSUME IInv, NEW s \in Subs, NEW r \in Charged, Change(s, r), UNCHANGED <<invoiced, settled>>,
         r.user = stripe[s].user, r.cust = stripe[s].cust, stripe[s].status # "none",
         r.status # "none", r.status \in Begun => stripe[s].status \in Begun
  PROVE  StripeKept
<1>1. PICK n : n = invoiced[s]
  OBVIOUS
<1>2. n \in 0 .. MaxInvoices /\ invoiced' = [invoiced EXCEPT ![s] = n] /\ (r.status \in Begun => n > 0)
  BY <1>1, StripeFacts, Facts
<1>3. Whose(r.cust, r.user)
  BY StripeFacts
<1> QED BY <1>2, <1>3, ChangeKeeps

LEMMA BillingKeeps ==
  ASSUME IInv, NEW s \in Subs, Pay(s) \/ Renew(s, TRUE) \/ Renew(s, FALSE) \/ Retry(s) \/ ChangePlan(s) \/ Turn(s) \/ End(s)
  PROVE  StripeKept
<1>1. PICK r, n : r = stripe[s] /\ n = invoiced[s]
  OBVIOUS
<1>2. /\ r \in Charged /\ n \in 0 .. MaxInvoices /\ Whose(r.cust, r.user)
      /\ invoiced \in [Subs -> 0 .. MaxInvoices] /\ stripe \in [Subs -> Charged]
      /\ r.status \in Begun => n > 0
  BY <1>1, StripeFacts, Facts
<1>3. CASE Pay(s)
  <2>1. PICK m \in {"session", "subscription", "none"} : Change(s, [r EXCEPT !.status = "active", !.meta = m])
    BY <1>1, <1>3 DEF Pay
  <2>2. PICK q : q = [r EXCEPT !.status = "active", !.meta = m]
    OBVIOUS
  <2>3. q \in Charged /\ q.user = r.user /\ q.cust = r.cust /\ q.status = "active"
    BY <1>2, <2>2 DEF Charged, Known, Plain
  <2>4. 1 \in 0 .. MaxInvoices
    BY BoundsAssumption
  <2>5. invoiced' = [invoiced EXCEPT ![s] = 1] /\ settled' = settled \cup {<<s, 1>>} /\ r.status # "none"
    BY <1>1, <1>3 DEF Pay
  <2>6. Change(s, q)
    BY <2>1, <2>2
  <2>7. Whose(q.cust, q.user) /\ q.user = stripe[s].user /\ q.status # "none" /\ 1 > 0
    BY <1>1, <1>2, <2>3
  <2>8. PICK one : one = 1
    OBVIOUS
  <2>9. /\ one \in 0 .. MaxInvoices /\ invoiced' = [invoiced EXCEPT ![s] = one] /\ settled' = settled \cup {<<s, one>>}
        /\ one > 0
    BY <2>4, <2>5, <2>8
  <2> QED BY <2>3, <2>6, <2>7, <2>9, ChangeKeeps
<1>4. CASE Renew(s, TRUE) \/ Renew(s, FALSE)
  <2>1. /\ r.status = "active" /\ n < setting.invoices /\ invoiced' = [invoiced EXCEPT ![s] = n + 1]
        /\ \/ settled' = settled \cup {<<s, n + 1>>} /\ stripe' = stripe
           \/ Change(s, [r EXCEPT !.status = "past_due"]) /\ UNCHANGED settled
    BY <1>1, <1>2, <1>4 DEF Renew
  <2>2. setting.invoices \in 0 .. MaxInvoices
    BY Facts, SettingsAssumption
  <2>3. n + 1 \in 0 .. MaxInvoices /\ n + 1 > 0
    BY <1>2, <2>1, <2>2, BoundsAssumption
  <2>4. CASE settled' = settled \cup {<<s, n + 1>>} /\ stripe' = stripe
    <3>1. Change(s, r)
      BY <1>1, <1>2, <2>4 DEF Change
    <3> QED BY <1>1, <1>2, <2>1, <2>3, <2>4, <3>1, ChangeKeeps
  <2>5. CASE Change(s, [r EXCEPT !.status = "past_due"]) /\ UNCHANGED settled
    <3>1. PICK q : q = [r EXCEPT !.status = "past_due"]
      OBVIOUS
    <3>2. q \in Charged /\ q.user = r.user /\ q.cust = r.cust /\ q.status = "past_due"
      BY <1>2, <3>1 DEF Charged, Known, Plain
    <3> QED BY <1>1, <1>2, <2>1, <2>3, <2>5, <3>1, <3>2, ChangeKeeps
  <2> QED BY <2>1, <2>4, <2>5
<1>5. CASE Retry(s)
  <2>1. PICK q : q = [r EXCEPT !.status = "active"]
    OBVIOUS
  <2>2. q \in Charged /\ q.user = r.user /\ q.cust = r.cust /\ q.status = "active"
    BY <1>2, <2>1 DEF Charged, Known, Plain
  <2>3. Change(s, q) /\ settled' = settled \cup {<<s, n>>} /\ invoiced' = [invoiced EXCEPT ![s] = n]
        /\ r.status \in Begun
    BY <1>1, <1>2, <1>5, <2>1 DEF Retry, Begun
  <2> QED BY <1>1, <1>2, <2>2, <2>3, ChangeKeeps
<1>6. CASE ChangePlan(s)
  <2>1. PICK q : q = [r EXCEPT !.tier = "expert"]
    OBVIOUS
  <2>2. q \in Charged /\ q.user = r.user /\ q.cust = r.cust /\ q.status = r.status
    BY <1>2, <2>1 DEF Charged, Tiers
  <2>3. Change(s, q) /\ UNCHANGED <<invoiced, settled>> /\ r.status = "active"
    BY <1>1, <1>6, <2>1 DEF ChangePlan
  <2> QED BY <1>1, <2>2, <2>3, SameOwner
<1>7. CASE End(s)
  <2>1. PICK q : q = [r EXCEPT !.status = "canceled"]
    OBVIOUS
  <2>2. q \in Charged /\ q.user = r.user /\ q.cust = r.cust /\ q.status = "canceled"
    BY <1>2, <2>1 DEF Charged, Known, Plain
  <2>3. Change(s, q) /\ UNCHANGED <<invoiced, settled>> /\ r.status # "none"
    BY <1>1, <1>7, <2>1 DEF End, Ended, Live, LiveStatuses
  <2> QED BY <1>1, <2>2, <2>3, SameOwner DEF Begun
<1>8. CASE Turn(s)
  <2>1. PICK x \in StatusTurns : r.status = x[1] /\ Change(s, [r EXCEPT !.status = x[2]])
    BY <1>1, <1>8 DEF Turn
  <2>2. PICK q : q = [r EXCEPT !.status = x[2]]
    OBVIOUS
  <2>3. x[2] \in Known /\ x[2] # "none" /\ x[1] # "none" /\ (x[2] \in Begun => x[1] \in Begun)
    BY <1>8, <2>1 DEF Turn, StatusTurns, Known, Plain, Turned, Begun
  <2>4. q \in Charged /\ q.user = r.user /\ q.cust = r.cust /\ q.status = x[2]
    BY <1>2, <2>2, <2>3 DEF Charged
  <2>5. Change(s, q) /\ UNCHANGED <<invoiced, settled>>
    BY <1>8, <2>1, <2>2 DEF Turn
  <2> QED BY <1>1, <1>2, <2>1, <2>3, <2>4, <2>5, SameOwner
<1> QED BY <1>3, <1>4, <1>5, <1>6, <1>7, <1>8

LEMMA RequestKeepsStripe ==
  ASSUME IInv, NEW t \in Tabs, OpenSession(t) \/ TellStripe(t) \/ OpenGift(t) \/ StopGift(t)
  PROVE  StripeKept
<1>1. PICK q : q = tab[t]
  OBVIOUS
<1>2. q \in Requests /\ RequestOK(q) /\ tab[t] # Idle
  BY <1>1, Facts DEF OpenSession, TellStripe, OpenGift, StopGift, Doing
<1>3. Whose(q.cust, q.user) /\ q.cust \in Customers \cup {None} /\ q.user \in Users \cup {None}
  BY <1>1, <1>2 DEF Whose, Holders, Requests
<1>4. PICK r : r = [NoSub EXCEPT !.status = "open", !.user = q.user, !.cust = q.cust]
  OBVIOUS
<1>5. r \in Charged /\ r.status = "open" /\ r.user = q.user /\ r.cust = q.cust
  BY <1>3, <1>4 DEF NoSub, Charged, Tiers, Known, Plain
<1>6. ASSUME NEW s \in Subs, Change(s, r), UNCHANGED <<settled, invoiced>>, s \in Sales => stripe[s] = NoSub
      PROVE  StripeKept
  <2>1. PICK n : n = invoiced[s]
    OBVIOUS
  <2>2. n \in 0 .. MaxInvoices /\ invoiced' = [invoiced EXCEPT ![s] = n]
    BY <1>6, <2>1, Facts
  <2>3. s \in Sales => stripe[s].status = "none"
    BY <1>6 DEF NoSub
  <2> QED BY <1>3, <1>5, <1>6, <2>2, <2>3, ChangeKeeps DEF Begun
<1>7. CASE OpenSession(t)
  <2>1. PICK s \in Sales : stripe[s] = NoSub /\ Change(s, r)
    BY <1>1, <1>4, <1>7 DEF OpenSession
  <2> QED BY <1>6, <1>7, <2>1 DEF OpenSession, Subs
<1>8. CASE OpenGift(t)
  <2>1. q.sub \in Gifts /\ Change(q.sub, r) /\ UNCHANGED <<settled, invoiced>>
    BY <1>1, <1>2, <1>4, <1>8 DEF OpenGift, Doing, RequestOK
  <2> QED BY <1>6, <2>1, SubsAssumption DEF Subs
<1>9. ASSUME NEW s \in Subs, Live(s), UNCHANGED <<settled, invoiced>>,
             Ended(s) \/ \E b \in BOOLEAN : Change(s, [stripe[s] EXCEPT !.ending = b])
      PROVE  StripeKept
  <2>1. PICK o : o = stripe[s]
    OBVIOUS
  <2>2. o \in Charged /\ o.status # "none"
    BY <1>9, <2>1, Facts DEF Live, LiveStatuses
  <2>3. CASE Ended(s)
    <3>1. PICK n : n = [o EXCEPT !.status = "canceled"]
      OBVIOUS
    <3>2. n \in Charged /\ n.user = o.user /\ n.cust = o.cust /\ n.status = "canceled"
      BY <2>2, <3>1 DEF Charged, Known, Plain
    <3>3. Change(s, n)
      BY <2>1, <2>3, <3>1 DEF Ended
    <3> QED BY <1>9, <2>1, <2>2, <3>2, <3>3, SameOwner DEF Begun
  <2>4. CASE \E b \in BOOLEAN : Change(s, [stripe[s] EXCEPT !.ending = b])
    <3>0. PICK b \in BOOLEAN : Change(s, [o EXCEPT !.ending = b])
      BY <2>1, <2>4
    <3>1. PICK n : n = [o EXCEPT !.ending = b] /\ Change(s, n)
      BY <3>0
    <3>2. n \in Charged /\ n.user = o.user /\ n.cust = o.cust /\ n.status = o.status
      BY <2>2, <3>1 DEF Charged
    <3> QED BY <1>9, <2>1, <2>2, <3>1, <3>2, SameOwner
  <2> QED BY <1>9, <2>3, <2>4
<1>10. CASE TellStripe(t)
  <2>1. q.sub \in Subs
    BY <1>1, <1>2, <1>10 DEF TellStripe, Doing, RequestOK, Subs
  <2>2. CASE UNCHANGED stripe
    BY <1>10, <2>2, StripeUnchanged DEF TellStripe
  <2>3. CASE ~UNCHANGED stripe
    <3>1. /\ Live(q.sub)
          /\ Ended(q.sub) \/ Change(q.sub, [stripe[q.sub] EXCEPT !.ending = q.pc = "cancelLater"])
          /\ UNCHANGED <<settled, invoiced>>
      BY <1>1, <1>10, <2>3 DEF TellStripe
    <3>2. (q.pc = "cancelLater") \in BOOLEAN
      OBVIOUS
    <3>3. Ended(q.sub) \/ \E b \in BOOLEAN : Change(q.sub, [stripe[q.sub] EXCEPT !.ending = b])
      BY <3>1, <3>2
    <3> QED BY <1>9, <2>1, <3>1, <3>3
  <2> QED BY <2>2, <2>3
<1>11. CASE StopGift(t)
  <2>1. q.sub \in Subs
    BY <1>1, <1>2, <1>11 DEF StopGift, Doing, RequestOK, Subs
  <2>2. CASE UNCHANGED stripe
    BY <1>11, <2>2, StripeUnchanged DEF StopGift
  <2>3. CASE ~UNCHANGED stripe
    <3>1. Live(q.sub) /\ Ended(q.sub) /\ UNCHANGED <<settled, invoiced>>
      BY <1>1, <1>11, <2>3 DEF StopGift
    <3> QED BY <1>9, <2>1, <3>1
  <2> QED BY <2>2, <2>3
<1> QED BY <1>7, <1>8, <1>10, <1>11

LEMMA StripeSteps ==
  ASSUME IInv, Next
  PROVE  StripeKept
<1>1. CASE Billing
  <2>1. setting.subs \subseteq Subs
    BY Facts, SettingsAssumption DEF Subs
  <2> QED BY <1>1, <2>1, BillingKeeps DEF Billing
<1>2. CASE \E w \in Workers : Deliver(w) \/ Webhook(w) \/ HandlerFails(w)
  <2>1. UNCHANGED <<stripe, settled, invoiced>>
    BY <1>2, HandlersTouch DEF remote
  <2> QED BY <2>1, StripeUnchanged
<1>3. CASE \E t \in Tabs : Ask(t) \/ Serve(t) \/ RequestFails(t)
  <2>1. PICK t \in Tabs : Ask(t) \/ Serve(t) \/ RequestFails(t)
    BY <1>3
  <2>2. CASE OpenSession(t) \/ TellStripe(t) \/ OpenGift(t) \/ StopGift(t)
    BY <2>2, RequestKeepsStripe
  <2>3. CASE Ask(t)
    <3>1. UNCHANGED <<stripe, settled, invoiced>>
      BY <2>3 DEF Ask, Checkout, Cancel, Reactivate, Status, Override, Donate, CancelMonthly, remote
    <3> QED BY <3>1, StripeUnchanged
  <2>4. CASE ~Ask(t) /\ ~(OpenSession(t) \/ TellStripe(t) \/ OpenGift(t) \/ StopGift(t))
    <3>1. UNCHANGED <<stripe, settled, invoiced>>
      BY <2>1, <2>4 DEF Serve, RequestFails, CreateCustomer, SaveCustomer, WriteRow, Expire, Grant, WriteGift, remote
    <3> QED BY <3>1, StripeUnchanged
  <2> QED BY <2>2, <2>3, <2>4
<1>4. CASE Crash \/ \E k \in Rows : OverrideEnds(k)
  <2>1. UNCHANGED <<stripe, settled, invoiced>>
    BY <1>4 DEF Crash, OverrideEnds, remote
  <2> QED BY <2>1, StripeUnchanged
<1> QED BY <1>1, <1>2, <1>3, <1>4 DEF Next

-----------------------------------------------------------------------------
(* The events.                                                             *)

FeedKept == feed' \in Seq(Events) /\ \A i \in DOMAIN feed' : Reported(feed'[i], settled')

LEMMA FeedFacts ==
  ASSUME IInv, StripeKept
  PROVE  /\ feed \in Seq(Events) /\ \A i \in DOMAIN feed : Reported(feed[i], settled')
         /\ \A w \in Workers : worker[w] # Idle => worker[w].event \in Events /\ Reported(worker[w].event, settled')
<1>1. settled \subseteq settled'
  BY DEF StripeKept
<1>2. \A e : Reported(e, settled) => Reported(e, settled')
  BY <1>1 DEF Reported
<1>3. \A w \in Workers : worker[w] # Idle => worker[w].event \in Events
  BY Facts DEF Deliveries
<1> QED BY <1>2, <1>3, Facts DEF IInv, EventsAreTrue

LEMMA Joined ==
  ASSUME NEW older \in Seq(Events), NEW newer \in Seq(Events), feed' = older \o newer,
         \A i \in DOMAIN older : Reported(older[i], settled'), \A i \in DOMAIN newer : Reported(newer[i], settled')
  PROVE  FeedKept
<1>1. /\ feed' \in Seq(Events) /\ Len(feed') = Len(older) + Len(newer)
      /\ \A i \in 1 .. Len(older) + Len(newer) : feed'[i] = IF i <= Len(older) THEN older[i] ELSE newer[i - Len(older)]
  BY ConcatProperties
<1>2. /\ DOMAIN older = 1 .. Len(older) /\ DOMAIN newer = 1 .. Len(newer) /\ Len(older) \in Nat /\ Len(newer) \in Nat
      /\ DOMAIN feed' = 1 .. Len(older) + Len(newer)
  BY <1>1, LenProperties
<1>3. ASSUME NEW i \in DOMAIN feed' PROVE Reported(feed'[i], settled')
  <2>1. CASE i <= Len(older)
    BY <1>1, <1>2, <1>3, <2>1
  <2>2. CASE ~(i <= Len(older))
    <3>1. i - Len(older) \in DOMAIN newer /\ feed'[i] = newer[i - Len(older)]
      BY <1>1, <1>2, <1>3, <2>2
    <3> QED BY <3>1
  <2> QED BY <2>1, <2>2
<1> QED BY <1>1, <1>3 DEF FeedKept

LEMMA EventsOf ==
  ASSUME StripeKept, NEW s \in Subs, NEW kind \in Kinds, NEW n \in 0 .. MaxInvoices, NEW e, e = Event(kind, s, n)
  PROVE  /\ e \in Events /\ e.kind = kind /\ e.sub = s /\ e.n = n /\ e.status = stripe'[s].status
<1>1. stripe'[s] \in Charged
  BY DEF StripeKept
<1> QED BY <1>1 DEF Event, Events, Charged, Known, Plain

LEMMA EmitsOne ==
  ASSUME IInv, StripeKept, NEW e \in Events, Emit(<<e>>), Reported(e, settled')
  PROVE  FeedKept
<1>1. PICK new : new = <<e>>
  OBVIOUS
<1>2. new \in Seq(Events) /\ \A i \in DOMAIN new : Reported(new[i], settled')
  BY <1>1
<1>3. feed' = feed \o new
  BY <1>1 DEF Emit
<1> QED BY <1>2, <1>3, FeedFacts, Joined

LEMMA EmitsTwo ==
  ASSUME IInv, StripeKept, NEW e \in Events, NEW f \in Events, Emit(<<e, f>>), Reported(e, settled'), Reported(f, settled')
  PROVE  FeedKept
<1>1. PICK new : new = <<e, f>>
  OBVIOUS
<1>2. new \in Seq(Events) /\ \A i \in DOMAIN new : Reported(new[i], settled')
  BY <1>1
<1>3. feed' = feed \o new
  BY <1>1 DEF Emit
<1> QED BY <1>2, <1>3, FeedFacts, Joined

LEMMA EndsTold ==
  ASSUME IInv, StripeKept, NEW s \in Subs, Ended(s)
  PROVE  FeedKept
<1>1. PICK e : e = Event("deleted", s, 0)
  OBVIOUS
<1>2. "deleted" \in Kinds /\ 0 \in 0 .. MaxInvoices
  BY BoundsAssumption DEF Kinds
<1>3. e \in Events /\ e.kind = "deleted"
  BY <1>1, <1>2, EventsOf
<1>4. Emit(<<e>>) /\ Reported(e, settled')
  BY <1>1, <1>3 DEF Ended, Reported
<1> QED BY <1>3, <1>4, EmitsOne

LEMMA UpdateTold ==
  ASSUME IInv, StripeKept, NEW s \in Subs, Emit(<<Event("updated", s, 0)>>)
  PROVE  FeedKept
<1>1. PICK e : e = Event("updated", s, 0)
  OBVIOUS
<1>2. "updated" \in Kinds /\ 0 \in 0 .. MaxInvoices
  BY BoundsAssumption DEF Kinds
<1>3. e \in Events /\ e.kind = "updated" /\ e.status = stripe'[s].status
  BY <1>1, <1>2, EventsOf
<1>4. Emit(<<e>>) /\ Reported(e, settled')
  BY <1>1, <1>3 DEF Reported
<1> QED BY <1>3, <1>4, EmitsOne

LEMMA BillingTold ==
  ASSUME IInv, StripeKept, NEW s \in Subs,
         Pay(s) \/ Renew(s, TRUE) \/ Renew(s, FALSE) \/ Retry(s) \/ ChangePlan(s) \/ Turn(s) \/ End(s)
  PROVE  FeedKept
<1>0. /\ Kinds = {"checkout", "succeeded", "failed", "updated", "deleted"}
      /\ stripe \in [Subs -> Charged] /\ invoiced \in [Subs -> 0 .. MaxInvoices]
  BY Facts DEF Kinds
<1>1. CASE Pay(s)
  <2>1. PICK e, f : e = Event("checkout", s, 1) /\ f = Event("succeeded", s, 1)
    OBVIOUS
  <2>2. Emit(<<e, f>>) /\ <<s, 1>> \in settled' /\ 1 \in 0 .. MaxInvoices
    <3>1. 1 \in 0 .. MaxInvoices
      BY BoundsAssumption
    <3>2. settled' = settled \cup {<<s, 1>>}
      BY <1>1 DEF Pay
    <3>3. Emit(<<e, f>>)
      BY <1>1, <2>1 DEF Pay
    <3> QED BY <3>1, <3>2, <3>3
  <2>3. e \in Events /\ e.kind = "checkout" /\ e.sub = s /\ e.n = 1
    BY <1>0, <2>1, <2>2, EventsOf
  <2>4. f \in Events /\ f.kind = "succeeded" /\ f.sub = s /\ f.n = 1
    BY <1>0, <2>1, <2>2, EventsOf
  <2>5. Reported(e, settled') /\ Reported(f, settled')
    BY <2>2, <2>3, <2>4 DEF Reported
  <2> QED BY <2>2, <2>3, <2>4, <2>5, EmitsTwo
<1>2. CASE Renew(s, TRUE) \/ Renew(s, FALSE)
  <2>0. PICK n : n = invoiced[s] + 1
    OBVIOUS
  <2>1. n \in 0 .. MaxInvoices /\ n > 0
    <3>1. invoiced'[s] = n /\ invoiced[s] \in 0 .. MaxInvoices
      BY <1>0, <1>2, <2>0 DEF Renew
    <3>2. n \in 0 .. MaxInvoices
      BY <3>1 DEF StripeKept
    <3> QED BY <2>0, <3>1, <3>2, BoundsAssumption
  <2>2. CASE settled' = settled \cup {<<s, n>>} /\ Emit(<<Event("succeeded", s, n)>>)
    <3>1. PICK e : e = Event("succeeded", s, n)
      OBVIOUS
    <3>2. e \in Events /\ e.kind = "succeeded" /\ e.sub = s /\ e.n = n
      BY <1>0, <2>1, <3>1, EventsOf
    <3>3. Emit(<<e>>) /\ Reported(e, settled')
      BY <2>2, <3>1, <3>2 DEF Reported
    <3> QED BY <3>2, <3>3, EmitsOne
  <2>3. CASE /\ Change(s, [stripe[s] EXCEPT !.status = "past_due"])
             /\ Emit(<<Event("failed", s, n), Event("updated", s, n)>>)
    <3>1. PICK e, f : e = Event("failed", s, n) /\ f = Event("updated", s, n)
      OBVIOUS
    <3>2. stripe'[s].status = "past_due"
      <4>1. PICK o, p : o = stripe[s] /\ p = [o EXCEPT !.status = "past_due"]
        OBVIOUS
      <4>2. p.status = "past_due" /\ stripe'[s] = p
        BY <1>0, <2>3, <4>1 DEF Charged, Change
      <4> QED BY <4>2
    <3>3. e \in Events /\ e.kind = "failed" /\ e.n = n
      BY <1>0, <2>1, <3>1, EventsOf
    <3>4. f \in Events /\ f.kind = "updated" /\ f.status = "past_due"
      BY <1>0, <2>1, <3>1, <3>2, EventsOf
    <3>5. Emit(<<e, f>>) /\ Reported(e, settled') /\ Reported(f, settled')
      BY <2>1, <2>3, <3>1, <3>3, <3>4 DEF Reported
    <3> QED BY <3>3, <3>4, <3>5, EmitsTwo
  <2> QED BY <1>2, <2>0, <2>2, <2>3 DEF Renew
<1>3. CASE Retry(s)
  <2>0. PICK n : n = invoiced[s]
    OBVIOUS
  <2>1. PICK e, f : e = Event("succeeded", s, n) /\ f = Event("updated", s, n)
    OBVIOUS
  <2>2. Emit(<<e, f>>) /\ <<s, n>> \in settled' /\ n \in 0 .. MaxInvoices
    BY <1>0, <1>3, <2>0, <2>1 DEF Retry
  <2>3. stripe'[s].status = "active"
    <3>1. PICK o, p : o = stripe[s] /\ p = [o EXCEPT !.status = "active"]
      OBVIOUS
    <3>2. p.status = "active" /\ stripe'[s] = p
      BY <1>0, <1>3, <3>1 DEF Charged, Change, Retry
    <3> QED BY <3>2
  <2>4. e \in Events /\ e.kind = "succeeded" /\ e.sub = s /\ e.n = n
    BY <1>0, <2>1, <2>2, EventsOf
  <2>5. f \in Events /\ f.kind = "updated" /\ f.status = "active"
    BY <1>0, <2>1, <2>2, <2>3, EventsOf
  <2>6. Reported(e, settled') /\ Reported(f, settled')
    BY <2>2, <2>4, <2>5 DEF Reported
  <2> QED BY <2>2, <2>4, <2>5, <2>6, EmitsTwo
<1>4. CASE ChangePlan(s)
  BY <1>4, UpdateTold DEF ChangePlan
<1>5. CASE End(s)
  BY <1>5, EndsTold DEF End
<1>6. CASE Turn(s)
  BY <1>6, UpdateTold DEF Turn
<1> QED BY <1>1, <1>2, <1>3, <1>4, <1>5, <1>6

LEMMA FeedUnchanged ==
  ASSUME IInv, StripeKept, UNCHANGED feed
  PROVE  FeedKept
BY FeedFacts DEF FeedKept

LEMMA RequestTold ==
  ASSUME IInv, StripeKept, NEW t \in Tabs, TellStripe(t) \/ StopGift(t)
  PROVE  FeedKept
<1>1. PICK q : q = tab[t]
  OBVIOUS
<1>2. q \in Requests /\ RequestOK(q) /\ stripe \in [Subs -> Charged]
  BY <1>1, Facts DEF TellStripe, StopGift, Doing
<1>3. CASE UNCHANGED feed
  BY <1>3, FeedUnchanged
<1>4. CASE TellStripe(t) /\ ~UNCHANGED feed
  <2>1. /\ q.sub \in Subs /\ Live(q.sub)
        /\ \/ Ended(q.sub)
           \/ /\ Change(q.sub, [stripe[q.sub] EXCEPT !.ending = q.pc = "cancelLater"])
              /\ Emit(<<Event("updated", q.sub, 0)>>)
    BY <1>1, <1>2, <1>4 DEF TellStripe, Doing, RequestOK, Subs
  <2> QED BY <2>1, UpdateTold, EndsTold
<1>5. CASE StopGift(t) /\ ~UNCHANGED feed
  <2>1. q.sub \in Subs /\ Ended(q.sub)
    BY <1>1, <1>2, <1>5 DEF StopGift, Doing, RequestOK, Subs
  <2> QED BY <2>1, EndsTold
<1> QED BY <1>3, <1>4, <1>5

LEMMA Removed ==
  ASSUME NEW s \in Seq(Events), NEW i \in 1 .. Len(s)
  PROVE  /\ SubSeq(s, 1, i - 1) \in Seq(Events) /\ SubSeq(s, i + 1, Len(s)) \in Seq(Events)
         /\ \A j \in DOMAIN SubSeq(s, 1, i - 1) : \E k \in DOMAIN s : SubSeq(s, 1, i - 1)[j] = s[k]
         /\ \A j \in DOMAIN SubSeq(s, i + 1, Len(s)) : \E k \in DOMAIN s : SubSeq(s, i + 1, Len(s))[j] = s[k]
<1>0. Len(s) \in Nat /\ DOMAIN s = 1 .. Len(s)
  BY LenProperties
<1>1. ASSUME NEW a \in Nat, NEW b \in Nat, a >= 1, b <= Len(s)
      PROVE  /\ SubSeq(s, a, b) \in Seq(Events)
             /\ \A j \in DOMAIN SubSeq(s, a, b) : \E k \in DOMAIN s : SubSeq(s, a, b)[j] = s[k]
  <2>1. \A k \in a .. b : s[k] \in Events
    BY <1>0, <1>1, ElementOfSeq
  <2>2. /\ SubSeq(s, a, b) \in Seq(Events) /\ Len(SubSeq(s, a, b)) = IF a <= b THEN b - a + 1 ELSE 0
        /\ \A k \in 1 .. b - a + 1 : SubSeq(s, a, b)[k] = s[a + k - 1]
    BY <1>1, <2>1, SubSeqProperties
  <2>3. ASSUME NEW j \in DOMAIN SubSeq(s, a, b) PROVE \E k \in DOMAIN s : SubSeq(s, a, b)[j] = s[k]
    <3>1. j \in 1 .. b - a + 1 /\ a + j - 1 \in DOMAIN s
      BY <1>0, <1>1, <2>2, <2>3
    <3> QED BY <2>2, <3>1
  <2> QED BY <2>2, <2>3
<1>2. i - 1 \in Nat /\ i + 1 \in Nat /\ i - 1 <= Len(s)
  BY <1>0
<1> QED BY <1>0, <1>1, <1>2

LEMMA DeliverTold ==
  ASSUME IInv, StripeKept, NEW w \in Workers, Deliver(w)
  PROVE  FeedKept
<1>0. feed \in Seq(Events) /\ \A j \in DOMAIN feed : Reported(feed[j], settled')
  BY FeedFacts
<1>1. PICK i \in 1 .. (IF setting.calm THEN 1 ELSE Len(feed)) :
        /\ i <= Len(feed)
        /\ feed' = feed \/ feed' = SubSeq(feed, 1, i - 1) \o SubSeq(feed, i + 1, Len(feed))
  BY DEF Deliver
<1>2. CASE feed' = feed
  BY <1>2, FeedUnchanged
<1>3. CASE feed' = SubSeq(feed, 1, i - 1) \o SubSeq(feed, i + 1, Len(feed))
  <2>1. i \in 1 .. Len(feed)
    BY <1>0, <1>1, LenProperties
  <2>2. PICK a, b : a = SubSeq(feed, 1, i - 1) /\ b = SubSeq(feed, i + 1, Len(feed))
    OBVIOUS
  <2>3. /\ a \in Seq(Events) /\ b \in Seq(Events)
        /\ \A j \in DOMAIN a : \E k \in DOMAIN feed : a[j] = feed[k]
        /\ \A j \in DOMAIN b : \E k \in DOMAIN feed : b[j] = feed[k]
    BY <1>0, <2>1, <2>2, Removed
  <2>4. /\ \A j \in DOMAIN a : Reported(a[j], settled')
        /\ \A j \in DOMAIN b : Reported(b[j], settled')
    BY <1>0, <2>3
  <2>5. feed' = a \o b
    BY <1>3, <2>2
  <2> QED BY <2>3, <2>4, <2>5, Joined
<1> QED BY <1>1, <1>2, <1>3

LEMMA CrashTold ==
  ASSUME IInv, StripeKept, Crash
  PROVE  FeedKept
<1>1. \A e \in Unanswered : e \in Events /\ Reported(e, settled')
  BY FeedFacts DEF Unanswered
<1>2. IsFiniteSet(Unanswered)
  <2>1. PICK busy : busy = {x \in Workers : worker[x] # Idle}
    OBVIOUS
  <2>2. IsFiniteSet(busy)
    BY <2>1, BoundsAssumption, FS_Subset
  <2>3. PICK f : f = [w \in busy |-> worker[w].event]
    OBVIOUS
  <2>4. f \in [busy -> Unanswered] /\ \A e \in Unanswered : \E w \in busy : f[w] = e
    BY <2>1, <2>3 DEF Unanswered
  <2>5. f \in Surjection(busy, Unanswered)
    BY <2>4 DEF Surjection
  <2> QED BY <2>2, <2>5, FS_Surjection
<1>3. PICK n : n = Cardinality(Unanswered)
  OBVIOUS
<1>4. n \in Nat
  BY <1>2, <1>3, FS_CardinalityType
<1>5. PICK again \in [1 .. n -> Unanswered] : feed' = again \o feed
  BY <1>3 DEF Crash
<1>6. again \in Seq(Events) /\ \A i \in DOMAIN again : Reported(again[i], settled')
  BY <1>1, <1>4, <1>5, SeqDef
<1> QED BY <1>5, <1>6, FeedFacts, Joined

LEMMA FeedSteps ==
  ASSUME IInv, StripeKept, Next
  PROVE  FeedKept
<1>1. CASE Billing
  <2>1. setting.subs \subseteq Subs
    BY Facts, SettingsAssumption DEF Subs
  <2> QED BY <1>1, <2>1, BillingTold DEF Billing
<1>2. CASE \E w \in Workers : Deliver(w)
  BY <1>2, DeliverTold
<1>3. CASE \E w \in Workers : Webhook(w) \/ HandlerFails(w)
  <2>1. (\E w \in Workers : Deliver(w)) \/ UNCHANGED feed
    BY <1>3, HandlersTouch
  <2> QED BY <2>1, DeliverTold, FeedUnchanged
<1>4. CASE \E t \in Tabs : Ask(t) \/ Serve(t) \/ RequestFails(t)
  <2>1. PICK t \in Tabs : Ask(t) \/ Serve(t) \/ RequestFails(t)
    BY <1>4
  <2>2. CASE TellStripe(t) \/ StopGift(t)
    BY <2>2, RequestTold
  <2>3. CASE Ask(t)
    <3>1. UNCHANGED feed
      BY <2>3 DEF Ask, Checkout, Cancel, Reactivate, Status, Override, Donate, CancelMonthly
    <3> QED BY <3>1, FeedUnchanged
  <2>4. CASE ~Ask(t) /\ ~(TellStripe(t) \/ StopGift(t))
    <3>1. UNCHANGED feed
      BY <2>1, <2>4 DEF Serve, RequestFails, CreateCustomer, SaveCustomer, OpenSession, OpenGift, WriteRow, Expire, Grant, WriteGift
    <3> QED BY <3>1, FeedUnchanged
  <2> QED BY <2>2, <2>3, <2>4
<1>5. CASE Crash
  BY <1>5, CrashTold
<1>6. CASE \E k \in Rows : OverrideEnds(k)
  BY <1>6, FeedUnchanged DEF OverrideEnds
<1> QED BY <1>1, <1>2, <1>3, <1>4, <1>5, <1>6 DEF Next

-----------------------------------------------------------------------------
(* Payments and donations.                                                 *)

PaymentsKept ==
  /\ payment' \in [Invoices -> {None, "succeeded", "failed"}]
  /\ \A i \in Invoices : payment'[i] = "succeeded" => i \in settled
DonationsKept ==
  /\ gift' \in [Gifts -> Given]
  /\ \A d \in Gifts : /\ gift[d].user # None => gift'[d].user = gift[d].user
                      /\ gift'[d].status = "completed" => <<d, 1>> \in settled
  /\ donor' \subseteq Users
  /\ \A u \in donor' : \E d \in Gifts : gift[d].user = u /\ <<d, 1>> \in settled

LEMMA PaymentSteps ==
  ASSUME IInv, Next
  PROVE  PaymentsKept
<1>0. /\ payment \in [Invoices -> {None, "succeeded", "failed"}]
      /\ \A i \in Invoices : payment[i] = "succeeded" => i \in settled
  BY DEF IInv, TypeOK, PaymentsAreReal
<1>1. CASE \E w \in Workers : Record(w)
  <2>1. PICK w \in Workers : Record(w)
    BY <1>1
  <2>2. PICK e, i : e = worker[w].event /\ i = <<e.sub, e.n>>
    OBVIOUS
  <2>3. e \in Events /\ Reported(e, settled) /\ e.kind \in {"succeeded", "failed"}
    BY <2>1, <2>2, Facts DEF Record, Paying, At, Deliveries
  <2>4. payment' = IF payment[i] # None THEN payment ELSE [payment EXCEPT ![i] = e.kind]
    BY <2>1, <2>2 DEF Record
  <2>5. e.kind = "succeeded" => i \in settled
    BY <2>2, <2>3 DEF Reported
  <2> QED BY <1>0, <2>3, <2>4, <2>5 DEF PaymentsKept
<1>2. CASE UNCHANGED payment
  BY <1>0, <1>2 DEF PaymentsKept
<1>3. CASE \E w \in Workers : Deliver(w) \/ Webhook(w) \/ HandlerFails(w)
  <2>1. (\E w \in Workers : Record(w)) \/ UNCHANGED payment
    BY <1>3, HandlersTouch
  <2> QED BY <1>1, <1>2, <2>1
<1>4. CASE \E t \in Tabs : Ask(t)
  <2>1. UNCHANGED payment
    BY <1>4 DEF Ask, Checkout, Cancel, Reactivate, Status, Override, Donate, CancelMonthly, database
  <2> QED BY <1>2, <2>1
<1>5. CASE \E t \in Tabs : Serve(t) \/ RequestFails(t)
  <2>1. UNCHANGED payment
    BY <1>5 DEF Serve, RequestFails, CreateCustomer, SaveCustomer, OpenSession, TellStripe, OpenGift, StopGift,
       WriteRow, Expire, Grant, WriteGift, database
  <2> QED BY <1>2, <2>1
<1>6. CASE Billing \/ Crash \/ \E k \in Rows : OverrideEnds(k)
  <2>1. UNCHANGED payment
    BY <1>6 DEF Billing, Pay, Renew, Retry, ChangePlan, End, Crash, OverrideEnds, database, Turn
  <2> QED BY <1>2, <2>1
<1> QED BY <1>3, <1>4, <1>5, <1>6 DEF Next

LEMMA DonationFacts ==
  ASSUME IInv
  PROVE  /\ gift \in [Gifts -> Given]
         /\ \A d \in Gifts : gift[d].status = "completed" => <<d, 1>> \in settled
         /\ donor \subseteq Users
         /\ \A u \in donor : \E d \in Gifts : gift[d].user = u /\ <<d, 1>> \in settled
BY DEF IInv, TypeOK, Shapes, PaymentsAreReal

\* The row of one donation is written.
LEMMA GiftWrites ==
  ASSUME IInv, NEW d \in Gifts, NEW g \in Given, gift' = [gift EXCEPT ![d] = g], UNCHANGED donor,
         gift[d].user # None => g.user = gift[d].user, g.status = "completed" => <<d, 1>> \in settled
  PROVE  DonationsKept
<1>1. gift' \in [Gifts -> Given] /\ gift'[d] = g /\ \A x \in Gifts \ {d} : gift'[x] = gift[x]
  BY DonationFacts
<1> QED BY <1>1, DonationFacts DEF DonationsKept

LEMMA DonationsUnchanged ==
  ASSUME IInv, UNCHANGED <<gift, donor>>
  PROVE  DonationsKept
BY DonationFacts DEF DonationsKept

LEMMA DonationSteps ==
  ASSUME IInv, Next
  PROVE  DonationsKept
<1>1. ASSUME NEW w \in Workers, CompleteGift(w) \/ CancelledGift(w) PROVE DonationsKept
  <2>1. PICK d, g : d = worker[w].event.sub /\ g = gift[d]
    OBVIOUS
  <2>2. d \in Gifts /\ g \in Given /\ Reported(worker[w].event, settled)
    BY <1>1, <2>1, Facts DEF CompleteGift, CancelledGift, At
  <2>3. CASE CompleteGift(w)
    <3>1. PICK n : n = [g EXCEPT !.status = "completed", !.sub = d]
      OBVIOUS
    <3>2. n \in Given /\ n.user = g.user
      BY <2>2, <3>1 DEF Given
    <3>3. gift' = [gift EXCEPT ![d] = n] /\ UNCHANGED donor
      BY <2>1, <2>2, <2>3, <3>1, DonationFacts DEF CompleteGift
    <3>4. <<d, 1>> \in settled
      BY <2>1, <2>2, <2>3 DEF CompleteGift, At, Reported
    <3> QED BY <2>1, <2>2, <3>2, <3>3, <3>4, GiftWrites
  <2>4. CASE CancelledGift(w)
    <3>1. PICK n : n = [g EXCEPT !.status = "cancelled"]
      OBVIOUS
    <3>2. n \in Given /\ n.user = g.user /\ n.status = "cancelled"
      BY <2>2, <3>1 DEF Given
    <3>3. gift' = [gift EXCEPT ![d] = n] /\ UNCHANGED donor
      BY <2>1, <2>2, <2>4, <3>1, DonationFacts DEF CancelledGift
    <3> QED BY <2>1, <2>2, <3>2, <3>3, GiftWrites
  <2> QED BY <1>1, <2>3, <2>4
<1>2. ASSUME NEW w \in Workers, MarkDonor(w) PROVE DonationsKept
  <2>1. PICK e, d : e = worker[w].event /\ d = e.sub
    OBVIOUS
  <2>2. d \in Gifts /\ <<d, 1>> \in settled
    BY <1>2, <2>1, Facts DEF MarkDonor, At, DeliveryOK, Reported
  <2>3. donor' = donor \cup ({gift[d].user} \ {None}) /\ UNCHANGED gift
    BY <1>2, <2>1 DEF MarkDonor
  <2>4. gift[d].user \in Users \cup {None}
    BY <2>2, DonationFacts DEF Given
  <2> QED BY <2>2, <2>3, <2>4, DonationFacts DEF DonationsKept
<1>3. ASSUME NEW t \in Tabs, NEW u \in Users \cup {None}, NEW d \in Gifts, Donate(t, u, d) PROVE DonationsKept
  <2>1. PICK g, n : g = gift[d] /\ n = [[g EXCEPT !.status = "pending"] EXCEPT !.user = u]
    OBVIOUS
  <2>2. g \in Given /\ g.user = None
    BY <1>3, <2>1, DonationFacts DEF Donate, NoGift
  <2>3. n \in Given /\ n.status = "pending"
    BY <2>1, <2>2 DEF Given
  <2>4. gift' = [gift EXCEPT ![d] = n] /\ UNCHANGED donor
    BY <1>3, <2>1, <2>2, DonationFacts DEF Donate
  <2> QED BY <2>1, <2>2, <2>3, <2>4, GiftWrites
<1>4. ASSUME NEW t \in Tabs, WriteGift(t) PROVE DonationsKept
  <2>1. PICK d : d = tab[t].sub
    OBVIOUS
  <2>2. d \in Gifts
    BY <1>4, <2>1, Facts DEF WriteGift, Doing, RequestOK
  <2>3. PICK g, n : g = gift[d] /\ n = [g EXCEPT !.status = "cancelled"]
    OBVIOUS
  <2>4. n \in Given /\ n.user = g.user /\ n.status = "cancelled"
    BY <2>2, <2>3, DonationFacts DEF Given
  <2>5. gift' = [gift EXCEPT ![d] = n] /\ UNCHANGED donor
    BY <1>4, <2>1, <2>2, <2>3, DonationFacts DEF WriteGift
  <2> QED BY <2>2, <2>3, <2>4, <2>5, GiftWrites
<1>5. CASE \E w \in Workers : Deliver(w) \/ Webhook(w) \/ HandlerFails(w)
  <2>1. PICK w \in Workers : Deliver(w) \/ Webhook(w) \/ HandlerFails(w)
    BY <1>5
  <2>2. CompleteGift(w) \/ CancelledGift(w) \/ MarkDonor(w) \/ UNCHANGED <<gift, donor>>
    BY <2>1, HandlersTouch
  <2> QED BY <1>1, <1>2, <2>2, DonationsUnchanged
<1>6. CASE \E t \in Tabs : Ask(t)
  <2>1. PICK t \in Tabs : Ask(t)
    BY <1>6
  <2>2. setting.users \subseteq Users
    BY Facts, SettingsAssumption
  <2>3. (\E u \in Users \cup {None}, d \in Gifts : Donate(t, u, d)) \/ UNCHANGED <<gift, donor>>
    BY <2>1, <2>2 DEF Ask, Checkout, Cancel, Reactivate, Status, Override, CancelMonthly, database
  <2> QED BY <1>3, <2>3, DonationsUnchanged
<1>7. CASE \E t \in Tabs : Serve(t) \/ RequestFails(t)
  <2>1. PICK t \in Tabs : Serve(t) \/ RequestFails(t)
    BY <1>7
  <2>2. WriteGift(t) \/ UNCHANGED <<gift, donor>>
    BY <2>1 DEF Serve, RequestFails, CreateCustomer, SaveCustomer, OpenSession, TellStripe, OpenGift, StopGift,
       WriteRow, Expire, Grant, database
  <2> QED BY <1>4, <2>2, DonationsUnchanged
<1>8. CASE Billing \/ Crash \/ \E k \in Rows : OverrideEnds(k)
  <2>1. UNCHANGED <<gift, donor>>
    BY <1>8 DEF Billing, Pay, Renew, Retry, ChangePlan, End, Crash, OverrideEnds, database, Turn
  <2> QED BY <2>1, DonationsUnchanged
<1> QED BY <1>5, <1>6, <1>7, <1>8 DEF Next

-----------------------------------------------------------------------------
(* Customers.                                                              *)

CustomersKept ==
  customer' \in [Users -> Customers \cup {None}] /\ \A u \in Users : Whose(customer'[u], u)

LEMMA CustomerFacts ==
  ASSUME IInv
  PROVE  /\ customer \in [Users -> Customers \cup {None}] /\ \A u \in Users : Whose(customer[u], u)
         /\ \A s \in Subs : Whose(stripe[s].cust, stripe[s].user)
         /\ \A t \in Tabs : tab[t] # Idle => Whose(tab[t].cust, tab[t].user)
BY Facts DEF Whose, Holders

LEMMA CustomerWrites ==
  ASSUME IInv, NEW u, NEW c \in Customers \cup {None}, customer' = [customer EXCEPT ![u] = c], Whose(c, u)
  PROVE  CustomersKept
BY CustomerFacts DEF CustomersKept

LEMMA CustomerSteps ==
  ASSUME IInv, Next
  PROVE  CustomersKept
<1>0. CASE UNCHANGED customer
  BY <1>0, CustomerFacts DEF CustomersKept
<1>1. ASSUME NEW w \in Workers, LinkCustomer(w) PROVE CustomersKept
  <2>1. PICK d, s : d = worker[w] /\ s = d.event.sub
    OBVIOUS
  <2>2. d.event.sub \in Sales /\ d.user = stripe[d.event.sub].user
    BY <1>1, <2>1, Facts DEF LinkCustomer, At, DeliveryOK
  <2>3. s \in Subs
    BY <2>1, <2>2 DEF Subs
  <2>4. customer' = [customer EXCEPT ![d.user] = stripe[s].cust]
    BY <1>1, <2>1 DEF LinkCustomer
  <2>5. stripe[s].cust \in Customers \cup {None} /\ Whose(stripe[s].cust, d.user)
    BY <2>1, <2>2, <2>3, Facts, CustomerFacts DEF Charged
  <2> QED BY <2>4, <2>5, CustomerWrites
<1>2. ASSUME NEW t \in Tabs, SaveCustomer(t) PROVE CustomersKept
  <2>1. PICK q : q = tab[t]
    OBVIOUS
  <2>2. q \in Requests /\ Whose(q.cust, q.user) /\ customer' = [customer EXCEPT ![q.user] = q.cust]
    BY <1>2, <2>1, Facts, CustomerFacts DEF SaveCustomer, Doing
  <2>3. q.cust \in Customers \cup {None}
    BY <2>2 DEF Requests
  <2> QED BY <2>2, <2>3, CustomerWrites
<1>3. CASE \E w \in Workers : Deliver(w) \/ Webhook(w) \/ HandlerFails(w)
  <2>1. PICK w \in Workers : Deliver(w) \/ Webhook(w) \/ HandlerFails(w)
    BY <1>3
  <2>2. LinkCustomer(w) \/ UNCHANGED customer
    BY <2>1, HandlersTouch
  <2> QED BY <1>0, <1>1, <2>2
<1>4. CASE \E t \in Tabs : Ask(t)
  <2>1. UNCHANGED customer
    BY <1>4 DEF Ask, Checkout, Cancel, Reactivate, Status, Override, Donate, CancelMonthly, database
  <2> QED BY <1>0, <2>1
<1>5. CASE \E t \in Tabs : Serve(t) \/ RequestFails(t)
  <2>1. PICK t \in Tabs : Serve(t) \/ RequestFails(t)
    BY <1>5
  <2>2. SaveCustomer(t) \/ UNCHANGED customer
    BY <2>1 DEF Serve, RequestFails, CreateCustomer, OpenSession, TellStripe, OpenGift, StopGift,
       WriteRow, Expire, Grant, WriteGift, database
  <2> QED BY <1>0, <1>2, <2>2
<1>6. CASE Billing \/ Crash \/ \E k \in Rows : OverrideEnds(k)
  <2>1. UNCHANGED customer
    BY <1>6 DEF Billing, Pay, Renew, Retry, ChangePlan, End, Crash, OverrideEnds, database, Turn
  <2> QED BY <1>0, <2>1
<1> QED BY <1>3, <1>4, <1>5, <1>6 DEF Next

-----------------------------------------------------------------------------
(* Deliveries.                                                             *)

WorkersKept ==
  /\ worker' \in [Workers -> Deliveries \cup {Idle}]
  /\ \A w \in Workers : worker'[w] # Idle => DeliveryOK(worker'[w]) /\ Reported(worker'[w].event, settled)

LEMMA Moves ==
  ASSUME IInv, NEW w \in Workers, NEW d, worker' = [worker EXCEPT ![w] = d],
         d = Idle \/ (d \in Deliveries /\ DeliveryOK(d) /\ Reported(d.event, settled))
  PROVE  WorkersKept
<1>1. worker' \in [Workers -> Deliveries \cup {Idle}] /\ worker'[w] = d /\ \A v \in Workers \ {w} : worker'[v] = worker[v]
  BY Facts
<1> QED BY <1>1, Facts DEF WorkersKept

LEMMA WorkersUnchanged ==
  ASSUME IInv, UNCHANGED worker
  PROVE  WorkersKept
BY Facts DEF WorkersKept

\* A delivery goes on with what it found, or is answered.
LEMMA GoesOn ==
  ASSUME IInv, NEW w \in Workers, worker[w] # Idle, NEW n \in Deliveries, n.event = worker[w].event, DeliveryOK(n),
         worker' = [worker EXCEPT ![w] = n]
  PROVE  WorkersKept
BY Facts, Moves

LEMMA Answered ==
  ASSUME IInv, NEW w \in Workers, Answer(w)
  PROVE  WorkersKept
BY Moves DEF Answer, Go

LEMMA SameUser ==
  ASSUME IInv, NEW u \in Users, NEW s \in Subs, customer[u] # None, customer[u] = stripe[s].cust
  PROVE  u = stripe[s].user
<1>1. PICK p, q : p = <<customer[u], u>> /\ q = <<stripe[s].cust, stripe[s].user>>
  OBVIOUS
<1>2. p \in Holders /\ q \in Holders
  BY <1>1 DEF Holders
<1> QED BY <1>1, <1>2 DEF IInv, CustomersAreOwn

LEMMA ResolveUserKeeps ==
  ASSUME IInv, NEW w \in Workers, ResolveUser(w)
  PROVE  WorkersKept
<1>1. PICK d, s : d = worker[w] /\ s = worker[w].event.sub
  OBVIOUS
<1>2. d \in Deliveries /\ DeliveryOK(d) /\ s \in Sales /\ s \in Subs /\ worker[w] # Idle /\ stripe[s] \in Charged
  BY <1>1, Facts DEF ResolveUser, At, Subs
<1>3. PICK x : /\ x \in IF stripe[s].meta # "none" THEN {stripe[s].user}
                        ELSE Pick({y \in Users : customer[y] # None /\ customer[y] = stripe[s].cust})
               /\ IF x = None THEN Answer(w) ELSE Go(w, [worker[w] EXCEPT !.pc = "retrieve", !.user = x])
  BY <1>1, Zenon DEF ResolveUser
<1>4. CASE x = None
  BY <1>3, <1>4, Answered
<1>5. CASE x # None
  <2>1. x = stripe[s].user /\ x \in Users
    <3>1. CASE stripe[s].meta # "none"
      BY <1>2, <1>3, <1>5, <3>1 DEF Charged
    <3>2. CASE stripe[s].meta = "none"
      <4>1. x \in Users /\ customer[x] # None /\ customer[x] = stripe[s].cust
        BY <1>3, <1>5, <3>2 DEF Pick
      <4> QED BY <1>2, <4>1, SameUser
    <3> QED BY <3>1, <3>2
  <2>2. PICK n : n = [d EXCEPT !.pc = "retrieve", !.user = x]
    OBVIOUS
  <2>3. n \in Deliveries /\ n.pc = "retrieve" /\ n.user = x /\ n.row = d.row /\ n.event = d.event
    BY <1>2, <2>1, <2>2 DEF Deliveries
  <2>4. DeliveryOK(n)
    BY <1>1, <1>2, <1>5, <2>1, <2>3 DEF DeliveryOK
  <2>5. worker' = [worker EXCEPT ![w] = n]
    BY <1>1, <1>3, <1>5, <2>2 DEF Go
  <2> QED BY <1>1, <1>2, <2>3, <2>4, <2>5, GoesOn
<1> QED BY <1>4, <1>5

LEMMA RetrieveKeeps ==
  ASSUME IInv, NEW w \in Workers, Retrieve(w)
  PROVE  WorkersKept
<1>1. PICK d, s : d = worker[w] /\ s = worker[w].event.sub
  OBVIOUS
<1>2. /\ d \in Deliveries /\ DeliveryOK(d) /\ worker[w] # Idle /\ d.event.kind = "checkout" /\ d.pc = "retrieve"
      /\ s \in Sales /\ d.event.sub = s
  BY <1>1, Facts DEF Retrieve, At, DeliveryOK
<1>3. PICK tier : tier = stripe[s].tier
  OBVIOUS
<1>4. tier \in Tiers \cup {"free"}
  BY <1>2, <1>3, Facts DEF Charged, Subs
<1>5. PICK n : n = [d EXCEPT !.pc = "find", !.tier = tier]
  OBVIOUS
<1>6. n \in Deliveries /\ n.pc = "find" /\ n.user = d.user /\ n.row = d.row /\ n.event = d.event
  BY <1>2, <1>4, <1>5 DEF Deliveries
<1>7. DeliveryOK(n)
  BY <1>2, <1>6 DEF DeliveryOK
<1>8. worker' = [worker EXCEPT ![w] = n]
  BY <1>1, <1>3, <1>5 DEF Retrieve, Go
<1> QED BY <1>1, <1>2, <1>6, <1>7, <1>8, GoesOn

LEMMA FindExistingKeeps ==
  ASSUME IInv, NEW w \in Workers, FindExisting(w)
  PROVE  WorkersKept
<1>1. PICK d : d = worker[w]
  OBVIOUS
<1>2. d \in Deliveries /\ DeliveryOK(d) /\ worker[w] # Idle /\ d.event.kind = "checkout" /\ d.pc = "find"
  BY <1>1, Facts DEF FindExisting, At
<1>3. PICK k \in Pick(RowsOf(d.user)) : Go(w, [d EXCEPT !.pc = "save", !.row = k])
  BY <1>1 DEF FindExisting
<1>4. k \in Rows \cup {None} /\ (k # None => row[k].user # None)
  BY <1>2, <1>3 DEF Pick, RowsOf, DeliveryOK
<1>5. PICK n : n = [d EXCEPT !.pc = "save", !.row = k]
  OBVIOUS
<1>6. n \in Deliveries /\ n.pc = "save" /\ n.user = d.user /\ n.row = k /\ n.event = d.event
  BY <1>2, <1>4, <1>5 DEF Deliveries
<1>7. DeliveryOK(n)
  BY <1>2, <1>4, <1>6 DEF DeliveryOK
<1>8. worker' = [worker EXCEPT ![w] = n]
  BY <1>3, <1>5 DEF Go
<1> QED BY <1>1, <1>2, <1>6, <1>7, <1>8, GoesOn

LEMMA SaveGoesOn ==
  ASSUME IInv, NEW w \in Workers, Save(w)
  PROVE  WorkersKept
<1>1. PICK d : d = worker[w]
  OBVIOUS
<1>2. d \in Deliveries /\ DeliveryOK(d) /\ worker[w] # Idle /\ d.event.kind = "checkout" /\ d.pc = "save"
  BY <1>1, Facts DEF Save, At
<1>3. Answer(w) \/ Goto(w, "link")
  BY Zenon DEF Save, Drop
<1>4. CASE Answer(w)
  BY <1>4, Answered
<1>5. CASE Goto(w, "link")
  <2>1. PICK n : n = [d EXCEPT !.pc = "link"]
    OBVIOUS
  <2>2. n \in Deliveries /\ n.pc = "link" /\ n.user = d.user /\ n.row = d.row /\ n.event = d.event
    BY <1>2, <2>1 DEF Deliveries
  <2>3. DeliveryOK(n)
    BY <1>2, <2>2 DEF DeliveryOK
  <2>4. worker' = [worker EXCEPT ![w] = n]
    BY <1>1, <1>5, <2>1 DEF Goto, Go
  <2> QED BY <1>1, <1>2, <2>2, <2>3, <2>4, GoesOn
<1> QED BY <1>3, <1>4, <1>5

LEMMA FindBySubKeeps ==
  ASSUME IInv, NEW w \in Workers, FindBySub(w)
  PROVE  WorkersKept
<1>1. PICK d : d = worker[w]
  OBVIOUS
<1>2. d \in Deliveries /\ DeliveryOK(d) /\ worker[w] # Idle /\ d.event.kind \in {"updated", "deleted"}
  BY <1>1, Facts DEF FindBySub, At
<1>3. PICK k \in Pick(RowsWith(d.event.sub)) :
        IF k = None THEN Answer(w) ELSE Go(w, [d EXCEPT !.pc = "write", !.row = k])
  BY <1>1 DEF FindBySub
<1>4. CASE k = None
  BY <1>3, <1>4, Answered
<1>5. CASE k # None
  <2>1. k \in Rows /\ row[k].user # None
    BY <1>3, <1>5 DEF Pick, RowsWith
  <2>2. PICK n : n = [d EXCEPT !.pc = "write", !.row = k]
    OBVIOUS
  <2>3. n \in Deliveries /\ n.pc = "write" /\ n.user = d.user /\ n.row = k /\ n.event = d.event
    BY <1>2, <2>1, <2>2 DEF Deliveries
  <2>4. DeliveryOK(n)
    BY <1>2, <1>5, <2>1, <2>3 DEF DeliveryOK
  <2>5. worker' = [worker EXCEPT ![w] = n]
    BY <1>3, <1>5, <2>2 DEF Go
  <2> QED BY <1>1, <1>2, <2>3, <2>4, <2>5, GoesOn
<1> QED BY <1>4, <1>5

LEMMA PayingFacts ==
  ASSUME IInv, NEW w \in Workers, NEW pc, Paying(w, pc)
  PROVE  /\ worker[w] \in Deliveries /\ DeliveryOK(worker[w]) /\ worker[w] # Idle
         /\ worker[w].event.kind # "checkout" /\ worker[w].pc = pc
BY Facts DEF Paying, At

LEMMA FindPayerKeeps ==
  ASSUME IInv, NEW w \in Workers, FindPayer(w)
  PROVE  WorkersKept
<1>1. PICK d : d = worker[w]
  OBVIOUS
<1>2. d \in Deliveries /\ DeliveryOK(d) /\ worker[w] # Idle /\ d.event.kind # "checkout"
  BY <1>1, PayingFacts DEF FindPayer
<1>3. PICK u : /\ u \in Users \cup {None}
               /\ IF u = None THEN Answer(w) ELSE Go(w, [d EXCEPT !.pc = "find", !.user = u])
  BY <1>1 DEF FindPayer, Pick
<1>4. CASE u = None
  BY <1>3, <1>4, Answered
<1>5. CASE u # None
  <2>1. PICK n : n = [d EXCEPT !.pc = "find", !.user = u]
    OBVIOUS
  <2>2. n \in Deliveries /\ n.pc = "find" /\ n.user = u /\ n.row = d.row /\ n.event = d.event
    BY <1>2, <1>3, <2>1 DEF Deliveries
  <2>3. DeliveryOK(n)
    BY <1>2, <1>5, <2>2 DEF DeliveryOK
  <2>4. worker' = [worker EXCEPT ![w] = n]
    BY <1>3, <1>5, <2>1 DEF Go
  <2> QED BY <1>1, <1>2, <2>2, <2>3, <2>4, GoesOn
<1> QED BY <1>4, <1>5

LEMMA FindRowKeeps ==
  ASSUME IInv, NEW w \in Workers, FindRow(w)
  PROVE  WorkersKept
<1>1. PICK d : d = worker[w]
  OBVIOUS
<1>2. d \in Deliveries /\ DeliveryOK(d) /\ worker[w] # Idle /\ d.event.kind # "checkout" /\ d.pc = "find"
  BY <1>1, PayingFacts DEF FindRow
<1>3. PICK k \in Pick(RowsOf(d.user)) : Go(w, [d EXCEPT !.pc = "record", !.row = k])
  BY <1>1 DEF FindRow
<1>4. k \in Rows \cup {None} /\ (k # None => row[k].user # None)
  BY <1>2, <1>3 DEF Pick, RowsOf, DeliveryOK
<1>5. PICK n : n = [d EXCEPT !.pc = "record", !.row = k]
  OBVIOUS
<1>6. n \in Deliveries /\ n.pc = "record" /\ n.user = d.user /\ n.row = k /\ n.event = d.event
  BY <1>2, <1>4, <1>5 DEF Deliveries
<1>7. DeliveryOK(n)
  BY <1>2, <1>4, <1>6 DEF DeliveryOK
<1>8. worker' = [worker EXCEPT ![w] = n]
  BY <1>3, <1>5 DEF Go
<1> QED BY <1>1, <1>2, <1>6, <1>7, <1>8, GoesOn

LEMMA RecordKeeps ==
  ASSUME IInv, NEW w \in Workers, Record(w)
  PROVE  WorkersKept
<1>1. PICK d : d = worker[w]
  OBVIOUS
<1>2. d \in Deliveries /\ DeliveryOK(d) /\ worker[w] # Idle /\ d.event.kind # "checkout"
  BY <1>1, PayingFacts DEF Record
<1>3. CASE d.row = None
  BY <1>1, <1>3, Answered DEF Record
<1>4. CASE d.row # None
  <2>1. PICK n : n = [d EXCEPT !.pc = "status"]
    OBVIOUS
  <2>2. n \in Deliveries /\ n.pc = "status" /\ n.user = d.user /\ n.row = d.row /\ n.event = d.event
    BY <1>2, <2>1 DEF Deliveries
  <2>3. DeliveryOK(n)
    BY <1>2, <1>4, <2>2 DEF DeliveryOK
  <2>4. worker' = [worker EXCEPT ![w] = n]
    BY <1>1, <1>4, <2>1 DEF Record, Goto, Go
  <2> QED BY <1>1, <1>2, <2>2, <2>3, <2>4, GoesOn
<1> QED BY <1>3, <1>4

LEMMA CompleteGiftKeeps ==
  ASSUME IInv, NEW w \in Workers, CompleteGift(w)
  PROVE  WorkersKept
<1>1. PICK d : d = worker[w]
  OBVIOUS
<1>2. d \in Deliveries /\ DeliveryOK(d) /\ worker[w] # Idle /\ d.event.sub \in Gifts
  BY <1>1, Facts DEF CompleteGift, At
<1>3. PICK n : n = [d EXCEPT !.pc = "donor"]
  OBVIOUS
<1>4. n \in Deliveries /\ n.pc = "donor" /\ n.user = d.user /\ n.row = d.row /\ n.event = d.event
  BY <1>2, <1>3 DEF Deliveries
<1>5. DeliveryOK(n)
  BY <1>2, <1>4 DEF DeliveryOK
<1>6. worker' = [worker EXCEPT ![w] = n]
  BY <1>1, <1>3 DEF CompleteGift, Goto, Go
<1> QED BY <1>1, <1>2, <1>4, <1>5, <1>6, GoesOn

LEMMA DeliverKeeps ==
  ASSUME IInv, NEW w \in Workers, Deliver(w)
  PROVE  WorkersKept
<1>1. PICK i \in 1 .. (IF setting.calm THEN 1 ELSE Len(feed)) :
        /\ i <= Len(feed)
        /\ worker' = [worker EXCEPT ![w] =
             [pc |-> feed[i].kind, event |-> feed[i], user |-> None, row |-> None, tier |-> "free"]]
  BY DEF Deliver
<1>2. i \in DOMAIN feed /\ feed[i] \in Events /\ Reported(feed[i], settled)
  <2>1. feed \in Seq(Events) /\ i \in 1 .. Len(feed)
    BY <1>1, Facts
  <2> QED BY <2>1, Facts DEF IInv, EventsAreTrue
<1>3. PICK n : n = [pc |-> feed[i].kind, event |-> feed[i], user |-> None, row |-> None, tier |-> "free"]
  OBVIOUS
<1>4. feed[i].kind \in Kinds
  BY <1>2 DEF Events
<1>5. n \in Deliveries /\ n.pc \in Kinds /\ n.row = None /\ n.event = feed[i]
  BY <1>2, <1>3, <1>4 DEF Deliveries
<1>6. DeliveryOK(n)
  BY <1>5 DEF DeliveryOK, Kinds
<1> QED BY <1>1, <1>2, <1>3, <1>5, <1>6, Moves

LEMMA WorkerSteps ==
  ASSUME IInv, Next
  PROVE  WorkersKept
<1>1. CASE Billing
  BY <1>1, WorkersUnchanged DEF Billing, Pay, Renew, Retry, ChangePlan, End, Turn
<1>2. CASE \E w \in Workers : Deliver(w) \/ HandlerFails(w)
  BY <1>2, DeliverKeeps, Answered DEF HandlerFails, Drop
<1>3. CASE \E w \in Workers : Webhook(w)
  <2>1. PICK w \in Workers : Webhook(w)
    BY <1>3
  <2>2. CASE LinkCustomer(w) \/ Updated(w) \/ Deleted(w) \/ SetStatus(w) \/ MarkDonor(w) \/ CancelledGift(w)
    <3>1. Answer(w)
      BY <2>2 DEF LinkCustomer, Updated, Deleted, SetStatus, MarkDonor, CancelledGift
    <3> QED BY <3>1, Answered
  <2>3. CASE ResolveUser(w) \/ Retrieve(w) \/ FindExisting(w) \/ Save(w)
    BY <2>3, ResolveUserKeeps, RetrieveKeeps, FindExistingKeeps, SaveGoesOn
  <2>4. CASE FindBySub(w) \/ FindPayer(w) \/ FindRow(w) \/ Record(w) \/ CompleteGift(w)
    BY <2>4, FindBySubKeeps, FindPayerKeeps, FindRowKeeps, RecordKeeps, CompleteGiftKeeps
  <2> QED BY <2>1, <2>2, <2>3, <2>4 DEF Webhook
<1>4. CASE \E t \in Tabs : Ask(t) \/ Serve(t) \/ RequestFails(t)
  <2>1. CASE \E t \in Tabs : Ask(t)
    BY <2>1, WorkersUnchanged DEF Ask, Checkout, Cancel, Reactivate, Status, Override, Donate, CancelMonthly, Request
  <2>2. CASE \E t \in Tabs : Serve(t) \/ RequestFails(t)
    <3>1. UNCHANGED worker
      BY <2>2, Zenon DEF Serve, RequestFails, CreateCustomer, SaveCustomer, OpenSession, TellStripe, WriteRow, Expire, Grant,
         OpenGift, StopGift, WriteGift, Request
    <3> QED BY <3>1, WorkersUnchanged
  <2> QED BY <1>4, <2>1, <2>2
<1>5. CASE Crash
  BY <1>5 DEF Crash, WorkersKept
<1>6. CASE \E k \in Rows : OverrideEnds(k)
  BY <1>6, WorkersUnchanged DEF OverrideEnds
<1> QED BY <1>1, <1>2, <1>3, <1>4, <1>5, <1>6 DEF Next

-----------------------------------------------------------------------------
(* Requests.  Only CreateCustomer brings in a customer, that nobody has.   *)

Fresh(c) == \A p \in Holders : p[1] # c
TabsKept ==
  /\ tab' \in [Tabs -> Requests \cup {Idle}]
  /\ \A t \in Tabs : tab'[t] # Idle => RequestOK(tab'[t])
  /\ \E one \in Tabs \cup {None} : \A t \in Tabs : tab'[t] # Idle =>
       Whose(tab'[t].cust, tab'[t].user) \/ (t = one /\ Fresh(tab'[t].cust))

LEMMA TabsUnchanged ==
  ASSUME IInv, UNCHANGED tab
  PROVE  TabsKept
BY Facts, CustomerFacts DEF TabsKept

LEMMA Serves ==
  ASSUME IInv, NEW t \in Tabs, NEW r, Step(t, r),
         r = Idle \/ (r \in Requests /\ RequestOK(r) /\ (Whose(r.cust, r.user) \/ Fresh(r.cust)))
  PROVE  TabsKept
<1>1. tab' \in [Tabs -> Requests \cup {Idle}] /\ tab'[t] = r /\ \A x \in Tabs \ {t} : tab'[x] = tab[x]
  BY Facts DEF Step
<1>2. \A x \in Tabs : tab'[x] # Idle => RequestOK(tab'[x])
  BY <1>1, Facts
<1>3. \A x \in Tabs : tab'[x] # Idle => Whose(tab'[x].cust, tab'[x].user) \/ (x = t /\ Fresh(tab'[x].cust))
  BY <1>1, CustomerFacts
<1> QED BY <1>1, <1>2, <1>3 DEF TabsKept

LEMMA Replied ==
  ASSUME IInv, NEW t \in Tabs, Reply(t)
  PROVE  TabsKept
BY Serves DEF Reply

LEMMA Begins ==
  ASSUME IInv, NEW t \in Tabs, NEW r \in Requests, RequestOK(r), Whose(r.cust, r.user),
         Begin(t, r.user, r.pc, r.row, r.sub, r.cust)
  PROVE  TabsKept
<1>1. r = [user |-> r.user, pc |-> r.pc, row |-> r.row, sub |-> r.sub, cust |-> r.cust]
  BY DEF Requests
<1>2. Step(t, r)
  BY <1>1 DEF Begin, Step
<1> QED BY <1>2, Serves

LEMMA SettingFacts ==
  ASSUME IInv
  PROVE  setting.users \subseteq Users /\ setting.subs \subseteq Subs
BY Facts, SettingsAssumption DEF Subs

LEMMA CheckoutKeeps ==
  ASSUME IInv, NEW t \in Tabs, NEW u \in Users, Checkout(t, u)
  PROVE  TabsKept
<1>1. PICK pc \in {"create", "session"} : Begin(t, u, pc, None, None, customer[u])
  BY DEF Checkout
<1>2. PICK c : c = customer[u]
  OBVIOUS
<1>3. c \in Customers \cup {None} /\ Whose(c, u)
  BY <1>2, CustomerFacts
<1>4. PICK r : r = [user |-> u, pc |-> pc, row |-> None, sub |-> None, cust |-> c]
  OBVIOUS
<1>5. r \in Requests /\ r.user = u /\ r.pc = pc /\ r.row = None /\ r.sub = None /\ r.cust = c
  BY <1>3, <1>4 DEF Requests
<1>6. RequestOK(r)
  BY <1>5, NoneAssumption DEF RequestOK
<1> QED BY <1>1, <1>2, <1>3, <1>5, <1>6, Begins

\* A request about a row of the user, or about none.
LEMMA AsksAbout ==
  ASSUME IInv, NEW t \in Tabs, NEW u \in Users, NEW k \in Rows \cup {None}, k # None => row[k].user # None,
         NEW s \in Sales \cup {None}, NEW pc \in {"cancelNow", "cancelLater", "reactivate", "expire", "override"},
         pc \in {"cancelNow", "cancelLater", "reactivate"} => s # None /\ k # None,
         Begin(t, u, pc, k, s, None)
  PROVE  TabsKept
<1>1. PICK r : r = [user |-> u, pc |-> pc, row |-> k, sub |-> s, cust |-> None]
  OBVIOUS
<1>2. r \in Requests /\ r.user = u /\ r.pc = pc /\ r.row = k /\ r.sub = s /\ r.cust = None
  BY <1>1 DEF Requests, Subs
<1>3. RequestOK(r)
  BY <1>2, NoneAssumption DEF RequestOK
<1> QED BY <1>2, <1>3, Begins DEF Whose

LEMMA AskKeeps ==
  ASSUME IInv, NEW t \in Tabs, Ask(t)
  PROVE  TabsKept
<1>1. ASSUME NEW u \in Users, NEW how \in {"cancelNow", "cancelLater"}, Cancel(t, u, how) PROVE TabsKept
  <2>1. PICK k \in RowsOf(u) : row[k].sub # None /\ Begin(t, u, how, k, row[k].sub, None)
    BY <1>1 DEF Cancel
  <2>2. PICK s : s = row[k].sub
    OBVIOUS
  <2>3. k \in Rows /\ row[k].user # None /\ s \in Sales /\ s # None /\ k # None
    BY <2>1, <2>2, Facts, NoneAssumption DEF RowsOf, Stored
  <2> QED BY <2>1, <2>2, <2>3, AsksAbout
<1>2. ASSUME NEW u \in Users, Reactivate(t, u) PROVE TabsKept
  <2>1. PICK k \in RowsOf(u) : row[k].sub # None /\ Begin(t, u, "reactivate", k, row[k].sub, None)
    BY <1>2 DEF Reactivate
  <2>2. PICK s : s = row[k].sub
    OBVIOUS
  <2>3. k \in Rows /\ row[k].user # None /\ s \in Sales /\ s # None /\ k # None
    BY <2>1, <2>2, Facts, NoneAssumption DEF RowsOf, Stored
  <2> QED BY <2>1, <2>2, <2>3, AsksAbout
<1>3. ASSUME NEW u \in Users, Status(t, u) PROVE TabsKept
  BY <1>3, AsksAbout DEF Status
<1>4. ASSUME NEW u \in Users, Override(t, u) PROVE TabsKept
  <2>1. PICK k \in Pick(RowsOf(u)) : Begin(t, u, "override", k, None, None)
    BY <1>4 DEF Override
  <2>2. k \in Rows \cup {None} /\ (k # None => row[k].user # None)
    BY <2>1, NoneAssumption DEF Pick, RowsOf
  <2> QED BY <2>1, <2>2, AsksAbout
<1>5. ASSUME NEW u \in Users \cup {None}, NEW d \in Gifts, Donate(t, u, d) PROVE TabsKept
  <2>1. PICK c : c = IF u = None THEN None ELSE customer[u]
    OBVIOUS
  <2>2. c \in Customers \cup {None} /\ Whose(c, u)
    BY <2>1, CustomerFacts DEF Whose
  <2>3. PICK r : r = [user |-> u, pc |-> "donate", row |-> None, sub |-> d, cust |-> c]
    OBVIOUS
  <2>4. r \in Requests /\ r.user = u /\ r.pc = "donate" /\ r.row = None /\ r.sub = d /\ r.cust = c
    BY <2>2, <2>3 DEF Requests, Subs
  <2>5. RequestOK(r)
    BY <2>4 DEF RequestOK
  <2>6. Begin(t, u, "donate", None, d, c)
    BY <1>5, <2>1 DEF Donate
  <2> QED BY <2>2, <2>4, <2>5, <2>6, Begins
<1>6. ASSUME NEW u \in Users, NEW d \in Gifts, CancelMonthly(t, u, d) PROVE TabsKept
  <2>1. PICK r : r = [user |-> u, pc |-> "cancelGift", row |-> None, sub |-> d, cust |-> None]
    OBVIOUS
  <2>2. r \in Requests /\ r.user = u /\ r.pc = "cancelGift" /\ r.row = None /\ r.sub = d /\ r.cust = None
    BY <2>1 DEF Requests, Subs
  <2>3. RequestOK(r)
    BY <2>2 DEF RequestOK
  <2> QED BY <1>6, <2>2, <2>3, Begins DEF Whose, CancelMonthly
<1> QED BY <1>1, <1>2, <1>3, <1>4, <1>5, <1>6, CheckoutKeeps, SettingFacts DEF Ask

\* A request goes on with the user, row and subscription it began with.
LEMMA Continues ==
  ASSUME IInv, NEW t \in Tabs, tab[t] # Idle, NEW pc, NEW c \in Customers \cup {None},
         Whose(c, tab[t].user) \/ Fresh(c),
         \/ tab[t].pc \in {"create", "save"} /\ pc \in {"save", "session"}
         \/ tab[t].pc \in {"cancelNow", "cancelLater", "reactivate"} /\ pc \in {"cancelled", "ending", "renewing"}
         \/ tab[t].pc = "cancelGift" /\ pc = "giftCancelled",
         Step(t, [tab[t] EXCEPT !.pc = pc, !.cust = c])
  PROVE  TabsKept
<1>1. PICK q : q = tab[t]
  OBVIOUS
<1>2. q \in Requests /\ RequestOK(q)
  BY <1>1, Facts
<1>3. PICK r : r = [q EXCEPT !.pc = pc, !.cust = c]
  OBVIOUS
<1>4. r \in Requests /\ r.user = q.user /\ r.pc = pc /\ r.row = q.row /\ r.sub = q.sub /\ r.cust = c
  BY <1>1, <1>2, <1>3 DEF Requests
<1>5. RequestOK(r)
  BY <1>1, <1>2, <1>4 DEF RequestOK
<1> QED BY <1>1, <1>3, <1>4, <1>5, Serves

\* ... and with its customer.
LEMMA Advances ==
  ASSUME IInv, NEW t \in Tabs, tab[t] # Idle, NEW pc,
         \/ tab[t].pc \in {"create", "save"} /\ pc \in {"save", "session"}
         \/ tab[t].pc \in {"cancelNow", "cancelLater", "reactivate"} /\ pc \in {"cancelled", "ending", "renewing"}
         \/ tab[t].pc = "cancelGift" /\ pc = "giftCancelled",
         Step(t, [tab[t] EXCEPT !.pc = pc])
  PROVE  TabsKept
<1>1. PICK q, c : q = tab[t] /\ c = tab[t].cust
  OBVIOUS
<1>2. q \in Requests /\ Whose(c, q.user) /\ c = q.cust
  BY <1>1, Facts, CustomerFacts
<1>3. c \in Customers \cup {None}
  BY <1>2 DEF Requests
<1>4. [q EXCEPT !.pc = pc] = [q EXCEPT !.pc = pc, !.cust = c]
  BY <1>2 DEF Requests
<1> QED BY <1>1, <1>2, <1>3, <1>4, Continues

LEMMA CreateCustomerKeeps ==
  ASSUME IInv, NEW t \in Tabs, CreateCustomer(t)
  PROVE  TabsKept
<1>1. PICK c \in Customers :
        /\ \A u \in Users : customer[u] # c
        /\ \A s \in Subs : stripe[s].cust # c
        /\ \A x \in Tabs : tab[x] # Idle => tab[x].cust # c
        /\ Step(t, [tab[t] EXCEPT !.pc = "save", !.cust = c])
  BY DEF CreateCustomer
<1>2. Fresh(c)
  BY <1>1 DEF Fresh, Holders
<1>3. tab[t] # Idle /\ tab[t].pc = "create"
  BY DEF CreateCustomer, Doing
<1> QED BY <1>1, <1>2, <1>3, Continues

LEMMA TellStripeKeeps ==
  ASSUME IInv, NEW t \in Tabs, TellStripe(t)
  PROVE  TabsKept
<1>1. tab[t] # Idle /\ tab[t].pc \in {"cancelNow", "cancelLater", "reactivate"}
  BY DEF TellStripe, Doing
<1>2. CASE ~Live(tab[t].sub)
  BY <1>2, Replied DEF TellStripe
<1>3. CASE Live(tab[t].sub)
  <2>1. PICK q, pc : q = tab[t] /\ pc = CASE q.pc = "cancelNow" -> "cancelled"
                                          [] q.pc = "cancelLater" -> "ending"
                                          [] q.pc = "reactivate" -> "renewing"
    OBVIOUS
  <2>2. pc \in {"cancelled", "ending", "renewing"}
    BY <1>1, <2>1
  <2>3. Step(t, [q EXCEPT !.pc = CASE @ = "cancelNow" -> "cancelled"
                                   [] @ = "cancelLater" -> "ending"
                                   [] @ = "reactivate" -> "renewing"])
    BY <1>3, <2>1, Zenon DEF TellStripe
  <2>4. q \in Requests
    BY <1>1, <2>1, Facts
  <2>5. Step(t, [q EXCEPT !.pc = pc])
    BY <2>1, <2>3, <2>4 DEF Requests
  <2> QED BY <1>1, <2>1, <2>2, <2>5, Advances
<1> QED BY <1>2, <1>3

LEMMA TabSteps ==
  ASSUME IInv, Next
  PROVE  TabsKept
<1>1. ASSUME NEW t \in Tabs, SaveCustomer(t) PROVE TabsKept
  BY <1>1, Advances DEF SaveCustomer, Doing
<1>2. ASSUME NEW t \in Tabs, StopGift(t) PROVE TabsKept
  <2>1. tab[t] # Idle /\ tab[t].pc = "cancelGift"
    BY <1>2 DEF StopGift, Doing
  <2>2. Reply(t) \/ Step(t, [tab[t] EXCEPT !.pc = "giftCancelled"])
    BY <1>2 DEF StopGift
  <2> QED BY <2>1, <2>2, Replied, Advances
<1>3. ASSUME NEW t \in Tabs, OpenSession(t) \/ WriteRow(t) \/ Expire(t) \/ Grant(t) \/ OpenGift(t) \/ WriteGift(t)
                             \/ RequestFails(t)
      PROVE  TabsKept
  <2>1. Reply(t)
    BY <1>3 DEF OpenSession, WriteRow, Expire, Grant, OpenGift, WriteGift, RequestFails
  <2> QED BY <2>1, Replied
<1>4. CASE \E t \in Tabs : Ask(t) \/ Serve(t) \/ RequestFails(t)
  BY <1>1, <1>2, <1>3, <1>4, AskKeeps, CreateCustomerKeeps, TellStripeKeeps DEF Serve
<1>5. CASE \E w \in Workers : Deliver(w) \/ Webhook(w) \/ HandlerFails(w)
  <2>1. UNCHANGED tab
    BY <1>5, HandlersTouch
  <2> QED BY <2>1, TabsUnchanged
<1>6. CASE Crash
  BY <1>6 DEF Crash, TabsKept
<1>7. CASE Billing \/ \E k \in Rows : OverrideEnds(k)
  <2>1. UNCHANGED tab
    BY <1>7 DEF Billing, Pay, Renew, Retry, ChangePlan, End, OverrideEnds, Turn
  <2> QED BY <2>1, TabsUnchanged
<1> QED BY <1>4, <1>5, <1>6, <1>7 DEF Next

-----------------------------------------------------------------------------
(* The tables together.                                                    *)

Kept ==
  /\ setting' = setting
  /\ RowsKept /\ StripeKept /\ FeedKept /\ PaymentsKept /\ DonationsKept /\ CustomersKept /\ WorkersKept /\ TabsKept

LEMMA Steps ==
  ASSUME IInv, Next
  PROVE  Kept
<1>1. setting' = setting
  <2>1. CASE Billing
    BY <2>1 DEF Billing, Pay, Renew, Retry, ChangePlan, End, Turn
  <2>2. CASE Crash \/ \E k \in Rows : OverrideEnds(k)
    BY <2>2 DEF Crash, OverrideEnds
  <2>3. CASE \E w \in Workers : Deliver(w) \/ Webhook(w) \/ HandlerFails(w)
    BY <2>3, HandlersTouch
  <2>4. CASE \E t \in Tabs : Ask(t)
    BY <2>4 DEF Ask, Checkout, Cancel, Reactivate, Status, Override, Donate, CancelMonthly, Request
  <2>5. CASE \E t \in Tabs : CreateCustomer(t) \/ SaveCustomer(t) \/ OpenSession(t) \/ TellStripe(t) \/ WriteRow(t)
    BY <2>5 DEF CreateCustomer, SaveCustomer, OpenSession, TellStripe, WriteRow, Request
  <2>6. CASE \E t \in Tabs : Expire(t) \/ Grant(t) \/ OpenGift(t) \/ StopGift(t) \/ WriteGift(t) \/ RequestFails(t)
    BY <2>6 DEF RequestFails, Expire, Grant, OpenGift, StopGift, WriteGift, Request
  <2> QED BY <2>1, <2>2, <2>3, <2>4, <2>5, <2>6 DEF Next, Serve
<1> QED BY <1>1, RowSteps, StripeSteps, FeedSteps, PaymentSteps, DonationSteps, CustomerSteps, WorkerSteps, TabSteps DEF Kept

\* A sale that was made keeps its user.
LEMMA SoldTo ==
  ASSUME StripeKept, NEW s \in Sales, stripe[s].status # "none"
  PROVE  stripe'[s].status # "none" /\ stripe'[s].user = stripe[s].user
BY DEF StripeKept

LEMMA CustomersStayOwn ==
  ASSUME IInv, Kept
  PROVE  CustomersAreOwn'
<1>1. PICK one \in Tabs \cup {None} : \A t \in Tabs : tab'[t] # Idle =>
        Whose(tab'[t].cust, tab'[t].user) \/ (t = one /\ Fresh(tab'[t].cust))
  BY DEF Kept, TabsKept
<1>2. PICK new : new = <<tab'[one].cust, tab'[one].user>>
  OBVIOUS
<1>3. \A p \in Holders' : p[1] = None \/ p \in Holders \/ (p = new /\ Fresh(p[1]))
  <2>1. ASSUME NEW u \in Users, NEW p, p = <<customer'[u], u>> PROVE p[1] = None \/ p \in Holders
    BY <2>1 DEF Kept, CustomersKept, Whose
  <2>2. ASSUME NEW s \in Subs, NEW p, p = <<stripe'[s].cust, stripe'[s].user>> PROVE p[1] = None \/ p \in Holders
    BY <2>2 DEF Kept, StripeKept, Whose
  <2>3. ASSUME NEW t \in Tabs, tab'[t] # Idle, NEW p, p = <<tab'[t].cust, tab'[t].user>>
        PROVE  p[1] = None \/ p \in Holders \/ (p = new /\ Fresh(p[1]))
    <3>1. CASE Whose(tab'[t].cust, tab'[t].user)
      BY <2>3, <3>1 DEF Whose
    <3>2. CASE t = one /\ Fresh(tab'[t].cust)
      BY <1>2, <2>3, <3>2
    <3> QED BY <1>1, <2>3, <3>1, <3>2
  <2> QED BY <2>1, <2>2, <2>3 DEF Holders
<1>4. ASSUME NEW p \in Holders', NEW q \in Holders', p[1] = q[1], p[1] # None PROVE p[2] = q[2]
  <2>1. CASE p \in Holders /\ q \in Holders
    BY <1>4, <2>1 DEF IInv, CustomersAreOwn
  <2> QED BY <1>3, <1>4, <2>1 DEF Fresh
<1> QED BY <1>4 DEF CustomersAreOwn

LEMMA RowsStayOwned ==
  ASSUME IInv, Kept
  PROVE  RowsAreSold' /\ RowsFollowOwners'
<1>1. ASSUME NEW k \in Rows, row'[k].sub # None
      PROVE  stripe'[row'[k].sub].user = row'[k].user /\ stripe'[row'[k].sub].status # "none"
  <2>1. PICK new, s : new = row'[k] /\ s = new.sub
    OBVIOUS
  <2>2. new \in Stored /\ Rewritten(k, new) /\ s # None
    BY <1>1, <2>1 DEF Kept, RowsKept
  <2>3. s \in Sales
    BY <2>1, <2>2 DEF Stored
  <2>4. stripe[s].user = new.user /\ stripe[s].status # "none"
    <3>1. CASE s = row[k].sub /\ new.user = row[k].user
      BY <2>2, <3>1 DEF IInv, RowsFollowOwners, RowsAreSold
    <3> QED BY <2>1, <2>2, <3>1 DEF Rewritten
  <2> QED BY <2>1, <2>3, <2>4, SoldTo DEF Kept
<1>2. ASSUME NEW u \in Users, NEW s \in Subs, customer'[u] # None, stripe'[s].cust = customer'[u]
      PROVE  stripe'[s].user = u
  <2>1. PICK p, q : p = <<customer'[u], u>> /\ q = <<stripe'[s].cust, stripe'[s].user>>
    OBVIOUS
  <2>2. p \in Holders' /\ q \in Holders'
    BY <2>1 DEF Holders
  <2> QED BY <1>2, <2>1, <2>2, CustomersStayOwn DEF CustomersAreOwn
<1> QED BY <1>1, <1>2 DEF RowsAreSold, RowsFollowOwners, Kept, RowsKept

LEMMA EventsStayTrue ==
  ASSUME IInv, Kept
  PROVE  EventsAreTrue'
<1>1. settled \subseteq settled'
  BY DEF Kept, StripeKept
<1>2. ASSUME NEW w \in Workers, worker'[w] # Idle PROVE Reported(worker[w].event, settled)'
  <2>1. Reported(worker'[w].event, settled)
    BY <1>2 DEF Kept, WorkersKept
  <2> QED BY <1>1, <2>1 DEF Reported
<1>3. \A i \in DOMAIN feed' : Reported(feed[i], settled)'
  BY DEF Kept, FeedKept, Reported
<1> QED BY <1>2, <1>3 DEF EventsAreTrue, Kept, StripeKept

LEMMA DeliveriesStayOK ==
  ASSUME IInv, Kept, NEW w \in Workers, worker'[w] # Idle
  PROVE  DeliveryOK(worker[w])'
<1>1. PICK d : d = worker'[w]
  OBVIOUS
<1>2. d \in Deliveries /\ DeliveryOK(d) /\ Reported(d.event, settled)
  BY <1>1 DEF Kept, WorkersKept
<1>3. d.row # None => row'[d.row].user # None
  <2>1. d.row \in Rows \cup {None}
    BY <1>2 DEF Deliveries
  <2> QED BY <1>2, <2>1 DEF DeliveryOK, Kept, RowsKept, Rewritten
<1>4. d.event.kind = "checkout" /\ d.pc \in {"retrieve", "find", "save", "link"} =>
        d.event.sub \in Sales /\ d.user = stripe'[d.event.sub].user
  <2>1. SUFFICES ASSUME d.event.kind = "checkout", d.pc \in {"retrieve", "find", "save", "link"}
                 PROVE  d.event.sub \in Sales /\ d.user = stripe'[d.event.sub].user
    OBVIOUS
  <2>2. PICK s, i : s = d.event.sub /\ i = <<d.event.sub, d.event.n>>
    OBVIOUS
  <2>3. s \in Sales /\ d.user = stripe[s].user
    BY <1>2, <2>1, <2>2 DEF DeliveryOK
  <2>4. i \in settled /\ i[1] = s
    BY <1>2, <2>1, <2>2 DEF Reported
  <2>5. stripe[s].status # "none"
    BY <2>3, <2>4 DEF IInv, EventsAreTrue
  <2> QED BY <2>2, <2>3, <2>5, SoldTo DEF Kept
<1> QED BY <1>1, <1>2, <1>3, <1>4 DEF DeliveryOK

LEMMA RequestsStayOK ==
  ASSUME IInv, Kept, NEW t \in Tabs, tab'[t] # Idle
  PROVE  RequestOK(tab[t])'
<1>1. PICK r : r = tab'[t]
  OBVIOUS
<1>2. r \in Requests /\ RequestOK(r)
  BY <1>1 DEF Kept, TabsKept
<1>3. r.row # None => row'[r.row].user # None
  <2>1. r.row \in Rows \cup {None}
    BY <1>2 DEF Requests
  <2> QED BY <1>2, <2>1 DEF RequestOK, Kept, RowsKept, Rewritten
<1> QED BY <1>1, <1>2, <1>3 DEF RequestOK

LEMMA PaymentsStayReal ==
  ASSUME IInv, Kept
  PROVE  PaymentsAreReal'
<1>1. settled \subseteq settled'
  BY DEF Kept, StripeKept
<1>2. \A i \in Invoices : payment'[i] = "succeeded" => i \in settled'
  BY <1>1 DEF Kept, PaymentsKept
<1>3. \A d \in Gifts : gift'[d].status = "completed" => <<d, 1>> \in settled'
  BY <1>1 DEF Kept, DonationsKept
<1>4. ASSUME NEW u \in donor' PROVE \E d \in Gifts : gift'[d].user = u /\ <<d, 1>> \in settled'
  <2>1. PICK d \in Gifts : gift[d].user = u /\ <<d, 1>> \in settled
    BY DEF Kept, DonationsKept
  <2>2. u \in Users /\ u # None
    BY NoneAssumption DEF Kept, DonationsKept
  <2> QED BY <1>1, <2>1, <2>2 DEF Kept, DonationsKept
<1> QED BY <1>2, <1>3, <1>4 DEF PaymentsAreReal

LEMMA TypesStayOK ==
  ASSUME IInv, Kept
  PROVE  TypeOK' /\ Shapes'
<1>0. Charged' = Charged
  BY DEF Kept, Charged, Known
<1>1. Shapes'
  BY <1>0 DEF Shapes, Kept, StripeKept, FeedKept, DonationsKept, WorkersKept, TabsKept
<1>2. \A t \in Tabs : tab'[t] # Idle => tab'[t].user \in Users \cup {None}
  BY <1>1 DEF Shapes, Requests
<1>3. \A w \in Workers : worker'[w] # Idle => worker'[w].event.sub \in Subs
  BY <1>1 DEF Shapes, Deliveries, Events
<1>4. latest' \subseteq {k \in Rows : row'[k] # NoRow}
  BY DEF Kept, RowsKept, NoRow
<1>5. /\ setting' \in Settings /\ row' \in [Rows -> Stored] /\ customer' \in [Users -> Customers \cup {None}]
      /\ payment' \in [Invoices -> {None, "succeeded", "failed"}]
      /\ donor' \subseteq Users /\ settled' \subseteq Invoices /\ invoiced' \in [Subs -> 0 .. MaxInvoices]
  BY Facts DEF Kept, RowsKept, CustomersKept, PaymentsKept, DonationsKept, StripeKept
<1> QED BY <1>1, <1>2, <1>3, <1>4, <1>5 DEF TypeOK

LEMMA IInvInductive ==
  ASSUME IInv, [Next]_vars
  PROVE  IInv'
<1>1. CASE Next
  <2>1. Kept
    BY <1>1, Steps
  <2> QED BY <2>1, TypesStayOK, EventsStayTrue, CustomersStayOwn, RowsStayOwned, DeliveriesStayOK, RequestsStayOK,
             PaymentsStayReal DEF IInv
<1>2. CASE UNCHANGED vars
  <2>0. Charged' = Charged
    BY <1>2 DEF vars, Charged, Known
  <2>1. /\ TypeOK' /\ Shapes' /\ EventsAreTrue' /\ RowsAreSold' /\ RowsFollowOwners' /\ PaymentsAreReal'
    BY <1>2, <2>0
    DEF IInv, vars, TypeOK, Shapes, EventsAreTrue, Reported, RowsAreSold, RowsFollowOwners, PaymentsAreReal, NoRow
  <2>2. CustomersAreOwn'
    BY <1>2 DEF IInv, vars, CustomersAreOwn, Holders
  <2>3. (\A w \in Workers : worker[w] # Idle => DeliveryOK(worker[w]))'
    BY <1>2 DEF IInv, vars, DeliveryOK
  <2>4. (\A t \in Tabs : tab[t] # Idle => RequestOK(tab[t]))'
    BY <1>2 DEF IInv, vars, RequestOK
  <2> QED BY <2>1, <2>2, <2>3, <2>4 DEF IInv
<1> QED BY <1>1, <1>2

LEMMA InitInv ==
  ASSUME Init
  PROVE  IInv
<1>1. NoRow \in Stored /\ NoGift \in Given /\ NoSub \in Charged
  BY DEF NoRow, NoGift, NoSub, Stored, Given, Charged, Tiers, Known, Plain, Statuses
<1>2. TypeOK
  BY <1>1, BoundsAssumption DEF Init, TypeOK
<1>3. Shapes
  BY <1>1 DEF Init, Shapes
<1>4. EventsAreTrue
  BY DEF Init, EventsAreTrue, NoSub, Begun
<1>5. CustomersAreOwn
  BY DEF Init, CustomersAreOwn, Holders, NoSub
<1>6. RowsAreSold /\ RowsFollowOwners /\ PaymentsAreReal
  BY NoneAssumption DEF Init, RowsAreSold, RowsFollowOwners, PaymentsAreReal, NoRow, NoGift
<1> QED BY <1>2, <1>3, <1>4, <1>5, <1>6 DEF IInv, Init

LEMMA Invariance == Spec => []IInv
<1>1. Init => IInv
  BY InitInv
<1>2. IInv /\ [Next]_vars => IInv'
  BY IInvInductive
<1> QED BY <1>1, <1>2, PTL DEF Spec

\* Whatever Stripe sends again, late or twice, and wherever the process stops,
\* the tables, the events and the requests hold values of their kind.
THEOREM TypeCorrect == Spec => []TypeOK
<1>1. IInv => TypeOK
  BY DEF IInv
<1> QED BY <1>1, Invariance, PTL

\* checkout.session.completed of webhooks.ts, the routes of subscription.ts and
\* the overrides of admin.ts never put a Stripe subscription into a row of
\* somebody else than its subscriber, and the customer by which an invoice finds
\* a user is never another subscriber's.
THEOREM RowsAlwaysFollowOwners == Spec => []RowsFollowOwners
<1>1. IInv => RowsFollowOwners
  BY DEF IInv
<1> QED BY <1>1, Invariance, PTL

\* payment_history holds no payment, and donations no completed donation and no
\* donor, without a paid invoice at Stripe.
THEOREM PaymentsAlwaysReal == Spec => []PaymentsAreReal
<1>1. IInv => PaymentsAreReal
  BY DEF IInv
<1> QED BY <1>1, Invariance, PTL

-----------------------------------------------------------------------------
(* Calm settings.  What is still to be handled is one queue, the event at  *)
(* work and then the feed: it is appended to, and handled from its head.   *)

Calm == setting.calm /\ setting.grants = {}
Queue == IF Unanswered = {} THEN feed ELSE <<CHOOSE e \in Unanswered : TRUE>> \o feed
Told(q, kind, s) == {i \in DOMAIN q : q[i].kind = kind /\ q[i].sub = s}
Lives(r) == r.status \in LiveStatuses

\* A sale s is told of in order: first its checkout, and after a failure what became of it.
Ordered(q, s) ==
  /\ \A i \in Told(q, "checkout", s), j \in DOMAIN q : q[j].sub = s => i <= j
  /\ \A i \in Told(q, "failed", s) : \E j \in Told(q, "updated", s) : i < j
\* Its events tell no more than it went through, and its end.
Outcome(q, s, r) ==
  /\ r.status \in {"none", "open"} => \A i \in DOMAIN q : q[i].sub # s
  /\ r.status = "open" => ~r.ending
  /\ Told(q, "deleted", s) # {} => r.status = "canceled"
  /\ r.status = "canceled" /\ Told(q, "checkout", s) # {} => Told(q, "deleted", s) # {}
\* The last of them says what it is now.
News(q, s, r) ==
  Lives(r) =>
  /\ \A i \in Told(q, "updated", s) : (\A j \in Told(q, "updated", s) : j <= i) =>
       q[i].status = r.status /\ q[i].tier = r.tier /\ q[i].ending = r.ending
  /\ \A i \in Told(q, "succeeded", s) : (\A j \in Told(q, "updated", s) : j < i) => r.status = "active"
  /\ Told(q, "checkout", s) # {} /\ Told(q, "updated", s) = {} => r.status = "active" /\ ~r.ending
Story(q, s, r) == Ordered(q, s) /\ Outcome(q, s, r) /\ News(q, s, r)
\* What is told of x comes before the checkout of s.
Before(q, x, s) == \A j \in DOMAIN q : q[j].sub = x => \E i \in Told(q, "checkout", s) : j < i

\* The head is handled.
LEMMA Shifted ==
  ASSUME NEW q \in Seq(Events), q # <<>>, NEW p, p = Tail(q)
  PROVE  /\ p \in Seq(Events) /\ Len(q) \in Nat \ {0} /\ DOMAIN q = 1 .. Len(q) /\ DOMAIN p = 1 .. Len(q) - 1
         /\ \A i \in DOMAIN p : i + 1 \in DOMAIN q /\ p[i] = q[i + 1]
<1>1. Len(q) \in Nat \ {0} /\ DOMAIN q = 1 .. Len(q)
  BY EmptySeq, LenProperties
<1>2. p \in Seq(Events) /\ Len(p) = Len(q) - 1 /\ \A i \in 1 .. Len(p) : p[i] = q[i + 1]
  BY HeadTailProperties
<1>3. DOMAIN p = 1 .. Len(q) - 1
  BY <1>2, LenProperties
<1> QED BY <1>1, <1>2, <1>3

LEMMA ToldShifted ==
  ASSUME NEW q \in Seq(Events), q # <<>>, NEW p, p = Tail(q), NEW kind, NEW s
  PROVE  /\ \A i \in Told(p, kind, s) : i \in Nat \ {0} /\ i + 1 \in Told(q, kind, s) /\ p[i] = q[i + 1]
         /\ \A i \in Told(q, kind, s) : i \in Nat \ {0} /\ (i = 1 \/ i - 1 \in Told(p, kind, s))
<1>1. /\ Len(q) \in Nat \ {0} /\ DOMAIN q = 1 .. Len(q) /\ DOMAIN p = 1 .. Len(q) - 1
      /\ \A i \in DOMAIN p : i + 1 \in DOMAIN q /\ p[i] = q[i + 1]
  BY Shifted
<1>2. ASSUME NEW i \in Told(p, kind, s) PROVE i \in Nat \ {0} /\ i + 1 \in Told(q, kind, s) /\ p[i] = q[i + 1]
  BY <1>1 DEF Told
<1>3. ASSUME NEW i \in Told(q, kind, s) PROVE i \in Nat \ {0} /\ (i = 1 \/ i - 1 \in Told(p, kind, s))
  <2>1. i \in 1 .. Len(q) /\ q[i].kind = kind /\ q[i].sub = s
    BY <1>1 DEF Told
  <2>2. CASE i # 1
    <3>1. PICK k : k = i - 1
      OBVIOUS
    <3>2. k \in 1 .. Len(q) - 1 /\ k + 1 = i
      BY <1>1, <2>1, <2>2, <3>1
    <3>3. p[k] = q[i]
      BY <1>1, <3>2
    <3> QED BY <1>1, <2>1, <3>1, <3>2, <3>3 DEF Told
  <2> QED BY <2>1, <2>2
<1> QED BY <1>2, <1>3

LEMMA StoryGoesOn ==
  ASSUME NEW q \in Seq(Events), q # <<>>, NEW s, NEW r, Story(q, s, r)
  PROVE  Story(Tail(q), s, r)
<1>1. PICK p : p = Tail(q)
  OBVIOUS
<1>2. /\ Len(q) \in Nat \ {0} /\ DOMAIN q = 1 .. Len(q) /\ DOMAIN p = 1 .. Len(q) - 1
      /\ \A i \in DOMAIN p : i + 1 \in DOMAIN q /\ p[i] = q[i + 1]
  BY <1>1, Shifted
<1>3. ASSUME NEW kind
      PROVE  /\ \A i \in Told(p, kind, s) : i \in Nat \ {0} /\ i + 1 \in Told(q, kind, s) /\ p[i] = q[i + 1]
             /\ \A i \in Told(q, kind, s) : i \in Nat \ {0} /\ (i = 1 \/ i - 1 \in Told(p, kind, s))
  <2>1. \A i \in Told(p, kind, s) : i \in Nat \ {0} /\ i + 1 \in Told(q, kind, s) /\ p[i] = q[i + 1]
    BY <1>2 DEF Told
  <2>2. \A i \in Told(q, kind, s) : i \in Nat \ {0} /\ (i = 1 \/ i - 1 \in Told(p, kind, s))
    BY <1>1, ToldShifted
  <2> QED BY <2>1, <2>2
<1>4. Ordered(p, s)
  <2>1. ASSUME NEW i \in Told(p, "checkout", s), NEW j \in DOMAIN p, p[j].sub = s PROVE i <= j
    <3>1. i + 1 \in Told(q, "checkout", s) /\ j + 1 \in DOMAIN q /\ q[j + 1].sub = s /\ i \in Nat /\ j \in Nat
      BY <1>2, <1>3, <2>1
    <3>2. i + 1 <= j + 1
      BY <3>1 DEF Story, Ordered
    <3> QED BY <3>1, <3>2
  <2>2. ASSUME NEW i \in Told(p, "failed", s) PROVE \E j \in Told(p, "updated", s) : i < j
    <3>1. i + 1 \in Told(q, "failed", s) /\ i \in Nat \ {0}
      BY <1>3
    <3>2. PICK j \in Told(q, "updated", s) : i + 1 < j
      BY <3>1 DEF Story, Ordered
    <3>3. j \in Nat /\ j - 1 \in Told(p, "updated", s) /\ i < j - 1
      BY <1>3, <3>1, <3>2
    <3> QED BY <3>3
  <2> QED BY <2>1, <2>2 DEF Ordered
\* Nothing of s is handled before its checkout.
<1>5. ASSUME Told(p, "checkout", s) # {}, NEW kind PROVE Told(q, kind, s) # {} => Told(p, kind, s) # {}
  <2>1. PICK c \in Told(p, "checkout", s) : c \in Nat \ {0} /\ c + 1 \in Told(q, "checkout", s)
    BY <1>3, <1>5
  <2>2. ASSUME NEW i \in Told(q, kind, s) PROVE i - 1 \in Told(p, kind, s)
    <3>1. i \in DOMAIN q /\ q[i].sub = s
      BY DEF Told
    <3>2. c + 1 <= i
      BY <2>1, <3>1 DEF Story, Ordered
    <3> QED BY <1>3, <2>1, <3>2
  <2> QED BY <2>2
<1>6. \A kind : Told(p, kind, s) # {} => Told(q, kind, s) # {}
  BY <1>3
<1>7. Outcome(p, s, r)
  BY <1>2, <1>5, <1>6 DEF Story, Outcome
<1>8. ASSUME Lives(r) PROVE News(p, s, r)
  <2>0. News(q, s, r)
    BY DEF Story
  <2>1. ASSUME NEW i \in Told(p, "updated", s), \A j \in Told(p, "updated", s) : j <= i
        PROVE  p[i].status = r.status /\ p[i].tier = r.tier /\ p[i].ending = r.ending
    <3>1. i + 1 \in Told(q, "updated", s) /\ i \in Nat \ {0} /\ p[i] = q[i + 1]
      BY <1>3
    <3>2. ASSUME NEW j \in Told(q, "updated", s) PROVE j <= i + 1
      BY <1>3, <2>1, <3>1, <3>2
    <3> QED BY <1>8, <2>0, <3>1, <3>2 DEF News
  <2>2. ASSUME NEW i \in Told(p, "succeeded", s), \A j \in Told(p, "updated", s) : j < i PROVE r.status = "active"
    <3>1. i + 1 \in Told(q, "succeeded", s) /\ i \in Nat \ {0}
      BY <1>3
    <3>2. ASSUME NEW j \in Told(q, "updated", s) PROVE j < i + 1
      BY <1>3, <2>2, <3>1, <3>2
    <3> QED BY <1>8, <2>0, <3>1, <3>2 DEF News
  <2>3. Told(p, "checkout", s) # {} /\ Told(p, "updated", s) = {} => r.status = "active" /\ ~r.ending
    BY <1>5, <1>6, <1>8, <2>0 DEF News
  <2> QED BY <2>1, <2>2, <2>3 DEF News
<1> QED BY <1>1, <1>4, <1>7, <1>8 DEF Story, News

LEMMA BeforeGoesOn ==
  ASSUME NEW q \in Seq(Events), q # <<>>, NEW x, NEW s, Before(q, x, s)
  PROVE  Before(Tail(q), x, s)
<1>1. PICK p : p = Tail(q)
  OBVIOUS
<1>2. /\ Len(q) \in Nat \ {0} /\ DOMAIN q = 1 .. Len(q) /\ DOMAIN p = 1 .. Len(q) - 1
      /\ \A i \in DOMAIN p : i + 1 \in DOMAIN q /\ p[i] = q[i + 1]
  BY <1>1, Shifted
<1>3. ASSUME NEW j \in DOMAIN p, p[j].sub = x PROVE \E i \in Told(p, "checkout", s) : j < i
  <2>1. j + 1 \in DOMAIN q /\ q[j + 1].sub = x /\ j \in Nat \ {0}
    BY <1>2, <1>3
  <2>2. PICK i \in Told(q, "checkout", s) : j + 1 < i
    BY <2>1 DEF Before
  <2>3. i \in Nat \ {0} /\ (i = 1 \/ i - 1 \in Told(p, "checkout", s))
    BY <1>1, ToldShifted
  <2>4. i - 1 \in Told(p, "checkout", s) /\ j < i - 1
    BY <2>1, <2>2, <2>3
  <2> QED BY <2>4
<1> QED BY <1>1, <1>3 DEF Before

\* What is left of the queue was in it, and what was in it was its head or is left.
LEMMA LeftOver ==
  ASSUME NEW q \in Seq(Events), q # <<>>, NEW kind, NEW s
  PROVE  /\ Told(Tail(q), kind, s) # {} => Told(q, kind, s) # {}
         /\ Told(q, kind, s) # {} => Told(Tail(q), kind, s) # {} \/ (q[1].kind = kind /\ q[1].sub = s)
<1>1. PICK p : p = Tail(q)
  OBVIOUS
<1>2. \A i \in Told(p, kind, s) : i + 1 \in Told(q, kind, s)
  BY <1>1, ToldShifted
<1>3. \A i \in Told(q, kind, s) : i = 1 \/ i - 1 \in Told(p, kind, s)
  BY <1>1, ToldShifted
<1> QED BY <1>1, <1>2, <1>3 DEF Told

\* The head is told.
LEMMA HeadTold ==
  ASSUME NEW q \in Seq(Events), q # <<>>
  PROVE  1 \in Told(q, q[1].kind, q[1].sub) /\ 1 \in DOMAIN q
BY EmptySeq, LenProperties DEF Told

-----------------------------------------------------------------------------
(* Events are appended.                                                    *)

LEMMA Longer ==
  ASSUME NEW q \in Seq(Events), NEW es \in Seq(Events), NEW p, p = q \o es, NEW n, n = Len(q)
  PROVE  /\ p \in Seq(Events) /\ n \in Nat /\ DOMAIN q = 1 .. n
         /\ DOMAIN es = 1 .. Len(es) /\ Len(es) \in Nat /\ DOMAIN p = 1 .. n + Len(es)
         /\ \A i \in DOMAIN q : i \in DOMAIN p /\ p[i] = q[i]
         /\ \A i \in DOMAIN es : n + i \in DOMAIN p /\ p[n + i] = es[i]
         /\ \A i \in DOMAIN p : i \in DOMAIN q \/ (i > n /\ i - n \in DOMAIN es /\ p[i] = es[i - n])
<1>1. /\ p \in Seq(Events) /\ Len(p) = Len(q) + Len(es)
      /\ \A i \in 1 .. Len(q) + Len(es) : p[i] = IF i <= Len(q) THEN q[i] ELSE es[i - Len(q)]
  BY ConcatProperties
<1>2. /\ DOMAIN q = 1 .. n /\ DOMAIN es = 1 .. Len(es) /\ Len(es) \in Nat /\ n \in Nat /\ DOMAIN p = 1 .. n + Len(es)
  BY <1>1, LenProperties
<1>3. \A i \in DOMAIN q : i \in DOMAIN p /\ p[i] = q[i]
  BY <1>1, <1>2
<1>4. ASSUME NEW i \in DOMAIN es PROVE n + i \in DOMAIN p /\ p[n + i] = es[i]
  <2>1. PICK k : k = n + i
    OBVIOUS
  <2>2. k \in 1 .. n + Len(es) /\ ~(k <= n) /\ k - n = i
    BY <1>2, <2>1
  <2> QED BY <1>1, <1>2, <2>1, <2>2
<1>5. ASSUME NEW i \in DOMAIN p PROVE i \in DOMAIN q \/ (i > n /\ i - n \in DOMAIN es /\ p[i] = es[i - n])
  BY <1>1, <1>2
<1> QED BY <1>1, <1>2, <1>3, <1>4, <1>5

\* What was told is still told at the same place, and the rest is new.
LEMMA ToldLonger ==
  ASSUME NEW q \in Seq(Events), NEW es \in Seq(Events), NEW p, p = q \o es, NEW n, n = Len(q), NEW kind, NEW s
  PROVE  /\ n \in Nat
         /\ \A i \in Told(q, kind, s) : i \in 1 .. n /\ i \in Told(p, kind, s) /\ p[i] = q[i]
         /\ \A i \in Told(es, kind, s) : i \in Nat \ {0} /\ n + i \in Told(p, kind, s)
         /\ \A i \in Told(p, kind, s) : i \in Nat \ {0} /\
              (i \in Told(q, kind, s) \/ (i > n /\ i - n \in Told(es, kind, s) /\ p[i] = es[i - n]))
<1>1. /\ n \in Nat /\ DOMAIN q = 1 .. n
      /\ DOMAIN es = 1 .. Len(es) /\ Len(es) \in Nat /\ DOMAIN p = 1 .. n + Len(es)
      /\ \A i \in DOMAIN q : i \in DOMAIN p /\ p[i] = q[i]
      /\ \A i \in DOMAIN es : n + i \in DOMAIN p /\ p[n + i] = es[i]
      /\ \A i \in DOMAIN p : i \in DOMAIN q \/ (i > n /\ i - n \in DOMAIN es /\ p[i] = es[i - n])
  BY Longer
<1>2. \A i \in Told(q, kind, s) : i \in 1 .. n /\ i \in Told(p, kind, s) /\ p[i] = q[i]
  BY <1>1 DEF Told
<1>3. \A i \in Told(es, kind, s) : i \in Nat \ {0} /\ n + i \in Told(p, kind, s)
  BY <1>1 DEF Told
<1>4. ASSUME NEW i \in Told(p, kind, s)
      PROVE  i \in Nat \ {0} /\ (i \in Told(q, kind, s) \/ (i > n /\ i - n \in Told(es, kind, s) /\ p[i] = es[i - n]))
  <2>1. i \in DOMAIN p /\ p[i].kind = kind /\ p[i].sub = s /\ i \in Nat \ {0}
    BY <1>1 DEF Told
  <2>2. CASE i \in DOMAIN q
    BY <1>1, <2>1, <2>2 DEF Told
  <2>3. CASE i > n /\ i - n \in DOMAIN es /\ p[i] = es[i - n]
    <3>1. PICK k : k = i - n
      OBVIOUS
    <3>2. k \in Told(es, kind, s)
      BY <2>1, <2>3, <3>1 DEF Told
    <3> QED BY <2>1, <2>3, <3>1, <3>2
  <2> QED BY <1>1, <2>1, <2>2, <2>3
<1> QED BY <1>1, <1>2, <1>3, <1>4

LEMMA ToldMore ==
  ASSUME NEW q \in Seq(Events), NEW es \in Seq(Events), NEW kind, NEW s
  PROVE  Told(q \o es, kind, s) = {} <=> Told(q, kind, s) = {} /\ Told(es, kind, s) = {}
<1>1. PICK p, n : p = q \o es /\ n = Len(q)
  OBVIOUS
<1>2. /\ \A i \in DOMAIN q : i \in DOMAIN p /\ p[i] = q[i]
      /\ \A i \in DOMAIN es : n + i \in DOMAIN p /\ p[n + i] = es[i]
      /\ \A i \in DOMAIN p : i \in DOMAIN q \/ (i > n /\ i - n \in DOMAIN es /\ p[i] = es[i - n])
  BY <1>1, Longer
<1>3. \A i \in Told(q, kind, s) : i \in Told(p, kind, s)
  BY <1>2 DEF Told
<1>4. \A i \in Told(es, kind, s) : n + i \in Told(p, kind, s)
  BY <1>2 DEF Told
<1>5. \A i \in Told(p, kind, s) : i \in Told(q, kind, s) \/ i - n \in Told(es, kind, s)
  BY <1>2 DEF Told
<1> QED BY <1>1, <1>3, <1>4, <1>5

LEMMA BeforeStays ==
  ASSUME NEW q \in Seq(Events), NEW es \in Seq(Events), NEW x, NEW s, Before(q, x, s),
         \A i \in DOMAIN es : es[i].sub # x
  PROVE  Before(q \o es, x, s)
<1>1. PICK p, n : p = q \o es /\ n = Len(q)
  OBVIOUS
<1>2. /\ \A i \in DOMAIN q : i \in DOMAIN p /\ p[i] = q[i]
      /\ \A i \in DOMAIN p : i \in DOMAIN q \/ (i - n \in DOMAIN es /\ p[i] = es[i - n])
  BY <1>1, Longer
<1>3. \A i \in Told(q, "checkout", s) : i \in Told(p, "checkout", s)
  BY <1>2 DEF Told
<1>4. ASSUME NEW j \in DOMAIN p, p[j].sub = x PROVE \E i \in Told(p, "checkout", s) : j < i
  <2>1. j \in DOMAIN q /\ q[j].sub = x
    BY <1>2, <1>4
  <2> QED BY <1>3, <2>1 DEF Before
<1> QED BY <1>1, <1>4 DEF Before

-----------------------------------------------------------------------------
(* What Stripe tells of a subscription as it changes.                      *)

\* A subscription s of Stripe goes from r to t and Stripe tells of it with es.
Opens(r, t, es) == r.status = "none" /\ t.status = "open" /\ ~t.ending /\ es = <<>>
Pays(r, t, es) ==
  /\ r.status = "open" /\ t.status = "active" /\ t.ending = r.ending
  /\ DOMAIN es = {1, 2} /\ es[1].kind = "checkout" /\ es[2].kind = "succeeded"
Renews(r, t, es) == r.status = "active" /\ t = r /\ DOMAIN es = {1} /\ es[1].kind = "succeeded"
Updates(r, t, es) ==
  /\ Lives(r) /\ Lives(t)
  /\ \E n \in DOMAIN es :
       /\ \A i \in DOMAIN es : i <= n /\ (i # n => es[i].kind \in {"succeeded", "failed"})
       /\ es[n].kind = "updated" /\ es[n].status = t.status /\ es[n].tier = t.tier /\ es[n].ending = t.ending
Ends(r, t, es) == Lives(r) /\ t.status = "canceled" /\ DOMAIN es = {1} /\ es[1].kind = "deleted"
Turns(s, r, t, es) ==
  /\ es \in Seq(Events) /\ \A i \in DOMAIN es : es[i].sub = s
  /\ Opens(r, t, es) \/ Pays(r, t, es) \/ Renews(r, t, es) \/ Updates(r, t, es) \/ Ends(r, t, es)

\* The new events keep the order when there is no checkout among them and no
\* failure without what became of it.
LEMMA OrderKept ==
  ASSUME NEW q \in Seq(Events), NEW es \in Seq(Events), NEW s, Ordered(q, s), Told(es, "checkout", s) = {},
         \A i \in Told(es, "failed", s) : \E j \in Told(es, "updated", s) : i < j
  PROVE  Ordered(q \o es, s)
<1>1. PICK p, n : p = q \o es /\ n = Len(q)
  OBVIOUS
<1>2. /\ n \in Nat /\ DOMAIN q = 1 .. n /\ DOMAIN es = 1 .. Len(es) /\ Len(es) \in Nat /\ DOMAIN p = 1 .. n + Len(es)
      /\ \A i \in DOMAIN q : i \in DOMAIN p /\ p[i] = q[i]
      /\ \A i \in DOMAIN es : n + i \in DOMAIN p /\ p[n + i] = es[i]
      /\ \A i \in DOMAIN p : i \in DOMAIN q \/ (i > n /\ i - n \in DOMAIN es /\ p[i] = es[i - n])
  BY <1>1, Longer
<1>3. ASSUME NEW i \in Told(p, "checkout", s), NEW j \in DOMAIN p, p[j].sub = s PROVE i <= j
  <2>1. i \in DOMAIN p /\ p[i].kind = "checkout" /\ p[i].sub = s
    BY DEF Told
  <2>2. i \in DOMAIN q
    <3>1. PICK k : k = i - n
      OBVIOUS
    <3>2. k \notin DOMAIN es \/ es[k].kind # "checkout" \/ es[k].sub # s
      BY DEF Told
    <3> QED BY <1>2, <2>1, <3>1, <3>2
  <2>3. i \in Told(q, "checkout", s)
    BY <1>2, <2>1, <2>2 DEF Told
  <2>4. CASE j \in DOMAIN q
    BY <1>2, <1>3, <2>3, <2>4 DEF Ordered
  <2> QED BY <1>2, <2>2, <2>4
<1>4. ASSUME NEW i \in Told(p, "failed", s) PROVE \E j \in Told(p, "updated", s) : i < j
  <2>1. i \in DOMAIN p /\ p[i].kind = "failed" /\ p[i].sub = s
    BY DEF Told
  <2>2. CASE i \in DOMAIN q
    <3>1. i \in Told(q, "failed", s)
      BY <1>2, <2>1, <2>2 DEF Told
    <3>2. PICK j \in Told(q, "updated", s) : i < j
      BY <3>1 DEF Ordered
    <3>3. j \in Told(p, "updated", s)
      BY <1>2 DEF Told
    <3> QED BY <3>2, <3>3
  <2>3. CASE i \notin DOMAIN q
    <3>1. PICK k : k = i - n
      OBVIOUS
    <3>2. k \in DOMAIN es /\ p[i] = es[k] /\ i = n + k
      BY <1>2, <2>1, <2>3, <3>1
    <3>3. k \in Told(es, "failed", s)
      BY <2>1, <3>2 DEF Told
    <3>4. PICK j \in Told(es, "updated", s) : k < j
      BY <3>3
    <3>5. j \in DOMAIN es /\ es[j].kind = "updated" /\ es[j].sub = s
      BY DEF Told
    <3>6. PICK l : l = n + j
      OBVIOUS
    <3>7. l \in DOMAIN p /\ p[l] = es[j] /\ i < l
      BY <1>2, <3>2, <3>4, <3>5, <3>6
    <3>8. l \in Told(p, "updated", s)
      BY <3>5, <3>7 DEF Told
    <3> QED BY <3>7, <3>8
  <2> QED BY <2>2, <2>3
<1> QED BY <1>1, <1>3, <1>4 DEF Ordered

\* What is told of others is no news of s.
LEMMA StoryAside ==
  ASSUME NEW q \in Seq(Events), NEW es \in Seq(Events), NEW s, NEW r, Story(q, s, r),
         \A i \in DOMAIN es : es[i].sub # s
  PROVE  Story(q \o es, s, r)
<1>1. PICK p, n : p = q \o es /\ n = Len(q)
  OBVIOUS
<1>2. /\ n \in Nat /\ DOMAIN q = 1 .. n /\ DOMAIN es = 1 .. Len(es) /\ Len(es) \in Nat /\ DOMAIN p = 1 .. n + Len(es)
      /\ \A i \in DOMAIN q : i \in DOMAIN p /\ p[i] = q[i]
      /\ \A i \in DOMAIN p : i \in DOMAIN q \/ (i > n /\ i - n \in DOMAIN es /\ p[i] = es[i - n])
  BY <1>1, Longer
<1>3. ASSUME NEW kind PROVE Told(p, kind, s) = Told(q, kind, s) /\ Told(es, kind, s) = {}
  <2>1. ASSUME NEW i \in Told(p, kind, s) PROVE i \in Told(q, kind, s)
    BY <1>2 DEF Told
  <2>2. ASSUME NEW i \in Told(q, kind, s) PROVE i \in Told(p, kind, s)
    BY <1>2 DEF Told
  <2> QED BY <2>1, <2>2 DEF Told
<1>4. Ordered(p, s)
  BY <1>1, <1>3, OrderKept DEF Story
<1>5. Outcome(p, s, r)
  <2>1. ASSUME r.status \in {"none", "open"}, NEW i \in DOMAIN p PROVE p[i].sub # s
    BY <1>2, <2>1 DEF Story, Outcome
  <2> QED BY <1>3, <2>1 DEF Story, Outcome
<1>6. News(p, s, r)
  <2>1. \A i \in Told(q, "updated", s) \cup Told(q, "succeeded", s) : p[i] = q[i]
    BY <1>2 DEF Told
  <2> QED BY <1>3, <2>1 DEF Story, News
<1> QED BY <1>1, <1>4, <1>5, <1>6 DEF Story

LEMMA StoryOpens ==
  ASSUME NEW q \in Seq(Events), NEW s, NEW r, NEW t, NEW es, Story(q, s, r), Opens(r, t, es)
  PROVE  Story(q \o es, s, t)
<1>1. q \o es = q /\ t.status = "open" /\ ~t.ending /\ r.status = "none"
  BY DEF Opens
<1>2. \A i \in DOMAIN q : q[i].sub # s
  BY <1>1 DEF Story, Outcome
<1>3. \A kind : Told(q, kind, s) = {}
  BY <1>2 DEF Told
<1> QED BY <1>1, <1>2, <1>3 DEF Story, Ordered, Outcome, News, Lives

LEMMA StoryPays ==
  ASSUME NEW q \in Seq(Events), NEW s, NEW r, NEW t, NEW es, Story(q, s, r), Turns(s, r, t, es), Pays(r, t, es)
  PROVE  Story(q \o es, s, t)
<1>1. PICK p, n : p = q \o es /\ n = Len(q)
  OBVIOUS
<1>2. /\ n \in Nat /\ DOMAIN q = 1 .. n /\ DOMAIN p = 1 .. n + Len(es) /\ DOMAIN es = 1 .. Len(es) /\ Len(es) \in Nat
      /\ \A i \in DOMAIN q : p[i] = q[i]
      /\ \A i \in DOMAIN p : i \in DOMAIN q \/ (i > n /\ i - n \in DOMAIN es /\ p[i] = es[i - n])
  BY <1>1, Longer DEF Turns
<1>3. /\ \A i \in DOMAIN q : q[i].sub # s
      /\ t.status = "active" /\ ~t.ending /\ es[1].kind = "checkout" /\ es[2].kind = "succeeded" /\ DOMAIN es = {1, 2}
  BY DEF Story, Outcome, Pays
<1>4. ASSUME NEW i \in DOMAIN p, p[i].sub = s
      PROVE  i \in {n + 1, n + 2} /\ (i = n + 1 => p[i].kind = "checkout") /\ (i = n + 2 => p[i].kind = "succeeded")
  <2>1. PICK k : k = i - n
    OBVIOUS
  <2>2. i \notin DOMAIN q
    BY <1>2, <1>3, <1>4
  <2>3. k \in DOMAIN es /\ p[i] = es[k]
    BY <1>2, <1>4, <2>1, <2>2
  <2>4. k \in {1, 2}
    BY <1>3, <2>3
  <2>5. i \in Nat
    BY <1>2, <1>4
  <2>6. i = n + k
    BY <1>2, <2>1, <2>5
  <2> QED BY <1>2, <1>3, <2>3, <2>4, <2>6
<1>5. \A i \in Told(p, "checkout", s) : i = n + 1
  BY <1>2, <1>4 DEF Told
<1>6. Told(p, "failed", s) = {} /\ Told(p, "updated", s) = {} /\ Told(p, "deleted", s) = {}
  BY <1>4 DEF Told
<1>7. Ordered(p, s)
  BY <1>2, <1>4, <1>5, <1>6 DEF Ordered
<1> QED BY <1>1, <1>3, <1>6, <1>7 DEF Story, Outcome, News, Lives

LEMMA StoryRenews ==
  ASSUME NEW q \in Seq(Events), NEW s, NEW r, NEW t, NEW es, Story(q, s, r), Turns(s, r, t, es), Renews(r, t, es)
  PROVE  Story(q \o es, s, t)
<1>0. es \in Seq(Events) /\ t = r /\ r.status = "active"
  BY DEF Turns, Renews
<1>1. PICK p, n : p = q \o es /\ n = Len(q)
  OBVIOUS
<1>2. ASSUME NEW kind, kind # "succeeded" PROVE Told(es, kind, s) = {}
  BY <1>2 DEF Renews, Told
<1>3. ASSUME NEW kind, kind # "succeeded"
      PROVE  Told(p, kind, s) = Told(q, kind, s) /\ \A i \in Told(q, kind, s) : p[i] = q[i]
  <2>1. /\ \A i \in DOMAIN q : i \in DOMAIN p /\ p[i] = q[i]
        /\ \A i \in DOMAIN p : i \in DOMAIN q \/ (i - n \in DOMAIN es /\ p[i] = es[i - n])
    BY <1>0, <1>1, Longer
  <2>2. \A i \in DOMAIN es : es[i].kind # kind
    BY <1>3 DEF Renews
  <2>3. \A i \in DOMAIN p : p[i].kind = kind => i \in DOMAIN q /\ p[i] = q[i]
    BY <2>1, <2>2
  <2> QED BY <2>1, <2>3 DEF Told
<1>4. Ordered(p, s)
  BY <1>0, <1>1, <1>2, OrderKept DEF Story
<1>5. Outcome(p, s, t)
  BY <1>0, <1>3 DEF Story, Outcome
<1>6. News(p, s, t)
  BY <1>0, <1>3 DEF Story, News
<1> QED BY <1>1, <1>4, <1>5, <1>6 DEF Story

LEMMA StoryUpdates ==
  ASSUME NEW q \in Seq(Events), NEW s, NEW r, NEW t, NEW es, Story(q, s, r), Turns(s, r, t, es), Updates(r, t, es)
  PROVE  Story(q \o es, s, t)
<1>0. es \in Seq(Events) /\ Lives(r) /\ Lives(t) /\ \A i \in DOMAIN es : es[i].sub = s
  BY DEF Turns, Updates
<1>1. PICK p, n : p = q \o es /\ n = Len(q)
  OBVIOUS
<1>2. PICK m \in DOMAIN es :
        /\ \A i \in DOMAIN es : i <= m /\ (i # m => es[i].kind \in {"succeeded", "failed"})
        /\ es[m].kind = "updated" /\ es[m].status = t.status /\ es[m].tier = t.tier /\ es[m].ending = t.ending
  BY DEF Updates
<1>3. /\ n \in Nat /\ DOMAIN q = 1 .. n /\ DOMAIN p = 1 .. n + Len(es) /\ DOMAIN es = 1 .. Len(es) /\ Len(es) \in Nat
      /\ \A i \in DOMAIN es : n + i \in DOMAIN p /\ p[n + i] = es[i]
      /\ \A i \in DOMAIN p : i \in DOMAIN q \/ (i > n /\ i - n \in DOMAIN es /\ p[i] = es[i - n])
  BY <1>0, <1>1, Longer
\* The last event tells what s is now.
<1>4. PICK last : last = n + m
  OBVIOUS
<1>5. last \in DOMAIN p /\ p[last] = es[m] /\ last > n
  BY <1>3, <1>4
<1>6. last \in Told(p, "updated", s)
  BY <1>0, <1>2, <1>5 DEF Told
<1>7. \A i \in DOMAIN p : i \in Nat /\ i <= last
  <2>1. ASSUME NEW i \in DOMAIN p PROVE i \in Nat /\ i <= last
    <3>1. i \in Nat /\ last \in Nat
      BY <1>3, <1>5
    <3>2. CASE i \in DOMAIN q
      BY <1>3, <1>5, <3>1, <3>2
    <3>3. CASE i \notin DOMAIN q
      <4>1. PICK k : k = i - n
        OBVIOUS
      <4>2. k \in DOMAIN es /\ k \in Nat
        BY <1>3, <3>3, <4>1
      <4>3. k <= m /\ m \in Nat
        BY <1>2, <1>3, <4>2
      <4> QED BY <1>3, <1>4, <3>1, <4>1, <4>2, <4>3
    <3> QED BY <3>2, <3>3
  <2> QED BY <2>1
<1>8. Told(es, "checkout", s) = {} /\ Told(es, "deleted", s) = {}
  BY <1>2 DEF Told
<1>9. ASSUME NEW i \in Told(es, "failed", s) PROVE \E j \in Told(es, "updated", s) : i < j
  <2>1. i \in DOMAIN es /\ es[i].kind = "failed"
    BY DEF Told
  <2>2. m \in Told(es, "updated", s)
    BY <1>0, <1>2 DEF Told
  <2>3. i # m /\ i <= m /\ i \in Nat /\ m \in Nat
    BY <1>2, <1>3, <2>1
  <2> QED BY <2>2, <2>3
<1>10. Ordered(p, s)
  BY <1>0, <1>1, <1>8, <1>9, OrderKept DEF Story
<1>11. Outcome(p, s, t)
  <2>1. Told(p, "deleted", s) = {}
    <3>1. Told(q, "deleted", s) = {}
      BY <1>0 DEF Story, Outcome, Lives, LiveStatuses
    <3> QED BY <1>0, <1>1, <1>8, <3>1, ToldMore
  <2> QED BY <1>0, <2>1 DEF Outcome, Lives, LiveStatuses
<1>12. News(p, s, t)
  <2>1. ASSUME NEW i \in Told(p, "updated", s), \A j \in Told(p, "updated", s) : j <= i PROVE i = last
    <3>1. i \in DOMAIN p
      BY DEF Told
    <3> QED BY <1>6, <1>7, <2>1, <1>5, <3>1
  <2>2. ASSUME NEW i \in Told(p, "succeeded", s), \A j \in Told(p, "updated", s) : j < i PROVE FALSE
    <3>1. i \in DOMAIN p
      BY DEF Told
    <3> QED BY <1>5, <1>6, <1>7, <2>2, <3>1
  <2> QED BY <1>2, <1>5, <1>6, <2>1, <2>2 DEF News
<1> QED BY <1>1, <1>10, <1>11, <1>12 DEF Story

LEMMA StoryEnds ==
  ASSUME NEW q \in Seq(Events), NEW s, NEW r, NEW t, NEW es, Story(q, s, r), Turns(s, r, t, es), Ends(r, t, es)
  PROVE  Story(q \o es, s, t)
<1>0. es \in Seq(Events) /\ t.status = "canceled" /\ DOMAIN es = {1} /\ es[1].kind = "deleted" /\ es[1].sub = s
  BY DEF Turns, Ends
<1>1. Told(es, "checkout", s) = {} /\ Told(es, "failed", s) = {} /\ Told(es, "deleted", s) # {}
  BY <1>0 DEF Told
<1>2. Ordered(q \o es, s)
  BY <1>0, <1>1, OrderKept DEF Story
<1>3. Told(q \o es, "deleted", s) # {}
  BY <1>0, <1>1, ToldMore
<1> QED BY <1>0, <1>2, <1>3 DEF Story, Outcome, News, Lives, LiveStatuses

LEMMA StoryTurns ==
  ASSUME NEW q \in Seq(Events), NEW s, NEW r, NEW t, NEW es, Story(q, s, r), Turns(s, r, t, es)
  PROVE  Story(q \o es, s, t)
BY StoryOpens, StoryPays, StoryRenews, StoryUpdates, StoryEnds DEF Turns

\* What a turn leaves as it was, when nothing of it is told.
LEMMA TurnsShow ==
  ASSUME NEW q \in Seq(Events), NEW s, NEW r, NEW t, NEW es, Story(q, s, r), Turns(s, r, t, es)
  PROVE  /\ Lives(t) => Lives(r) \/ Pays(r, t, es)
         /\ Pays(r, t, es) => Told(es, "checkout", s) # {} /\ \A i \in DOMAIN q : q[i].sub # s
         /\ Opens(r, t, es) => \A i \in DOMAIN q : q[i].sub # s
         /\ Lives(t) /\ Told(es, "checkout", s) = {} /\ Told(es, "updated", s) = {} => t = r
         /\ Lives(r) => Lives(t) \/ Told(es, "deleted", s) # {}
<1>0. \A i \in DOMAIN es : es[i].sub = s
  BY DEF Turns
<1>1. CASE Opens(r, t, es)
  BY <1>1 DEF Opens, Lives, Story, Outcome, Pays, LiveStatuses
<1>2. CASE Pays(r, t, es)
  <2>1. Told(es, "checkout", s) # {}
    BY <1>0, <1>2 DEF Pays, Told
  <2> QED BY <1>2, <2>1 DEF Pays, Opens, Lives, Story, Outcome, LiveStatuses
<1>3. CASE Renews(r, t, es)
  BY <1>3 DEF Renews, Pays, Opens, Lives
<1>4. CASE Updates(r, t, es)
  <2>1. Told(es, "updated", s) # {}
    BY <1>0, <1>4 DEF Updates, Told
  <2> QED BY <1>4, <2>1 DEF Updates, Pays, Opens, Lives
<1>5. CASE Ends(r, t, es)
  <2>1. Told(es, "deleted", s) # {}
    BY <1>0, <1>5 DEF Ends, Told
  <2> QED BY <1>5, <2>1 DEF Ends, Pays, Opens, Lives, LiveStatuses
<1> QED BY <1>1, <1>2, <1>3, <1>4, <1>5 DEF Turns

-----------------------------------------------------------------------------
(* The subscriptions, the deliveries and the rows of calm settings.        *)

\* s and x are two subscriptions of one user.
Sibling(s, x) == x # s /\ stripe[x].user = stripe[s].user
Stories == \A s \in Sales : Story(Queue, s, stripe[s])
OneLive == \A s, x \in Sales : Live(s) /\ Sibling(s, x) => ~Live(x) /\ Before(Queue, x, s)
Bought ==
  /\ \A s \in Sales : stripe[s].meta = "session" /\ (stripe[s].status # "none" => stripe[s].user # None)
  /\ \A d \in Gifts : stripe[d].cust = None
\* One delivery at a time, and one request of a user.
OneDelivery == \A v, w \in Workers : worker[v] # Idle /\ worker[w] # Idle => v = w
OneRequest ==
  /\ \A t, x \in Tabs : tab[t] # Idle /\ tab[x] # Idle /\ tab[t].user = tab[x].user => t = x
  /\ \A t \in Tabs : tab[t] # Idle => tab[t].pc \notin {"override", "expire"} /\ (tab[t].pc = "donate" => tab[t].cust = None)
OneRow ==
  /\ \A k \in Rows : row[k].override = "none"
  /\ \A j, k \in Rows : row[j].user = row[k].user /\ row[k].user # None => j = k

LEMMA QueueIdle ==
  ASSUME \A w \in Workers : worker[w] = Idle
  PROVE  Queue = feed
<1>1. Unanswered = {}
  BY DEF Unanswered
<1> QED BY <1>1 DEF Queue

LEMMA QueueBusy ==
  ASSUME IInv, OneDelivery, NEW w \in Workers, worker[w] # Idle
  PROVE  /\ worker[w].event \in Events /\ feed \in Seq(Events)
         /\ Queue = <<worker[w].event>> \o feed
         /\ Queue \in Seq(Events) /\ Queue # <<>> /\ Queue[1] = worker[w].event /\ Tail(Queue) = feed
<1>1. PICK e : e = worker[w].event
  OBVIOUS
<1>2. e \in Events /\ feed \in Seq(Events)
  BY <1>1, Facts DEF Deliveries
<1>3. Unanswered = {e}
  BY <1>1 DEF Unanswered, OneDelivery
<1>4. (CHOOSE x \in Unanswered : TRUE) = e
  BY <1>3
<1>5. PICK one : one = <<e>>
  OBVIOUS
<1>6. one \in Seq(Events) /\ Len(one) = 1 /\ one[1] = e
  BY <1>2, <1>5
<1>7. Queue = one \o feed
  BY <1>3, <1>4, <1>5 DEF Queue
<1>8. PICK q : q = one \o feed
  OBVIOUS
<1>9. /\ q \in Seq(Events) /\ Len(q) = 1 + Len(feed) /\ Len(feed) \in Nat
      /\ \A i \in 1 .. 1 + Len(feed) : q[i] = IF i <= 1 THEN one[i] ELSE feed[i - 1]
  <2>1. /\ q \in Seq(Events) /\ Len(q) = Len(one) + Len(feed)
        /\ \A i \in 1 .. Len(one) + Len(feed) : q[i] = IF i <= Len(one) THEN one[i] ELSE feed[i - Len(one)]
    BY <1>2, <1>6, <1>8, ConcatProperties
  <2>2. Len(feed) \in Nat
    BY <1>2, LenProperties
  <2> QED BY <1>6, <2>1, <2>2
<1>10. q # <<>> /\ q[1] = e
  <2>1. Len(q) # 0
    BY <1>9
  <2>2. 1 \in 1 .. 1 + Len(feed)
    BY <1>9
  <2> QED BY <1>6, <1>9, <2>1, <2>2, EmptySeq
<1>11. Tail(q) = feed
  <2>1. /\ Tail(q) \in Seq(Events) /\ Len(Tail(q)) = Len(q) - 1
        /\ \A i \in 1 .. Len(Tail(q)) : Tail(q)[i] = q[i + 1]
    BY <1>9, <1>10, HeadTailProperties
  <2>2. Len(Tail(q)) = Len(feed)
    BY <1>9, <2>1
  <2>3. ASSUME NEW i \in 1 .. Len(Tail(q)) PROVE Tail(q)[i] = feed[i]
    <3>1. PICK k : k = i + 1
      OBVIOUS
    <3>2. k \in 1 .. 1 + Len(feed) /\ ~(k <= 1) /\ k - 1 = i
      BY <1>9, <2>2, <2>3, <3>1
    <3>3. q[k] = feed[i]
      BY <1>9, <3>2
    <3> QED BY <2>1, <2>3, <3>1, <3>3
  <2> QED BY <1>2, <2>1, <2>2, <2>3, SeqEqual
<1> QED BY <1>1, <1>2, <1>5, <1>7, <1>8, <1>9, <1>10, <1>11

LEMMA QueueType ==
  ASSUME IInv, OneDelivery
  PROVE  Queue \in Seq(Events)
<1>1. CASE \A w \in Workers : worker[w] = Idle
  BY <1>1, QueueIdle, Facts
<1>2. CASE \E w \in Workers : worker[w] # Idle
  BY <1>2, QueueBusy
<1> QED BY <1>1, <1>2

LEMMA QueueStays ==
  ASSUME UNCHANGED <<worker, feed>>
  PROVE  Queue' = Queue /\ (OneDelivery => OneDelivery')
BY DEF Queue, Unanswered, OneDelivery

\* A handler goes on with its event.
LEMMA QueueKept ==
  ASSUME IInv, OneDelivery, NEW w \in Workers, worker[w] # Idle, NEW d, d # Idle, d.event = worker[w].event,
         worker' = [worker EXCEPT ![w] = d], UNCHANGED feed
  PROVE  /\ Queue' = Queue /\ OneDelivery' /\ worker'[w] = d
         /\ \A v \in Workers : worker'[v] # Idle => v = w
<1>1. worker'[w] = d /\ \A v \in Workers : v # w => worker'[v] = worker[v]
  BY Facts
<1>2. \A v \in Workers : (worker'[v] # Idle <=> worker[v] # Idle) /\ worker'[v].event = worker[v].event
  BY <1>1
<1>3. Unanswered' = Unanswered
  BY <1>2 DEF Unanswered
<1> QED BY <1>1, <1>2, <1>3 DEF Queue, OneDelivery

\* The event is answered: the queue goes on.
LEMMA QueueAnswered ==
  ASSUME IInv, OneDelivery, NEW w \in Workers, worker[w] # Idle, Answer(w), UNCHANGED feed
  PROVE  Queue' = Tail(Queue) /\ OneDelivery' /\ \A v \in Workers : worker'[v] = Idle
<1>1. worker'[w] = Idle /\ \A v \in Workers : v # w => worker'[v] = worker[v]
  BY Facts DEF Answer, Go
<1>2. \A v \in Workers : worker'[v] = Idle
  BY <1>1 DEF OneDelivery
<1>3. Unanswered' = {}
  BY <1>2 DEF Unanswered
<1>4. Queue' = feed
  BY <1>3 DEF Queue
<1> QED BY <1>2, <1>4, QueueBusy DEF OneDelivery

\* Stripe tells more.
LEMMA QueueMore ==
  ASSUME IInv, OneDelivery, UNCHANGED worker, NEW es \in Seq(Events), feed' = feed \o es
  PROVE  Queue' = Queue \o es /\ OneDelivery'
<1>1. Unanswered' = Unanswered /\ OneDelivery'
  BY DEF Unanswered, OneDelivery
<1>2. CASE \A w \in Workers : worker[w] = Idle
  <2>1. Unanswered = {}
    BY <1>2 DEF Unanswered
  <2> QED BY <1>1, <2>1 DEF Queue
<1>3. CASE \E w \in Workers : worker[w] # Idle
  <2>1. PICK w \in Workers : worker[w] # Idle
    BY <1>3
  <2>2. PICK e, one : e = worker[w].event /\ one = <<e>>
    OBVIOUS
  <2>3. e \in Events /\ feed \in Seq(Events) /\ Queue = one \o feed
    BY <2>1, <2>2, QueueBusy
  <2>4. one \in Seq(Events)
    BY <2>2, <2>3
  <2>5. Unanswered = {e}
    BY <2>1, <2>2 DEF Unanswered, OneDelivery
  <2>6. Queue' = one \o feed'
    BY <1>1, <2>2, <2>5 DEF Queue
  <2>7. (one \o feed) \o es = one \o (feed \o es)
    BY <2>3, <2>4, ConcatAssociative
  <2> QED BY <1>1, <2>3, <2>6, <2>7
<1> QED BY <1>2, <1>3

-----------------------------------------------------------------------------
(* One event at a time is delivered.                                       *)

LEMMA CalmFacts ==
  ASSUME IInv, Calm
  PROVE  setting.calm /\ setting.grants = {} /\ setting.workers <= 1 /\ setting.workers \in Nat
BY Facts, SettingsAssumption DEF Calm

LEMMA NobodyBusy ==
  ASSUME IInv, Calm, NEW w \in Workers, Deliver(w)
  PROVE  \A v \in Workers : worker[v] = Idle
<1>1. PICK busy, n : busy = {v \in Workers : worker[v] # Idle} /\ n = Cardinality(busy)
  OBVIOUS
<1>2. n < setting.workers
  BY <1>1 DEF Deliver
<1>3. IsFiniteSet(busy)
  BY <1>1, BoundsAssumption, FS_Subset
<1>4. n \in Nat
  BY <1>1, <1>3, FS_CardinalityType
<1>5. n = 0
  BY <1>2, <1>4, CalmFacts
<1>6. busy = {}
  BY <1>1, <1>3, <1>5, FS_EmptySet
<1> QED BY <1>1, <1>6

\* The next event is delivered.
LEMMA QueueDelivered ==
  ASSUME IInv, Calm, NEW w \in Workers, Deliver(w)
  PROVE  /\ Queue' = Queue /\ OneDelivery' /\ \A v \in Workers \ {w} : worker'[v] = Idle
         /\ \E e \in Events : worker'[w] = [pc |-> e.kind, event |-> e, user |-> None, row |-> None, tier |-> "free"]
<1>0. setting.calm /\ feed \in Seq(Events) /\ \A v \in Workers : worker[v] = Idle
  BY CalmFacts, Facts, NobodyBusy
<1>1. PICK i \in 1 .. (IF setting.calm THEN 1 ELSE Len(feed)), again \in BOOLEAN :
        /\ i <= Len(feed)
        /\ again => ~setting.calm /\ faults < setting.faults
        /\ feed' = IF again THEN feed ELSE SubSeq(feed, 1, i - 1) \o SubSeq(feed, i + 1, Len(feed))
        /\ worker' = [worker EXCEPT ![w] =
             [pc |-> feed[i].kind, event |-> feed[i], user |-> None, row |-> None, tier |-> "free"]]
  BY DEF Deliver
<1>2. i = 1 /\ ~again /\ Len(feed) \in Nat /\ 1 <= Len(feed)
  BY <1>0, <1>1, LenProperties
<1>3. PICK e, d : e = feed[1] /\ d = [pc |-> e.kind, event |-> e, user |-> None, row |-> None, tier |-> "free"]
  OBVIOUS
<1>4. worker'[w] = d /\ (\A v \in Workers : v # w => worker'[v] = Idle) /\ worker' = [worker EXCEPT ![w] = d]
  BY <1>0, <1>1, <1>2, <1>3, Facts
<1>5. e \in Events
  BY <1>0, <1>2, <1>3, ElementOfSeq
<1>6. d # Idle /\ d.event = e
  BY <1>3 DEF Idle
<1>7. Unanswered' = {e}
  BY <1>4, <1>6 DEF Unanswered
<1>8. Queue' = <<e>> \o feed'
  BY <1>7 DEF Queue
\* The head and the tail make up the feed.
<1>9. <<e>> \o feed' = feed
  <2>1. PICK n : n = Len(feed)
    OBVIOUS
  <2>2. 1 \in 1 .. n /\ n \in 1 .. n
    BY <1>2, <2>1
  <2>3. SubSeq(feed, 1, n) = <<feed[1]>> \o SubSeq(feed, 1 + 1, n)
    BY <1>0, <2>1, <2>2, SubSeqRecursiveFirst
  <2>4. SubSeq(feed, 1, n) = feed
    BY <1>0, <2>1, SubSeqFull
  <2>5. feed' = SubSeq(feed, 1, 1 - 1) \o SubSeq(feed, 1 + 1, n)
    BY <1>1, <1>2, <2>1
  <2>6. SubSeq(feed, 1, 1 - 1) = <<>>
    BY SubSeqEmpty
  <2>7. \A k \in 1 + 1 .. n : feed[k] \in Events
    BY <1>0, <2>1, <1>2, ElementOfSeq
  <2>8. SubSeq(feed, 1 + 1, n) \in Seq(Events)
    BY <1>2, <2>1, <2>7, SubSeqProperties
  <2>9. feed' = SubSeq(feed, 1 + 1, n)
    BY <2>5, <2>6, <2>8, ConcatEmptySeq
  <2> QED BY <1>3, <2>3, <2>4, <2>9
<1>10. Queue' = Queue
  BY <1>0, <1>8, <1>9, QueueIdle
<1>11. OneDelivery'
  BY <1>4 DEF OneDelivery
<1> QED BY <1>3, <1>4, <1>5, <1>10, <1>11

\* What was at work is the first to be sent again.
LEMMA QueueCrashed ==
  ASSUME IInv, OneDelivery, Crash
  PROVE  Queue' = Queue /\ OneDelivery' /\ \A v \in Workers : worker'[v] = Idle
<1>1. \A v \in Workers : worker'[v] = Idle
  BY DEF Crash
<1>2. Unanswered' = {} /\ OneDelivery'
  BY <1>1 DEF Unanswered, OneDelivery
<1>3. Queue' = feed'
  BY <1>2 DEF Queue
<1>4. PICK n : n = Cardinality(Unanswered)
  OBVIOUS
<1>5. PICK again : again \in [1 .. n -> Unanswered] /\ feed' = again \o feed
  BY <1>4 DEF Crash
<1>6. CASE \A v \in Workers : worker[v] = Idle
  <2>1. Unanswered = {}
    BY <1>6 DEF Unanswered
  <2>2. n = 0
    BY <1>4, <2>1, FS_EmptySet
  <2>3. 1 .. n = {}
    BY <2>2
  <2>4. again = <<>>
    <3>1. again \in [1 .. 0 -> Events]
      BY <1>5, <2>1, <2>2, <2>3
    <3>2. again \in Seq(Events) /\ Len(again) = 0
      BY <3>1, SeqDef
    <3> QED BY <3>2, EmptySeq
  <2> QED BY <1>2, <1>1, <1>3, <1>5, <1>6, <2>4, QueueIdle, Facts, ConcatEmptySeq
<1>7. CASE \E v \in Workers : worker[v] # Idle
  <2>1. PICK w \in Workers : worker[w] # Idle
    BY <1>7
  <2>2. PICK e, one : e = worker[w].event /\ one = <<e>>
    OBVIOUS
  <2>3. e \in Events /\ Queue = one \o feed
    BY <2>1, <2>2, QueueBusy
  <2>4. Unanswered = {e}
    BY <2>1, <2>2 DEF Unanswered, OneDelivery
  <2>5. n = 1
    BY <1>4, <2>4, FS_Singleton
  <2>6. again \in [1 .. 1 -> {e}]
    BY <1>5, <2>4, <2>5
  <2>7. again = one
    BY <2>2, <2>6
  <2> QED BY <1>1, <1>2, <1>3, <1>5, <2>3, <2>7
<1> QED BY <1>6, <1>7

\* Stripe turns a subscription y to t, and tells it.
Tells(y, t, es) ==
  /\ Change(y, t) /\ UNCHANGED worker /\ es \in Seq(Events) /\ feed' = feed \o es
  /\ \A i \in DOMAIN es : es[i].sub = y
  /\ y \in Sales =>
       /\ Turns(y, stripe[y], t, es) /\ t.meta = "session" /\ t.user # None
       /\ Opens(stripe[y], t, es) \/ t.user = stripe[y].user
       /\ Pays(stripe[y], t, es) => \A x \in Sales : Sibling(y, x) => ~Live(x)
  /\ y \in Gifts => t.cust = None

LEMMA TellsFacts ==
  ASSUME IInv, OneDelivery, NEW y \in Subs, NEW t, NEW es, Tells(y, t, es)
  PROVE  /\ Queue \in Seq(Events) /\ es \in Seq(Events) /\ Queue' = Queue \o es /\ OneDelivery'
         /\ stripe'[y] = t /\ \A x \in Subs : x # y => stripe'[x] = stripe[x]
         /\ \A s \in Sales : s \in Subs
         /\ \A d \in Gifts : d \in Subs /\ d \notin Sales
<1>1. Queue' = Queue \o es /\ OneDelivery'
  BY QueueMore DEF Tells
<1>2. stripe' = [stripe EXCEPT ![y] = t] /\ stripe \in [Subs -> Charged]
  BY Facts DEF Tells, Change
<1> QED BY <1>1, <1>2, QueueType, SubsAssumption DEF Tells, Subs

LEMMA TellsStories ==
  ASSUME IInv, OneDelivery, Stories, Bought, NEW y \in Subs, NEW t, NEW es, Tells(y, t, es)
  PROVE  Stories' /\ Bought'
<1>1. PICK q, p : q = Queue /\ p = Queue'
  OBVIOUS
<1>2. /\ q \in Seq(Events) /\ es \in Seq(Events) /\ p = q \o es
      /\ stripe'[y] = t /\ \A x \in Subs : x # y => stripe'[x] = stripe[x]
      /\ \A s \in Sales : s \in Subs
      /\ \A d \in Gifts : d \in Subs /\ d \notin Sales
  BY <1>1, TellsFacts
<1>3. ASSUME NEW s \in Sales PROVE Story(p, s, stripe'[s])
  <2>1. Story(q, s, stripe[s])
    BY <1>1 DEF Stories
  <2>2. CASE s = y
    BY <1>2, <2>1, <2>2, StoryTurns DEF Tells
  <2>3. CASE s # y
    <3>1. \A i \in DOMAIN es : es[i].sub # s
      BY <2>3 DEF Tells
    <3>2. PICK r : r = stripe[s]
      OBVIOUS
    <3>3. Story(p, s, r)
      BY <1>2, <2>1, <3>1, <3>2, StoryAside
    <3> QED BY <1>2, <2>3, <3>2, <3>3
  <2> QED BY <2>2, <2>3
<1>4. Stories'
  BY <1>1, <1>3 DEF Stories
<1>5. Bought'
  BY <1>2 DEF Bought, Tells
<1> QED BY <1>4, <1>5

LEMMA BeforePays ==
  ASSUME NEW q \in Seq(Events), NEW s, NEW r, NEW t, NEW es \in Seq(Events), \A i \in DOMAIN es : es[i].sub = s,
         Pays(r, t, es), NEW x, x # s
  PROVE  Before(q \o es, x, s)
<1>1. PICK p, n : p = q \o es /\ n = Len(q)
  OBVIOUS
<1>2. /\ n \in Nat /\ DOMAIN q = 1 .. n
      /\ \A i \in DOMAIN es : n + i \in DOMAIN p /\ p[n + i] = es[i]
      /\ \A i \in DOMAIN p : i \in DOMAIN q \/ (i > n /\ i - n \in DOMAIN es /\ p[i] = es[i - n])
  BY <1>1, Longer
<1>3. 1 \in DOMAIN es /\ es[1].kind = "checkout" /\ es[1].sub = s
  BY DEF Pays
<1>4. PICK c : c = n + 1
  OBVIOUS
<1>5. c \in Told(p, "checkout", s)
  BY <1>2, <1>3, <1>4 DEF Told
<1>6. ASSUME NEW j \in DOMAIN p, p[j].sub = x PROVE j < c
  <2>1. j \in DOMAIN q
    BY <1>2, <1>6
  <2> QED BY <1>2, <1>4, <2>1
<1> QED BY <1>1, <1>5, <1>6 DEF Before

LEMMA TellsOneLive ==
  ASSUME IInv, OneDelivery, Stories, OneLive, NEW y \in Subs, NEW t, NEW es, Tells(y, t, es)
  PROVE  OneLive'
<1>1. PICK q, p : q = Queue /\ p = Queue'
  OBVIOUS
<1>2. /\ q \in Seq(Events) /\ es \in Seq(Events) /\ p = q \o es
      /\ stripe'[y] = t /\ \A x \in Subs : x # y => stripe'[x] = stripe[x]
      /\ \A s \in Sales : s \in Subs
  BY <1>1, TellsFacts
<1>3. \A i \in DOMAIN es : es[i].sub = y
  BY DEF Tells
<1>4. ASSUME NEW s \in Sales, NEW x \in Sales, Live(s)', x # s, stripe'[x].user = stripe'[s].user
      PROVE  ~Live(x)' /\ Before(p, x, s)
  <2>1. CASE s # y /\ x # y
    <3>1. Live(s) /\ Sibling(s, x) /\ (Live(x)' <=> Live(x))
      BY <1>2, <1>4, <2>1 DEF Live, Sibling
    <3>2. Before(q, x, s) /\ ~Live(x)
      BY <1>1, <3>1 DEF OneLive
    <3>3. \A i \in DOMAIN es : es[i].sub # x
      BY <1>3, <2>1
    <3> QED BY <1>2, <3>1, <3>2, <3>3, BeforeStays
  <2>2. CASE s = y
    <3>1. Turns(y, stripe[y], t, es) /\ Lives(t) /\ Story(q, y, stripe[y]) /\ stripe'[x] = stripe[x]
      BY <1>1, <1>2, <1>4, <2>2 DEF Tells, Live, Lives, Stories
    <3>2. Lives(stripe[y]) \/ Pays(stripe[y], t, es)
      BY <1>2, <3>1, TurnsShow
    <3>3. Sibling(y, x)
      BY <1>2, <1>4, <2>2, <3>1 DEF Tells, Opens, Lives, Sibling, LiveStatuses
    <3>4. \A i \in DOMAIN es : es[i].sub # x
      BY <1>3, <1>4, <2>2
    <3>5. CASE Lives(stripe[y])
      <4>1. ~Live(x) /\ Before(q, x, y)
        BY <1>1, <2>2, <3>3, <3>5 DEF OneLive, Lives, Live
      <4> QED BY <1>2, <2>2, <3>1, <3>4, <4>1, BeforeStays DEF Live
    <3>6. CASE Pays(stripe[y], t, es)
      <4>1. ~Live(x)
        BY <2>2, <3>3, <3>6 DEF Tells
      <4>2. Before(p, x, y)
        BY <1>2, <1>3, <1>4, <2>2, <3>6, BeforePays
      <4> QED BY <2>2, <3>1, <4>1, <4>2 DEF Live
    <3> QED BY <3>2, <3>5, <3>6
  <2>3. CASE x = y
    <3>1. Turns(y, stripe[y], t, es) /\ Live(s) /\ stripe'[s] = stripe[s] /\ Story(q, y, stripe[y])
      BY <1>1, <1>2, <1>4, <2>3 DEF Tells, Live, Stories
    <3>2. Opens(stripe[y], t, es)
      <4>1. SUFFICES ASSUME ~Opens(stripe[y], t, es) PROVE FALSE
        OBVIOUS
      <4>2. Sibling(s, y) /\ Sibling(y, s)
        BY <1>2, <1>4, <2>3, <3>1, <4>1 DEF Tells, Sibling
      <4>3. ~Live(y)
        BY <2>3, <3>1, <4>2 DEF OneLive
      <4>4. Pays(stripe[y], t, es)
        BY <3>1, <4>1, <4>3 DEF Turns, Live, Lives, Renews, Updates, Ends, LiveStatuses
      <4> QED BY <2>3, <3>1, <4>2, <4>4 DEF Tells
    <3>3. t.status = "open" /\ es = <<>>
      BY <3>2 DEF Opens
    <3>4. \A i \in DOMAIN q : q[i].sub # y
      BY <1>2, <3>1, <3>2, TurnsShow
    <3>5. Before(p, y, s)
      BY <1>2, <3>3, <3>4, ConcatEmptySeq DEF Before
    <3> QED BY <1>2, <2>3, <3>3, <3>5 DEF Live, LiveStatuses
  <2> QED BY <2>1, <2>2, <2>3
<1> QED BY <1>1, <1>4 DEF OneLive, Sibling

\* The row k says what Stripe does of s, once no update of s is to be handled.
Says(k, s) == row[k].tier = stripe[s].tier /\ row[k].ending = stripe[s].ending /\ row[k].status = stripe[s].status
Silent(s) == Told(Queue, "updated", s) = {}
AllSay(s) == Live(s) /\ Silent(s) => \A k \in Rows : row[k].sub = s => Says(k, s)
\* A sale has its row from its checkout on, and until its end.
CalmRows ==
  /\ \A s \in Sales : Live(s) /\ Told(Queue, "checkout", s) = {} => (\E k \in Rows : row[k].sub = s) /\ AllSay(s)
  /\ \A k \in Rows : row[k].sub # None => Live(row[k].sub) \/ Told(Queue, "deleted", row[k].sub) # {}
\* What a delivery has found.
DeliveryCalm(d) ==
  LET s == d.event.sub IN
  /\ d.event.kind = "checkout" /\ d.pc = "save" =>
       IF d.row = None THEN RowsOf(d.user) = {} ELSE row[d.row].user = d.user
  /\ d.event.kind = "checkout" /\ d.pc \in {"find", "save"} /\ Live(s) /\ Silent(s) => d.tier = stripe[s].tier
  /\ d.event.kind = "checkout" /\ d.pc = "link" => (\E k \in Rows : row[k].sub = s) /\ AllSay(s)
  /\ d.event.kind \in {"updated", "deleted"} /\ d.pc = "write" => row[d.row].sub = s
  /\ d.event.kind \in {"succeeded", "failed"} /\ d.pc \in {"find", "record", "status"} =>
       s \in Sales /\ d.user = stripe[s].user
  /\ d.event.kind \in {"succeeded", "failed"} /\ d.pc \in {"record", "status"} /\ d.row # None => row[d.row].user = d.user
DeliveriesCalm == \A w \in Workers : worker[w] # Idle => DeliveryCalm(worker[w])

LEMMA TellsShow ==
  ASSUME IInv, OneDelivery, Stories, NEW y \in Subs, NEW t, NEW es, Tells(y, t, es), NEW s \in Sales
  PROVE  /\ Live(s)' => Live(s) \/ (Told(Queue', "checkout", s) # {} /\ \A i \in DOMAIN Queue : Queue[i].sub # s)
         /\ Live(s)' /\ Live(s) /\ Silent(s)' => Silent(s) /\ stripe'[s] = stripe[s]
         /\ Live(s) => Live(s)' \/ Told(Queue', "deleted", s) # {}
         /\ (\E i \in DOMAIN Queue : Queue[i].sub = s) => stripe'[s].user = stripe[s].user
         /\ \A kind : Told(Queue, kind, s) # {} => Told(Queue', kind, s) # {}
<1>1. PICK q, p : q = Queue /\ p = Queue'
  OBVIOUS
<1>2. /\ q \in Seq(Events) /\ es \in Seq(Events) /\ p = q \o es
      /\ stripe'[y] = t /\ (s # y => stripe'[s] = stripe[s])
  BY <1>1, TellsFacts
<1>3. ASSUME NEW kind PROVE Told(p, kind, s) = {} <=> Told(q, kind, s) = {} /\ Told(es, kind, s) = {}
  BY <1>2, ToldMore
<1>4. Live(s) <=> Lives(stripe[s])
  BY DEF Live, Lives
<1>5. Live(s)' <=> Lives(stripe'[s])
  BY DEF Live, Lives
<1>6. Silent(s)' => Silent(s) /\ Told(es, "updated", s) = {}
  BY <1>1, <1>3 DEF Silent
<1>7. CASE s # y
  BY <1>1, <1>2, <1>3, <1>4, <1>5, <1>6, <1>7
<1>8. CASE s = y
  <2>0. Turns(s, stripe[s], t, es) /\ Story(q, s, stripe[s])
    BY <1>1, <1>8 DEF Tells, Stories
  <2>1. PICK r : r = stripe[s]
    OBVIOUS
  <2>2. /\ Lives(t) => Lives(r) \/ Pays(r, t, es)
        /\ Pays(r, t, es) => Told(es, "checkout", s) # {} /\ \A i \in DOMAIN q : q[i].sub # s
        /\ Opens(r, t, es) => \A i \in DOMAIN q : q[i].sub # s
        /\ Lives(t) /\ Told(es, "checkout", s) = {} /\ Told(es, "updated", s) = {} => t = r
        /\ Lives(r) => Lives(t) \/ Told(es, "deleted", s) # {}
    BY <1>2, <2>0, <2>1, TurnsShow
  <2>3. Lives(t) /\ Lives(r) => Told(es, "checkout", s) = {}
    BY <2>0, <2>1 DEF Turns, Opens, Pays, Renews, Updates, Ends, Lives, Told, LiveStatuses
  <2>4. Opens(r, t, es) \/ t.user = r.user
    BY <1>8, <2>1 DEF Tells
  <2>5. Live(s)' => Live(s) \/ (Told(p, "checkout", s) # {} /\ \A i \in DOMAIN q : q[i].sub # s)
    BY <1>2, <1>3, <1>4, <1>5, <1>8, <2>1, <2>2
  <2>6. Live(s)' /\ Live(s) /\ Silent(s)' => Silent(s) /\ stripe'[s] = stripe[s]
    BY <1>2, <1>4, <1>5, <1>6, <1>8, <2>1, <2>2, <2>3
  <2>7. Live(s) => Live(s)' \/ Told(p, "deleted", s) # {}
    BY <1>2, <1>3, <1>4, <1>5, <1>8, <2>1, <2>2
  <2>8. (\E i \in DOMAIN q : q[i].sub = s) => stripe'[s].user = stripe[s].user
    BY <1>2, <1>8, <2>1, <2>2, <2>4
  <2> QED BY <1>1, <1>3, <2>5, <2>6, <2>7, <2>8
<1> QED BY <1>7, <1>8

LEMMA TellsRows ==
  ASSUME IInv, OneDelivery, Stories, CalmRows, NEW y \in Subs, NEW t, NEW es, Tells(y, t, es), UNCHANGED row
  PROVE  CalmRows'
<1>1. ASSUME NEW s \in Sales, Live(s)', Told(Queue', "checkout", s) = {}
      PROVE  (\E k \in Rows : row[k].sub = s) /\ AllSay(s)'
  <2>1. Live(s)
    BY <1>1, TellsShow
  <2>2. Told(Queue, "checkout", s) = {}
    BY <1>1, TellsShow
  <2>3. Silent(s)' => Silent(s) /\ stripe'[s] = stripe[s]
    BY <1>1, <2>1, TellsShow
  <2>4. (\E k \in Rows : row[k].sub = s) /\ AllSay(s)
    BY <2>1, <2>2 DEF CalmRows
  <2>5. AllSay(s)'
    BY <2>1, <2>3, <2>4 DEF AllSay, Says
  <2> QED BY <2>4, <2>5
<1>2. ASSUME NEW k \in Rows, row[k].sub # None PROVE Live(row[k].sub)' \/ Told(Queue', "deleted", row[k].sub) # {}
  <2>1. PICK s : s = row[k].sub
    OBVIOUS
  <2>2. s \in Sales
    BY <1>2, <2>1, Facts DEF Stored
  <2>3. Live(s) \/ Told(Queue, "deleted", s) # {}
    BY <1>2, <2>1 DEF CalmRows
  <2>4. Live(s)' \/ Told(Queue', "deleted", s) # {}
    BY <2>2, <2>3, TellsShow
  <2>5. row'[k].sub = s
    BY <2>1
  <2> QED BY <2>1, <2>4, <2>5 DEF Live
<1> QED BY <1>1, <1>2 DEF CalmRows, Live

LEMMA TellsDeliveries ==
  ASSUME IInv, OneDelivery, Stories, DeliveriesCalm, NEW y \in Subs, NEW t, NEW es, Tells(y, t, es), UNCHANGED row
  PROVE  DeliveriesCalm'
<1>0. UNCHANGED worker
  BY DEF Tells
<1>1. ASSUME NEW w \in Workers, NEW d, d = worker[w], d # Idle PROVE DeliveryCalm(d)'
  <2>1. PICK s : s = d.event.sub
    OBVIOUS
  <2>2. DeliveryCalm(d) /\ DeliveryOK(d)
    BY <1>1, Facts DEF DeliveriesCalm
  <2>3. Queue \in Seq(Events) /\ Queue # <<>> /\ Queue[1] = d.event
    BY <1>1, QueueBusy
  <2>4. \E i \in DOMAIN Queue : Queue[i].sub = s
    BY <2>1, <2>3, HeadTold
  <2>5. s \in Sales => (Live(s)' => Live(s)) /\ stripe'[s].user = stripe[s].user
    BY <2>4, TellsShow
  <2>6. s \in Sales => (Live(s)' /\ Silent(s)' => Live(s) /\ Silent(s) /\ stripe'[s] = stripe[s])
    BY <2>5, TellsShow
  <2>7. d.event.kind = "checkout" /\ d.pc \in {"find", "save", "link"} => s \in Sales
    BY <2>1, <2>2 DEF DeliveryOK
  <2>8. s \in Sales => (AllSay(s) => AllSay(s)')
    BY <2>6 DEF AllSay, Says
  <2>9. RowsOf(d.user)' = RowsOf(d.user)
    BY DEF RowsOf
  <2> QED BY <2>1, <2>2, <2>5, <2>6, <2>7, <2>8, <2>9 DEF DeliveryCalm
<1> QED BY <1>0, <1>1 DEF DeliveriesCalm

\* What a request may count on between telling Stripe and writing its row.
RequestCalm(r) ==
  LET s == r.sub IN
  /\ r.pc \in {"cancelNow", "cancelLater", "reactivate", "cancelled", "ending", "renewing"} =>
       s \in Sales /\ stripe[s].status # "none" /\ stripe[s].user = r.user /\ row[r.row].user = r.user
  /\ r.pc \in {"cancelled", "ending", "renewing"} => \A x \in Sales : Sibling(s, x) => ~Live(x)
  /\ r.pc = "cancelled" => ~Live(s)
  /\ r.pc = "ending" => (Live(s) => stripe[s].ending)
  /\ r.pc = "renewing" => (Live(s) => ~stripe[s].ending)
RequestsCalm == \A t \in Tabs : tab[t] # Idle => RequestCalm(tab[t])

\* No subscription of the user of r starts, or changes its end, in a turn of y.
Apart(r, y, t) ==
  y \in Sales /\ stripe[y].user = r.user /\ Lives(t) => Lives(stripe[y]) /\ t.ending = stripe[y].ending

LEMMA TellsRequest ==
  ASSUME IInv, StripeKept, OneDelivery, NEW y \in Subs, NEW t, NEW es, Tells(y, t, es), UNCHANGED row,
         NEW r, RequestCalm(r), Apart(r, y, t)
  PROVE  RequestCalm(r)'
<1>1. /\ stripe'[y] = t /\ \A x \in Subs : x # y => stripe'[x] = stripe[x]
      /\ \A s \in Sales : s \in Subs
  BY TellsFacts
<1>2. \A s \in Sales : stripe[s].status # "none" => stripe'[s].status # "none" /\ stripe'[s].user = stripe[s].user
  BY DEF StripeKept
<1>3. CASE r.pc \notin {"cancelNow", "cancelLater", "reactivate", "cancelled", "ending", "renewing"}
  BY <1>3 DEF RequestCalm
<1>4. CASE r.pc \in {"cancelNow", "cancelLater", "reactivate", "cancelled", "ending", "renewing"}
  <2>1. PICK s : s = r.sub
    OBVIOUS
  <2>2. s \in Sales /\ stripe[s].status # "none" /\ stripe[s].user = r.user /\ row[r.row].user = r.user
    BY <1>4, <2>1 DEF RequestCalm
  <2>3. stripe'[s].status # "none" /\ stripe'[s].user = r.user /\ row'[r.row].user = r.user
    BY <1>2, <2>2
  <2>4. Live(s)' => Live(s) /\ stripe'[s].ending = stripe[s].ending
    <3>1. CASE s # y
      BY <1>1, <2>2, <3>1 DEF Live
    <3>2. CASE s = y
      BY <1>1, <2>2, <3>2 DEF Apart, Live, Lives
    <3> QED BY <3>1, <3>2
  <2>5. ASSUME r.pc \in {"cancelled", "ending", "renewing"}, NEW x \in Sales, x # s, stripe'[x].user = stripe'[s].user
        PROVE  ~Live(x)'
    <3>1. stripe[x].user = r.user => ~Live(x)
      BY <2>1, <2>2, <2>5 DEF RequestCalm, Sibling
    <3>2. CASE x # y
      BY <1>1, <2>3, <2>5, <3>1, <3>2 DEF Live
    <3>3. CASE x = y
      <4>1. CASE Opens(stripe[y], t, es)
        BY <1>1, <3>3, <4>1 DEF Opens, Live, LiveStatuses
      <4>2. CASE ~Opens(stripe[y], t, es)
        <5>1. stripe[y].user = r.user
          BY <1>1, <2>3, <2>5, <3>3, <4>2 DEF Tells
        <5> QED BY <1>1, <3>1, <3>3, <5>1 DEF Apart, Live, Lives
      <4> QED BY <4>1, <4>2
    <3> QED BY <3>2, <3>3
  <2>6. r.pc \in {"cancelled", "ending", "renewing"} => \A x \in Sales : Sibling(s, x)' => ~Live(x)'
    BY <2>5 DEF Sibling
  <2>7. r.pc = "cancelled" => ~Live(s)'
    BY <2>1, <2>4 DEF RequestCalm
  <2>8. r.pc = "ending" => (Live(s)' => stripe'[s].ending)
    BY <2>1, <2>4 DEF RequestCalm
  <2>9. r.pc = "renewing" => (Live(s)' => ~stripe'[s].ending)
    BY <2>1, <2>4 DEF RequestCalm
  <2> QED BY <2>1, <2>2, <2>3, <2>6, <2>7, <2>8, <2>9 DEF RequestCalm, Sibling
<1> QED BY <1>3, <1>4

\* The snapshots of the events are those of the step.
LEMMA Snapshot ==
  ASSUME StripeKept, NEW s \in Subs, NEW kind \in Kinds, NEW n \in 0 .. MaxInvoices, NEW e, e = Event(kind, s, n)
  PROVE  /\ e \in Events /\ e.kind = kind /\ e.sub = s
         /\ e.status = stripe'[s].status /\ e.tier = stripe'[s].tier /\ e.ending = stripe'[s].ending
<1>1. e \in Events /\ e.kind = kind /\ e.sub = s /\ e.status = stripe'[s].status
  BY EventsOf
<1>2. e.tier = stripe'[s].tier /\ e.ending = stripe'[s].ending
  BY DEF Event
<1> QED BY <1>1, <1>2

LEMMA SaysOne ==
  ASSUME StripeKept, NEW s \in Subs, NEW kind \in Kinds, NEW n \in 0 .. MaxInvoices, Emit(<<Event(kind, s, n)>>)
  PROVE  \E es \in Seq(Events) :
           /\ feed' = feed \o es /\ DOMAIN es = {1} /\ es[1].kind = kind /\ es[1].sub = s
           /\ es[1].status = stripe'[s].status /\ es[1].tier = stripe'[s].tier /\ es[1].ending = stripe'[s].ending
<1>1. PICK e : e = Event(kind, s, n)
  OBVIOUS
<1>2. /\ e \in Events /\ e.kind = kind /\ e.sub = s
      /\ e.status = stripe'[s].status /\ e.tier = stripe'[s].tier /\ e.ending = stripe'[s].ending
  BY <1>1, Snapshot
<1>3. PICK es : es = <<e>>
  OBVIOUS
<1>4. es \in Seq(Events) /\ DOMAIN es = {1} /\ es[1] = e
  BY <1>2, <1>3
<1>5. feed' = feed \o es
  BY <1>1, <1>3 DEF Emit
<1> QED BY <1>2, <1>4, <1>5

LEMMA SaysTwo ==
  ASSUME StripeKept, NEW s \in Subs, NEW kind \in Kinds, NEW then \in Kinds, NEW n \in 0 .. MaxInvoices,
         Emit(<<Event(kind, s, n), Event(then, s, n)>>)
  PROVE  \E es \in Seq(Events) :
           /\ feed' = feed \o es /\ DOMAIN es = {1, 2} /\ es[1].kind = kind /\ es[1].sub = s
           /\ es[2].kind = then /\ es[2].sub = s
           /\ es[2].status = stripe'[s].status /\ es[2].tier = stripe'[s].tier /\ es[2].ending = stripe'[s].ending
<1>1. PICK e, f : e = Event(kind, s, n) /\ f = Event(then, s, n)
  OBVIOUS
<1>2. e \in Events /\ e.kind = kind /\ e.sub = s
  BY <1>1, Snapshot
<1>3. /\ f \in Events /\ f.kind = then /\ f.sub = s
      /\ f.status = stripe'[s].status /\ f.tier = stripe'[s].tier /\ f.ending = stripe'[s].ending
  BY <1>1, Snapshot
<1>4. PICK es : es = <<e, f>>
  OBVIOUS
<1>5. es \in Seq(Events) /\ DOMAIN es = {1, 2} /\ es[1] = e /\ es[2] = f
  BY <1>2, <1>3, <1>4
<1>6. feed' = feed \o es
  BY <1>1, <1>4 DEF Emit
<1> QED BY <1>2, <1>3, <1>5, <1>6

AllApart(y, t) == \A x \in Tabs : tab[x] # Idle => Apart(tab[x], y, t)

\* A subscription that is charged goes on: as a sale it keeps its user, as a gift it has no customer.
LEMMA GoesTo ==
  ASSUME IInv, Bought, NEW y \in Subs, NEW t, Change(y, t), UNCHANGED worker,
         NEW es \in Seq(Events), feed' = feed \o es, \A i \in DOMAIN es : es[i].sub = y,
         t.user = stripe[y].user, t.cust = stripe[y].cust, t.meta = stripe[y].meta \/ t.meta = "session",
         Pays(stripe[y], t, es) \/ Renews(stripe[y], t, es) \/ Updates(stripe[y], t, es) \/ Ends(stripe[y], t, es),
         Pays(stripe[y], t, es) => \A x \in Sales : y \in Sales /\ Sibling(y, x) => ~Live(x)
  PROVE  Tells(y, t, es)
<1>1. ASSUME y \in Sales PROVE t.meta = "session" /\ t.user # None
  <2>1. stripe[y].status # "none"
    BY DEF Pays, Renews, Updates, Ends, Lives, LiveStatuses
  <2> QED BY <1>1, <2>1 DEF Bought
<1>2. y \in Gifts => t.cust = None
  BY DEF Bought
<1> QED BY <1>1, <1>2 DEF Tells, Turns

LEMMA PayTells ==
  ASSUME IInv, StripeKept, Calm, Bought, NEW y \in Subs, Pay(y)
  PROVE  \E t, es : Tells(y, t, es) /\ AllApart(y, t)
<1>0. setting.calm /\ stripe[y] \in Charged /\ "checkout" \in Kinds /\ "succeeded" \in Kinds /\ 1 \in 0 .. MaxInvoices
  BY CalmFacts, StripeFacts, BoundsAssumption DEF Kinds
<1>1. PICK r : r = stripe[y]
  OBVIOUS
<1>2. Change(y, [r EXCEPT !.status = "active", !.meta = "session"])
  BY <1>0, <1>1 DEF Pay
<1>3. PICK t : t = [r EXCEPT !.status = "active", !.meta = "session"]
  OBVIOUS
<1>4. t.status = "active" /\ t.ending = r.ending /\ t.meta = "session" /\ t.user = r.user /\ t.cust = r.cust
  BY <1>0, <1>1, <1>3 DEF Charged
<1>5. Emit(<<Event("checkout", y, 1), Event("succeeded", y, 1)>>) /\ UNCHANGED worker /\ r.status = "open"
  BY <1>0, <1>1 DEF Pay, Charged, Known, Plain
<1>6. PICK es \in Seq(Events) :
        /\ feed' = feed \o es /\ DOMAIN es = {1, 2} /\ es[1].kind = "checkout" /\ es[1].sub = y
        /\ es[2].kind = "succeeded" /\ es[2].sub = y
  BY <1>0, <1>5, SaysTwo
<1>7. Pays(r, t, es) /\ \A i \in DOMAIN es : es[i].sub = y
  BY <1>4, <1>5, <1>6 DEF Pays
<1>8. y \in Sales => \A x \in Sales : Sibling(y, x) => ~Live(x)
  BY <1>0 DEF Pay, Sibling
<1>9. Tells(y, t, es)
  BY <1>1, <1>2, <1>3, <1>4, <1>5, <1>6, <1>7, <1>8, GoesTo
<1>10. AllApart(y, t)
  <2>1. ASSUME NEW x \in Tabs, tab[x] # Idle, y \in Sales, stripe[y].user = tab[x].user PROVE FALSE
    <3>1. stripe[y].user # None
      BY <1>1, <1>5, <2>1 DEF Bought
    <3>2. ~UserBusy(stripe[y].user)
      BY <1>0, <3>1 DEF Pay, UserMayAct
    <3> QED BY <2>1, <3>2 DEF UserBusy
  <2> QED BY <2>1 DEF AllApart, Apart
<1> QED BY <1>9, <1>10

LEMMA RenewTells ==
  ASSUME IInv, StripeKept, Bought, NEW y \in Subs, Renew(y, TRUE) \/ Renew(y, FALSE)
  PROVE  \E t, es : Tells(y, t, es) /\ AllApart(y, t)
<1>0. /\ stripe[y] \in Charged /\ stripe \in [Subs -> Charged] /\ UNCHANGED worker
      /\ "succeeded" \in Kinds /\ "failed" \in Kinds /\ "updated" \in Kinds
  BY StripeFacts, Facts DEF Kinds, Renew
<1>1. PICK r, n : r = stripe[y] /\ n = invoiced[y] + 1
  OBVIOUS
<1>2. n \in 0 .. MaxInvoices /\ r.status = "active"
  <2>1. invoiced' = [invoiced EXCEPT ![y] = n] /\ invoiced \in [Subs -> 0 .. MaxInvoices]
    BY <1>1, Facts DEF Renew
  <2>2. invoiced'[y] = n
    BY <2>1
  <2> QED BY <1>1, <2>2 DEF Renew, StripeKept
<1>3. CASE UNCHANGED stripe /\ Emit(<<Event("succeeded", y, n)>>)
  <2>1. PICK es \in Seq(Events) :
          feed' = feed \o es /\ DOMAIN es = {1} /\ es[1].kind = "succeeded" /\ es[1].sub = y
    <3>1. n \in 0 .. MaxInvoices /\ "succeeded" \in Kinds /\ Emit(<<Event("succeeded", y, n)>>)
      BY <1>0, <1>2, <1>3
    <3> QED BY <3>1, SaysOne
  <2>2. Change(y, r)
    BY <1>0, <1>1, <1>3 DEF Change
  <2>3. Renews(r, r, es) /\ ~Pays(r, r, es) /\ \A i \in DOMAIN es : es[i].sub = y
    BY <1>2, <2>1 DEF Renews, Pays
  <2>4. Tells(y, r, es)
    BY <1>0, <1>1, <2>1, <2>2, <2>3, GoesTo
  <2>5. AllApart(y, r)
    BY <1>1 DEF AllApart, Apart
  <2> QED BY <2>4, <2>5
<1>4. CASE /\ Change(y, [r EXCEPT !.status = "past_due"])
           /\ Emit(<<Event("failed", y, n), Event("updated", y, n)>>)
  <2>1. PICK t : t = [r EXCEPT !.status = "past_due"]
    OBVIOUS
  <2>2. t.status = "past_due" /\ t.ending = r.ending /\ t.meta = r.meta /\ t.user = r.user /\ t.cust = r.cust
    BY <1>0, <1>1, <2>1 DEF Charged
  <2>3. stripe'[y] = t /\ Change(y, t)
    BY <1>0, <1>4, <2>1 DEF Change
  <2>4. PICK es \in Seq(Events) :
          /\ feed' = feed \o es /\ DOMAIN es = {1, 2} /\ es[1].kind = "failed" /\ es[1].sub = y
          /\ es[2].kind = "updated" /\ es[2].sub = y
          /\ es[2].status = stripe'[y].status /\ es[2].tier = stripe'[y].tier /\ es[2].ending = stripe'[y].ending
    <3>1. n \in 0 .. MaxInvoices /\ Emit(<<Event("failed", y, n), Event("updated", y, n)>>)
      BY <1>2, <1>4
    <3> QED BY <1>0, <3>1, SaysTwo
  <2>5. Updates(r, t, es) /\ ~Pays(r, t, es) /\ \A i \in DOMAIN es : es[i].sub = y
    BY <1>2, <2>2, <2>3, <2>4 DEF Updates, Pays, Lives, LiveStatuses
  <2>6. Tells(y, t, es)
    BY <1>0, <1>1, <2>2, <2>3, <2>4, <2>5, GoesTo
  <2>7. AllApart(y, t)
    BY <1>1, <1>2, <2>2 DEF AllApart, Apart, Lives, LiveStatuses
  <2> QED BY <2>6, <2>7
<1> QED BY <1>1, <1>3, <1>4 DEF Renew

LEMMA RetryTells ==
  ASSUME IInv, StripeKept, Bought, NEW y \in Subs, Retry(y)
  PROVE  \E t, es : Tells(y, t, es) /\ AllApart(y, t)
<1>0. /\ stripe[y] \in Charged /\ stripe \in [Subs -> Charged] /\ UNCHANGED worker
      /\ "succeeded" \in Kinds /\ "updated" \in Kinds
  BY StripeFacts, Facts DEF Kinds, Retry
<1>1. PICK r, n : r = stripe[y] /\ n = invoiced[y]
  OBVIOUS
<1>2. /\ n \in 0 .. MaxInvoices /\ r.status \in {"past_due", "unpaid"}
      /\ Change(y, [r EXCEPT !.status = "active"]) /\ Emit(<<Event("succeeded", y, n), Event("updated", y, n)>>)
  BY <1>1, StripeFacts DEF Retry
<1>3. PICK t : t = [r EXCEPT !.status = "active"]
  OBVIOUS
<1>4. t.status = "active" /\ t.ending = r.ending /\ t.meta = r.meta /\ t.user = r.user /\ t.cust = r.cust
  BY <1>0, <1>1, <1>3 DEF Charged
<1>5. stripe'[y] = t /\ Change(y, t)
  BY <1>0, <1>2, <1>3 DEF Change
<1>6. PICK es \in Seq(Events) :
        /\ feed' = feed \o es /\ DOMAIN es = {1, 2} /\ es[1].kind = "succeeded" /\ es[1].sub = y
        /\ es[2].kind = "updated" /\ es[2].sub = y
        /\ es[2].status = stripe'[y].status /\ es[2].tier = stripe'[y].tier /\ es[2].ending = stripe'[y].ending
  <2>1. /\ n \in 0 .. MaxInvoices /\ "succeeded" \in Kinds /\ "updated" \in Kinds
        /\ Emit(<<Event("succeeded", y, n), Event("updated", y, n)>>)
    BY <1>0, <1>2
  <2> QED BY <1>0, <2>1, SaysTwo, SMTT(30)
<1>7. Updates(r, t, es) /\ ~Pays(r, t, es) /\ \A i \in DOMAIN es : es[i].sub = y
  BY <1>2, <1>4, <1>5, <1>6 DEF Updates, Pays, Lives, LiveStatuses
<1>8. Tells(y, t, es)
  BY <1>0, <1>1, <1>4, <1>5, <1>6, <1>7, GoesTo
<1>9. AllApart(y, t)
  BY <1>1, <1>2, <1>4 DEF AllApart, Apart, Lives, LiveStatuses
<1> QED BY <1>8, <1>9

\* One update is told: the plan, or the end of the period, has changed.
LEMMA UpdateTells ==
  ASSUME IInv, StripeKept, Bought, NEW y \in Subs, Live(y), UNCHANGED worker, NEW t, Change(y, t), Lives(t),
         t.user = stripe[y].user, t.cust = stripe[y].cust, t.meta = stripe[y].meta,
         Emit(<<Event("updated", y, 0)>>)
  PROVE  \E es : Tells(y, t, es)
<1>0. stripe \in [Subs -> Charged] /\ "updated" \in Kinds /\ 0 \in 0 .. MaxInvoices
  BY Facts, BoundsAssumption DEF Kinds
<1>1. stripe'[y] = t
  BY <1>0 DEF Change
<1>2. PICK es \in Seq(Events) :
        /\ feed' = feed \o es /\ DOMAIN es = {1} /\ es[1].kind = "updated" /\ es[1].sub = y
        /\ es[1].status = stripe'[y].status /\ es[1].tier = stripe'[y].tier /\ es[1].ending = stripe'[y].ending
  BY <1>0, SaysOne
<1>3. Updates(stripe[y], t, es) /\ ~Pays(stripe[y], t, es) /\ \A i \in DOMAIN es : es[i].sub = y
  BY <1>1, <1>2 DEF Updates, Pays, Lives, Live
<1>4. Tells(y, t, es)
  BY <1>2, <1>3, GoesTo
<1> QED BY <1>4

LEMMA EndTells ==
  ASSUME IInv, StripeKept, Bought, NEW y \in Subs, Live(y), UNCHANGED worker, Ended(y)
  PROVE  \E t, es : Tells(y, t, es) /\ t.status = "canceled" /\ AllApart(y, t)
<1>0. stripe[y] \in Charged /\ "deleted" \in Kinds /\ 0 \in 0 .. MaxInvoices
  BY StripeFacts, BoundsAssumption DEF Kinds
<1>1. PICK r, t : r = stripe[y] /\ t = [r EXCEPT !.status = "canceled"]
  OBVIOUS
<1>2. t.status = "canceled" /\ t.meta = r.meta /\ t.user = r.user /\ t.cust = r.cust
  BY <1>0, <1>1 DEF Charged
<1>3. Change(y, t) /\ Emit(<<Event("deleted", y, 0)>>)
  BY <1>1 DEF Ended
<1>4. PICK es \in Seq(Events) : feed' = feed \o es /\ DOMAIN es = {1} /\ es[1].kind = "deleted" /\ es[1].sub = y
  BY <1>0, <1>3, SaysOne
<1>5. Ends(r, t, es) /\ ~Pays(r, t, es) /\ \A i \in DOMAIN es : es[i].sub = y
  BY <1>1, <1>2, <1>4 DEF Ends, Pays, Lives, Live
<1>6. Tells(y, t, es)
  BY <1>1, <1>2, <1>3, <1>4, <1>5, GoesTo
<1>7. AllApart(y, t)
  BY <1>2 DEF AllApart, Apart, Lives, LiveStatuses
<1> QED BY <1>2, <1>6, <1>7

-----------------------------------------------------------------------------
(* The invariant of calm settings, and what Stripe does.                   *)

CalmInv ==
  /\ Stories /\ OneLive /\ Bought /\ OneDelivery /\ OneRequest /\ OneRow
  /\ CalmRows /\ DeliveriesCalm /\ RequestsCalm
ButRequests == Stories /\ OneLive /\ Bought /\ OneDelivery /\ OneRow /\ CalmRows /\ DeliveriesCalm

LEMMA TellsCalm ==
  ASSUME IInv, CalmInv, NEW y \in Subs, NEW t, NEW es, Tells(y, t, es), UNCHANGED row
  PROVE  ButRequests'
<1>1. Stories' /\ Bought'
  BY TellsStories DEF CalmInv
<1>2. OneLive'
  BY TellsOneLive DEF CalmInv
<1>3. OneDelivery'
  BY TellsFacts DEF CalmInv
<1>4. OneRow'
  BY DEF CalmInv, OneRow
<1>5. CalmRows' /\ DeliveriesCalm'
  BY TellsRows, TellsDeliveries DEF CalmInv
<1> QED BY <1>1, <1>2, <1>3, <1>4, <1>5 DEF ButRequests

LEMMA BillingCalm ==
  ASSUME IInv, StripeKept, Calm, CalmInv, Billing
  PROVE  CalmInv'
<1>1. PICK y \in Subs : Pay(y) \/ Renew(y, TRUE) \/ Renew(y, FALSE) \/ Retry(y) \/ ChangePlan(y) \/ End(y)
  BY SettingFacts, CalmFacts DEF Billing, Turn
<1>2. UNCHANGED <<row, worker, tab>> /\ Bought
  BY <1>1 DEF Pay, Renew, Retry, ChangePlan, End, database, CalmInv
<1>3. \E t, es : Tells(y, t, es) /\ AllApart(y, t)
  <2>1. CASE Pay(y) \/ Renew(y, TRUE) \/ Renew(y, FALSE) \/ Retry(y)
    BY <1>2, <2>1, PayTells, RenewTells, RetryTells
  <2>2. CASE ChangePlan(y)
    <3>1. PICK r, t : r = stripe[y] /\ t = [r EXCEPT !.tier = "expert"]
      OBVIOUS
    <3>2. r \in Charged /\ r.status = "active"
      BY <2>2, <3>1, StripeFacts DEF ChangePlan
    <3>3. t.status = "active" /\ t.ending = r.ending /\ t.meta = r.meta /\ t.user = r.user /\ t.cust = r.cust
      BY <3>1, <3>2 DEF Charged
    <3>4. Change(y, t) /\ Emit(<<Event("updated", y, 0)>>)
      BY <2>2, <3>1 DEF ChangePlan
    <3>5. Live(y) /\ Lives(t)
      BY <3>1, <3>2, <3>3 DEF Live, Lives, LiveStatuses
    <3>6. \E es : Tells(y, t, es)
      BY <1>2, <3>1, <3>3, <3>4, <3>5, UpdateTells
    <3>7. AllApart(y, t)
      BY <3>1, <3>2, <3>3 DEF AllApart, Apart, Lives
    <3> QED BY <3>6, <3>7
  <2>3. CASE End(y)
    <3>1. Ended(y) /\ Live(y)
      BY <2>3 DEF End, Live, LiveStatuses
    <3> QED BY <1>2, <3>1, EndTells
  <2> QED BY <1>1, <2>1, <2>2, <2>3
<1>4. PICK t, es : Tells(y, t, es) /\ AllApart(y, t)
  BY <1>3
<1>5. ButRequests'
  BY <1>2, <1>4, TellsCalm
<1>6. ASSUME NEW x \in Tabs, NEW r, r = tab[x], r # Idle PROVE RequestCalm(r)'
  <2>1. RequestCalm(r) /\ Apart(r, y, t) /\ OneDelivery
    BY <1>4, <1>6 DEF CalmInv, RequestsCalm, AllApart
  <2> QED BY <1>2, <1>4, <2>1, TellsRequest
<1>7. RequestsCalm'
  BY <1>2, <1>6 DEF RequestsCalm
<1>8. OneRequest'
  BY <1>2 DEF CalmInv, OneRequest
<1> QED BY <1>5, <1>7, <1>8 DEF CalmInv, ButRequests

-----------------------------------------------------------------------------
(* Requests.                                                               *)

\* A request goes on, or is answered.
LEMMA RequestMoves ==
  ASSUME IInv, OneRequest, NEW t \in Tabs, NEW r, Step(t, r),
         r = Idle \/ (tab[t] # Idle /\ r.user = tab[t].user /\ r.pc \notin {"override", "expire", "donate"}),
         r # Idle => RequestCalm(r)',
         \A x \in Tabs : \A d : x # t /\ d = tab[x] /\ d # Idle => RequestCalm(d)'
  PROVE  OneRequest' /\ RequestsCalm'
<1>1. tab'[t] = r /\ \A x \in Tabs : x # t => tab'[x] = tab[x]
  BY Facts DEF Step
<1>2. OneRequest'
  BY <1>1 DEF OneRequest
<1>3. ASSUME NEW x \in Tabs, NEW d, d = tab'[x], d # Idle PROVE RequestCalm(d)'
  BY <1>1, <1>3
<1> QED BY <1>2, <1>3 DEF RequestsCalm

LEMMA NothingTold ==
  ASSUME CalmInv, UNCHANGED <<row, stripe, worker, feed>>
  PROVE  ButRequests' /\ \A d : RequestCalm(d) => RequestCalm(d)'
<1>1. Queue' = Queue /\ OneDelivery'
  BY QueueStays DEF CalmInv
<1>2. Stories' /\ OneLive' /\ Bought' /\ OneRow'
  BY <1>1 DEF CalmInv, Stories, OneLive, Bought, OneRow, Live, Sibling
<1>3. \A s : AllSay(s) => AllSay(s)'
  BY <1>1 DEF AllSay, Live, Silent, Says
<1>4. CalmRows'
  BY <1>1, <1>3 DEF CalmInv, CalmRows, Live
<1>5. \A d : DeliveryCalm(d) => DeliveryCalm(d)'
  BY <1>1, <1>3 DEF DeliveryCalm, RowsOf, Live, Silent
<1>6. DeliveriesCalm'
  BY <1>5 DEF CalmInv, DeliveriesCalm
<1>7. \A d : RequestCalm(d) => RequestCalm(d)'
  BY DEF RequestCalm, Sibling, Live
<1> QED BY <1>1, <1>2, <1>4, <1>6, <1>7 DEF ButRequests

\* A request moves while nothing else does.
LEMMA OnlyRequest ==
  ASSUME IInv, CalmInv, UNCHANGED <<row, stripe, worker, feed>>, NEW t \in Tabs, NEW r, Step(t, r),
         r = Idle \/ (tab[t] # Idle /\ r.user = tab[t].user /\ r.pc \notin {"override", "expire", "donate"}),
         r # Idle => RequestCalm(r)
  PROVE  CalmInv'
<1>1. ButRequests' /\ \A d : RequestCalm(d) => RequestCalm(d)'
  BY NothingTold
<1>2. OneRequest
  BY DEF CalmInv
<1>3. \A x \in Tabs : \A d : x # t /\ d = tab[x] /\ d # Idle => RequestCalm(d)'
  BY <1>1 DEF CalmInv, RequestsCalm
<1>4. OneRequest' /\ RequestsCalm'
  BY <1>1, <1>2, <1>3, RequestMoves
<1> QED BY <1>1, <1>4 DEF CalmInv, ButRequests

LEMMA BeginsCalm ==
  ASSUME IInv, Calm, CalmInv, UNCHANGED <<row, stripe, worker, feed>>, NEW t \in Tabs, NEW r \in Requests,
         Begin(t, r.user, r.pc, r.row, r.sub, r.cust), RequestCalm(r),
         r.pc \notin {"override", "expire"}, r.pc = "donate" => r.cust = None
  PROVE  CalmInv'
<1>1. ButRequests' /\ \A d : RequestCalm(d) => RequestCalm(d)'
  BY NothingTold
<1>2. r = [user |-> r.user, pc |-> r.pc, row |-> r.row, sub |-> r.sub, cust |-> r.cust]
  BY DEF Requests
<1>3. tab' = [tab EXCEPT ![t] = r] /\ ~UserBusy(r.user) /\ tab[t] = Idle
  BY <1>2, CalmFacts DEF Begin
<1>4. tab'[t] = r /\ \A x \in Tabs : x # t => tab'[x] = tab[x]
  BY <1>3, Facts
<1>5. OneRequest'
  BY <1>3, <1>4 DEF CalmInv, OneRequest, UserBusy
<1>6. ASSUME NEW x \in Tabs, NEW d, d = tab'[x], d # Idle PROVE RequestCalm(d)'
  <2>1. RequestCalm(d)
    BY <1>4, <1>6 DEF CalmInv, RequestsCalm
  <2> QED BY <1>1, <2>1
<1>7. RequestsCalm'
  BY <1>6 DEF RequestsCalm
<1> QED BY <1>1, <1>5, <1>7 DEF CalmInv, ButRequests

\* A request about a row of the user.
LEMMA AsksCalm ==
  ASSUME IInv, Calm, CalmInv, UNCHANGED <<row, stripe, worker, feed>>, NEW t \in Tabs, NEW u \in Users,
         NEW k \in RowsOf(u), row[k].sub # None, NEW pc \in {"cancelNow", "cancelLater", "reactivate"},
         Begin(t, u, pc, k, row[k].sub, None)
  PROVE  CalmInv'
<1>1. PICK s, r : s = row[k].sub /\ r = [user |-> u, pc |-> pc, row |-> k, sub |-> s, cust |-> None]
  OBVIOUS
<1>2. k \in Rows /\ row[k].user = u /\ s \in Sales
  BY <1>1, Facts DEF RowsOf, Stored
<1>3. r \in Requests /\ r.user = u /\ r.pc = pc /\ r.row = k /\ r.sub = s /\ r.cust = None
  BY <1>1, <1>2 DEF Requests, Subs
<1>4. stripe[s].user = row[k].user /\ stripe[s].status # "none"
  BY <1>1, <1>2 DEF IInv, RowsFollowOwners, RowsAreSold
<1>5. RequestCalm(r)
  BY <1>2, <1>3, <1>4 DEF RequestCalm
<1> QED BY <1>1, <1>3, <1>5, BeginsCalm

LEMMA AskCalm ==
  ASSUME IInv, Calm, CalmInv, NEW t \in Tabs, Ask(t)
  PROVE  CalmInv'
<1>0. UNCHANGED <<row, stripe, worker, feed>>
  BY DEF Ask, Checkout, Cancel, Reactivate, Status, Override, Donate, CancelMonthly, database, remote, Request
<1>1. ASSUME NEW u \in Users, Cancel(t, u, "cancelNow") \/ Cancel(t, u, "cancelLater") \/ Reactivate(t, u) PROVE CalmInv'
  <2>1. PICK k \in RowsOf(u), pc \in {"cancelNow", "cancelLater", "reactivate"} :
          row[k].sub # None /\ Begin(t, u, pc, k, row[k].sub, None)
    BY <1>1 DEF Cancel, Reactivate
  <2> QED BY <1>0, <2>1, AsksCalm
<1>2. ASSUME NEW u \in Users, Checkout(t, u) PROVE CalmInv'
  <2>1. PICK pc \in {"create", "session"} : Begin(t, u, pc, None, None, customer[u])
    BY <1>2 DEF Checkout
  <2>2. PICK c, r : c = customer[u] /\ r = [user |-> u, pc |-> pc, row |-> None, sub |-> None, cust |-> c]
    OBVIOUS
  <2>3. c \in Customers \cup {None}
    BY <2>2, CustomerFacts
  <2>4. r \in Requests /\ r.user = u /\ r.pc = pc /\ r.row = None /\ r.sub = None /\ r.cust = c
    BY <2>2, <2>3 DEF Requests
  <2>5. RequestCalm(r)
    BY <2>4 DEF RequestCalm
  <2> QED BY <1>0, <2>1, <2>2, <2>4, <2>5, BeginsCalm
\* No override is past its date, and none is granted.
<1>3. ASSUME NEW u \in Users, Status(t, u) \/ Override(t, u) PROVE FALSE
  BY <1>3, CalmFacts DEF Status, Override, RowsOf, CalmInv, OneRow
<1>4. ASSUME NEW u \in Users \cup {None}, NEW d \in Gifts, Donate(t, u, d) PROVE CalmInv'
  <2>1. u = None /\ Begin(t, None, "donate", None, d, None)
    BY <1>4, CalmFacts DEF Donate
  <2>2. PICK r : r = [user |-> None, pc |-> "donate", row |-> None, sub |-> d, cust |-> None]
    OBVIOUS
  <2>3. r \in Requests /\ r.user = None /\ r.pc = "donate" /\ r.row = None /\ r.sub = d /\ r.cust = None
    BY <2>2 DEF Requests, Subs
  <2>4. RequestCalm(r)
    BY <2>3 DEF RequestCalm
  <2> QED BY <1>0, <2>1, <2>3, <2>4, BeginsCalm
<1>5. ASSUME NEW u \in Users, NEW d \in Gifts, CancelMonthly(t, u, d) PROVE CalmInv'
  <2>1. Begin(t, u, "cancelGift", None, d, None)
    BY <1>5 DEF CancelMonthly
  <2>2. PICK r : r = [user |-> u, pc |-> "cancelGift", row |-> None, sub |-> d, cust |-> None]
    OBVIOUS
  <2>3. r \in Requests /\ r.user = u /\ r.pc = "cancelGift" /\ r.row = None /\ r.sub = d /\ r.cust = None
    BY <2>2 DEF Requests, Subs
  <2>4. RequestCalm(r)
    BY <2>3 DEF RequestCalm
  <2> QED BY <1>0, <2>1, <2>3, <2>4, BeginsCalm
<1> QED BY <1>1, <1>2, <1>3, <1>4, <1>5, SettingFacts DEF Ask

\* A request goes on while Stripe turns a subscription.
LEMMA RequestTells ==
  ASSUME IInv, StripeKept, CalmInv, UNCHANGED row, NEW t \in Tabs, NEW r, Step(t, r),
         r = Idle \/ (tab[t] # Idle /\ r.user = tab[t].user /\ r.pc \notin {"override", "expire", "donate"}),
         r # Idle => RequestCalm(r)',
         NEW y \in Subs, NEW p, NEW es, Tells(y, p, es),
         \A x \in Tabs : x # t /\ tab[x] # Idle => Apart(tab[x], y, p)
  PROVE  CalmInv'
<1>1. ButRequests'
  BY TellsCalm
<1>2. ASSUME NEW x \in Tabs, NEW d, x # t, d = tab[x], d # Idle PROVE RequestCalm(d)'
  <2>1. RequestCalm(d) /\ Apart(d, y, p) /\ OneDelivery
    BY <1>2 DEF CalmInv, RequestsCalm
  <2> QED BY <2>1, TellsRequest
<1>3. OneRequest
  BY DEF CalmInv
<1>4. OneRequest' /\ RequestsCalm'
  BY <1>2, <1>3, RequestMoves
<1> QED BY <1>1, <1>4 DEF CalmInv, ButRequests

LEMMA OpensCalm ==
  ASSUME IInv, StripeKept, CalmInv, NEW t \in Tabs, OpenSession(t) \/ OpenGift(t)
  PROVE  CalmInv'
<1>1. PICK q : q = tab[t]
  OBVIOUS
<1>2. /\ q \in Requests /\ RequestOK(q) /\ q # Idle /\ feed \in Seq(Events) /\ Reply(t)
      /\ UNCHANGED <<row, worker, feed>>
  BY <1>1, Facts DEF OpenSession, OpenGift, Doing, database, Request
<1>3. PICK p : p = [NoSub EXCEPT !.status = "open", !.user = q.user, !.cust = q.cust]
  OBVIOUS
<1>4. p.status = "open" /\ ~p.ending /\ p.user = q.user /\ p.cust = q.cust /\ p.meta = "session"
  BY <1>3 DEF NoSub
<1>5. PICK y \in Subs : /\ Change(y, p)
                        /\ y \in Sales => stripe[y].status = "none" /\ p.user # None
                        /\ y \in Gifts => p.cust = None
  <2>1. CASE OpenSession(t)
    <3>1. PICK y \in Sales : stripe[y] = NoSub /\ Change(y, p)
      BY <1>1, <1>3, <2>1 DEF OpenSession
    <3>2. p.user # None
      BY <1>1, <1>2, <1>4, <2>1 DEF OpenSession, Doing, RequestOK
    <3> QED BY <3>1, <3>2, SubsAssumption DEF Subs, NoSub
  <2>2. CASE OpenGift(t)
    <3>1. q.pc = "donate" /\ q.sub \in Gifts /\ Change(q.sub, p)
      BY <1>1, <1>2, <1>3, <2>2 DEF OpenGift, Doing, RequestOK
    <3>2. q.cust = None
      BY <1>1, <1>2, <3>1 DEF CalmInv, OneRequest
    <3> QED BY <1>4, <3>1, <3>2, SubsAssumption DEF Subs
  <2> QED BY <2>1, <2>2
<1>6. PICK es : es = <<>>
  OBVIOUS
<1>7. es \in Seq(Events) /\ DOMAIN es = {} /\ feed' = feed \o es
  BY <1>2, <1>6, ConcatEmptySeq, EmptySeq
<1>8. Tells(y, p, es)
  <2>1. y \in Sales => Opens(stripe[y], p, es) /\ ~Pays(stripe[y], p, es)
    BY <1>4, <1>5, <1>6, <1>7 DEF Opens, Pays
  <2> QED BY <1>2, <1>4, <1>5, <1>7, <2>1 DEF Tells, Turns
<1>9. \A x \in Tabs : Apart(tab[x], y, p)
  BY <1>4 DEF Apart, Lives, LiveStatuses
<1> QED BY <1>2, <1>8, <1>9, RequestTells DEF Reply

LEMMA TellStripeCalm ==
  ASSUME IInv, StripeKept, CalmInv, NEW t \in Tabs, TellStripe(t)
  PROVE  CalmInv'
<1>1. PICK q, s : q = tab[t] /\ s = tab[t].sub
  OBVIOUS
<1>2. /\ q \in Requests /\ RequestOK(q) /\ q # Idle /\ RequestCalm(q) /\ Bought
      /\ q.pc \in {"cancelNow", "cancelLater", "reactivate"} /\ UNCHANGED <<row, worker>> /\ q.sub = s
  BY <1>1, Facts DEF TellStripe, Doing, database, Request, CalmInv, RequestsCalm
<1>3. s \in Sales /\ s \in Subs /\ stripe[s].user = q.user /\ row[q.row].user = q.user /\ q.user # None
  BY <1>1, <1>2 DEF RequestCalm, RequestOK, Subs
<1>4. CASE ~Live(s)
  <2>1. Reply(t) /\ UNCHANGED <<row, stripe, worker, feed>>
    BY <1>1, <1>2, <1>4 DEF TellStripe
  <2> QED BY <2>1, OnlyRequest DEF Reply
<1>5. CASE Live(s)
  <2>1. PICK pc : pc = CASE q.pc = "cancelNow" -> "cancelled" [] q.pc = "cancelLater" -> "ending"
                         [] q.pc = "reactivate" -> "renewing"
    OBVIOUS
  <2>2. Step(t, [q EXCEPT !.pc = pc])
    BY <1>1, <1>5, <2>1 DEF TellStripe
  <2>3. PICK r : r = [q EXCEPT !.pc = pc]
    OBVIOUS
  <2>4. r.user = q.user /\ r.pc = pc /\ r.row = q.row /\ r.sub = s
    BY <1>2, <2>3 DEF Requests
  <2>5. /\ q.pc = "cancelNow" => pc = "cancelled"
        /\ q.pc = "cancelLater" => pc = "ending"
        /\ q.pc = "reactivate" => pc = "renewing"
    BY <2>1
  \* The siblings of a live subscription are not live.
  <2>6. \A x \in Sales : Sibling(s, x) => ~Live(x)
    BY <1>3, <1>5 DEF CalmInv, OneLive
  <2>7. \E p, es : /\ Tells(s, p, es)
                   /\ q.pc = "cancelNow" => ~Lives(p)
                   /\ q.pc = "cancelLater" => p.ending
                   /\ q.pc = "reactivate" => ~p.ending
    <3>1. CASE q.pc = "cancelNow"
      <4>1. Ended(s)
        BY <1>1, <1>5, <3>1 DEF TellStripe
      <4>2. PICK p, es : Tells(s, p, es) /\ p.status = "canceled"
        BY <1>2, <1>3, <1>5, <4>1, EndTells
      <4>3. ~Lives(p)
        BY <4>2 DEF Lives, LiveStatuses
      <4> QED BY <3>1, <4>2, <4>3
    <3>2. CASE q.pc # "cancelNow"
      <4>1. PICK o, b, p : o = stripe[s] /\ b = (q.pc = "cancelLater") /\ p = [o EXCEPT !.ending = b]
        OBVIOUS
      <4>2. Change(s, p) /\ Emit(<<Event("updated", s, 0)>>)
        BY <1>1, <1>5, <3>2, <4>1 DEF TellStripe
      <4>3. o \in Charged /\ Lives(o)
        BY <1>3, <1>5, <4>1, StripeFacts DEF Live, Lives
      <4>4. p.status = o.status /\ p.ending = b /\ p.meta = o.meta /\ p.user = o.user /\ p.cust = o.cust
        BY <4>1, <4>3 DEF Charged
      <4>5. Lives(p)
        BY <4>3, <4>4 DEF Lives
      <4>6. PICK es : Tells(s, p, es)
        BY <1>2, <1>3, <1>5, <4>1, <4>2, <4>4, <4>5, UpdateTells
      <4> QED BY <3>2, <4>1, <4>4, <4>6
    <3> QED BY <3>1, <3>2
  <2>8. PICK p, es : /\ Tells(s, p, es)
                     /\ q.pc = "cancelNow" => ~Lives(p)
                     /\ q.pc = "cancelLater" => p.ending
                     /\ q.pc = "reactivate" => ~p.ending
    BY <2>7
  <2>9. stripe'[s] = p /\ \A x \in Sales : x # s => stripe'[x] = stripe[x]
    BY <1>3, <2>8, TellsFacts DEF CalmInv
  <2>10. p.user = q.user /\ p.status # "none"
    BY <1>3, <1>5, <2>9 DEF StripeKept, Live, LiveStatuses
  <2>11. RequestCalm(r)'
    <3>1. stripe'[s].status # "none" /\ stripe'[s].user = r.user /\ row'[r.row].user = r.user
      BY <1>2, <1>3, <2>4, <2>9, <2>10
    <3>2. \A x \in Sales : Sibling(s, x)' => ~Live(x)'
      BY <1>3, <2>6, <2>9, <2>10 DEF Sibling, Live
    <3>3. pc = "cancelled" => ~Live(s)'
      BY <1>2, <2>5, <2>8, <2>9 DEF Live, Lives
    <3>4. (pc = "ending" => stripe'[s].ending) /\ (pc = "renewing" => ~stripe'[s].ending)
      BY <1>2, <2>5, <2>8, <2>9
    <3> QED BY <1>3, <2>4, <3>1, <3>2, <3>3, <3>4 DEF RequestCalm
  \* Another request is another user's.
  <2>12. \A x \in Tabs : x # t /\ tab[x] # Idle => Apart(tab[x], s, p)
    BY <1>1, <1>2, <1>3 DEF CalmInv, OneRequest, Apart
  <2>13. Step(t, r) /\ tab[t] # Idle /\ r.user = tab[t].user /\ r.pc \notin {"override", "expire", "donate"}
    BY <1>1, <1>2, <2>2, <2>3, <2>4, <2>5
  <2> QED BY <1>2, <1>3, <2>8, <2>11, <2>12, <2>13, RequestTells
<1> QED BY <1>4, <1>5

LEMMA StopGiftCalm ==
  ASSUME IInv, StripeKept, CalmInv, NEW t \in Tabs, StopGift(t)
  PROVE  CalmInv'
<1>1. PICK q, s : q = tab[t] /\ s = tab[t].sub
  OBVIOUS
<1>2. /\ q \in Requests /\ q # Idle /\ s \in Subs /\ Bought /\ UNCHANGED <<row, worker>> /\ q.pc = "cancelGift"
  BY <1>1, Facts DEF StopGift, Doing, database, Request, CalmInv, RequestOK, Subs
<1>3. CASE ~Live(s)
  <2>1. Reply(t) /\ UNCHANGED <<row, stripe, worker, feed>>
    BY <1>1, <1>2, <1>3 DEF StopGift
  <2> QED BY <2>1, OnlyRequest DEF Reply
<1>4. CASE Live(s)
  <2>1. Step(t, [q EXCEPT !.pc = "giftCancelled"]) /\ Ended(s)
    BY <1>1, <1>4 DEF StopGift
  <2>2. PICK r : r = [q EXCEPT !.pc = "giftCancelled"]
    OBVIOUS
  <2>3. r.user = q.user /\ r.pc = "giftCancelled"
    BY <1>2, <2>2 DEF Requests
  <2>4. RequestCalm(r)'
    BY <2>3 DEF RequestCalm
  <2>5. PICK p, es : Tells(s, p, es) /\ AllApart(s, p)
    BY <1>2, <1>4, <2>1, EndTells
  <2>6. Step(t, r) /\ tab[t] # Idle /\ r.user = tab[t].user /\ r.pc \notin {"override", "expire", "donate"}
    BY <1>1, <1>2, <2>1, <2>2, <2>3
  <2>7. \A x \in Tabs : x # t /\ tab[x] # Idle => Apart(tab[x], s, p)
    BY <2>5 DEF AllApart
  <2> QED BY <1>2, <2>4, <2>5, <2>6, <2>7, RequestTells
<1> QED BY <1>3, <1>4

LEMMA OneRewritten ==
  ASSUME IInv, NEW k \in Rows, NEW r, UpdateOne(k, r)
  PROVE  row'[k] = r /\ \A x \in Rows : x # k => row'[x] = row[x]
<1>1. PICK new : new = [x \in {k} |-> r]
  OBVIOUS
<1>2. row' = [x \in Rows |-> IF x \in DOMAIN new THEN new[x] ELSE row[x]] /\ DOMAIN new = {k} /\ new[k] = r
  BY <1>1 DEF UpdateOne, Update
<1> QED BY <1>2

\* The request of the user of the subscription writes what it told Stripe.
LEMMA WriteRowCalm ==
  ASSUME IInv, CalmInv, NEW t \in Tabs, WriteRow(t)
  PROVE  CalmInv'
<1>1. PICK q, k, z : q = tab[t] /\ k = q.row /\ z = q.sub
  OBVIOUS
<1>2. /\ q \in Requests /\ RequestOK(q) /\ q # Idle /\ RequestCalm(q) /\ q.pc \in {"cancelled", "ending", "renewing"}
      /\ UNCHANGED <<stripe, worker, feed>> /\ Reply(t)
  BY <1>1, Facts DEF WriteRow, Doing, remote, Request, CalmInv, RequestsCalm
<1>3. k \in Rows /\ row[k] \in Stored /\ row[k].user = q.user /\ q.user # None /\ z \in Sales /\ stripe[z].user = q.user
  BY <1>1, <1>2, Facts DEF RequestOK, RequestCalm, Requests
<1>4. PICK o, n : /\ o = row[k]
                  /\ n = CASE q.pc = "cancelled" -> [o EXCEPT !.status = "cancelled", !.ending = FALSE]
                           [] q.pc = "ending" -> [o EXCEPT !.ending = TRUE]
                           [] q.pc = "renewing" -> [o EXCEPT !.ending = FALSE]
  OBVIOUS
<1>5. /\ n.user = o.user /\ n.sub = o.sub /\ n.tier = o.tier /\ n.override = o.override
      /\ q.pc = "ending" => n.ending /\ n.status = o.status
      /\ q.pc = "renewing" => ~n.ending /\ n.status = o.status
  BY <1>2, <1>3, <1>4 DEF Stored
<1>6. UpdateOne(k, n)
  BY <1>1, <1>4 DEF WriteRow
<1>7. row'[k] = n /\ \A x \in Rows : x # k => row'[x] = row[x]
  BY <1>3, <1>6, OneRewritten
<1>8. \A x \in Rows : row'[x].user = row[x].user /\ row'[x].sub = row[x].sub /\ row'[x].override = row[x].override
  BY <1>4, <1>5, <1>7
<1>9. Queue' = Queue /\ OneDelivery'
  BY <1>2, QueueStays DEF CalmInv
<1>10. ASSUME NEW s \in Sales, AllSay(s) PROVE AllSay(s)'
  <2>1. SUFFICES ASSUME Live(s), Silent(s), NEW x \in Rows, row[x].sub = s PROVE Says(x, s)'
    BY <1>2, <1>8, <1>9 DEF AllSay, Live, Silent
  <2>2. Says(x, s)
    BY <1>10, <2>1 DEF AllSay
  <2>3. CASE x # k
    BY <1>2, <1>7, <2>2, <2>3 DEF Says
  <2>4. CASE x = k
    <3>1. stripe[s].user = q.user
      BY <1>3, <2>1, <2>4, NoneAssumption DEF IInv, RowsFollowOwners
    <3>2. s = z
      BY <1>1, <1>2, <1>3, <2>1, <3>1 DEF RequestCalm, Sibling
    <3>3. n.ending = stripe[s].ending /\ n.status = o.status /\ n.tier = o.tier
      BY <1>1, <1>2, <1>3, <1>4, <1>5, <2>1, <2>2, <2>4, <3>2 DEF RequestCalm, Says, Stored
    <3> QED BY <1>2, <1>4, <1>7, <2>2, <2>4, <3>3 DEF Says
  <2> QED BY <2>3, <2>4
<1>11. Stories' /\ OneLive' /\ Bought'
  BY <1>2, <1>9 DEF CalmInv, Stories, OneLive, Bought, Live, Sibling
<1>12. OneRow'
  BY <1>8 DEF CalmInv, OneRow
<1>13. CalmRows'
  BY <1>2, <1>8, <1>9, <1>10 DEF CalmInv, CalmRows, Live
<1>14. ASSUME NEW w \in Workers, NEW d, d = worker[w], d # Idle PROVE DeliveryCalm(d)'
  <2>1. DeliveryCalm(d) /\ DeliveryOK(d) /\ d \in Deliveries
    BY <1>14, Facts DEF CalmInv, DeliveriesCalm
  <2>2. d.row # None => d.row \in Rows
    BY <2>1 DEF Deliveries
  <2>3. d.event.kind = "checkout" /\ d.pc = "link" => AllSay(d.event.sub)'
    BY <1>10, <2>1 DEF DeliveryCalm, DeliveryOK
  <2>4. RowsOf(d.user)' = RowsOf(d.user)
    BY <1>8 DEF RowsOf
  <2>5. d.pc = "write" => d.row # None
    BY <2>1 DEF DeliveryOK
  <2> QED BY <1>2, <1>8, <1>9, <2>1, <2>2, <2>3, <2>4, <2>5 DEF DeliveryCalm, Live, Silent
<1>15. DeliveriesCalm'
  BY <1>2, <1>14 DEF DeliveriesCalm
<1>16. ASSUME NEW x \in Tabs, NEW d, x # t, d = tab[x], d # Idle PROVE RequestCalm(d)'
  <2>1. RequestCalm(d) /\ RequestOK(d) /\ d \in Requests
    BY <1>16, Facts DEF CalmInv, RequestsCalm
  <2>2. d.pc \in {"cancelNow", "cancelLater", "reactivate", "cancelled", "ending", "renewing"} => d.row \in Rows
    BY <2>1 DEF RequestOK, Requests
  <2> QED BY <1>2, <1>8, <2>1, <2>2 DEF RequestCalm, Live, Sibling
<1>17. OneRequest' /\ RequestsCalm'
  <2>1. OneRequest /\ Step(t, Idle)
    BY <1>2 DEF CalmInv, Reply
  <2> QED BY <1>16, <2>1, RequestMoves
<1> QED BY <1>9, <1>11, <1>12, <1>13, <1>15, <1>17 DEF CalmInv

LEMMA ServeCalm ==
  ASSUME IInv, StripeKept, CalmInv, NEW t \in Tabs, Serve(t) \/ RequestFails(t)
  PROVE  CalmInv'
<1>1. CASE OpenSession(t) \/ OpenGift(t)
  BY <1>1, OpensCalm
<1>2. CASE TellStripe(t) \/ StopGift(t)
  BY <1>2, TellStripeCalm, StopGiftCalm
<1>3. CASE WriteRow(t)
  BY <1>3, WriteRowCalm
<1>4. ~Expire(t) /\ ~Grant(t)
  BY DEF Expire, Grant, Doing, CalmInv, OneRequest
<1>5. CASE WriteGift(t) \/ RequestFails(t)
  <2>1. Reply(t) /\ UNCHANGED <<row, stripe, worker, feed>>
    BY <1>5 DEF WriteGift, RequestFails, database, remote, Request
  <2> QED BY <2>1, OnlyRequest DEF Reply
<1>6. CASE CreateCustomer(t) \/ SaveCustomer(t)
  <2>1. PICK q : q = tab[t]
    OBVIOUS
  <2>2. q \in Requests /\ q # Idle /\ UNCHANGED <<row, stripe, worker, feed>>
    BY <1>6, <2>1, Facts DEF CreateCustomer, SaveCustomer, Doing, database, remote, Request
  <2>3. \E pc \in {"save", "session"} : \E c : Step(t, [q EXCEPT !.pc = pc, !.cust = c])
    <3>1. CASE CreateCustomer(t)
      BY <2>1, <3>1 DEF CreateCustomer
    <3>2. CASE SaveCustomer(t)
      <4>1. Step(t, [q EXCEPT !.pc = "session"])
        BY <2>1, <3>2 DEF SaveCustomer
      <4>2. [q EXCEPT !.pc = "session"] = [q EXCEPT !.pc = "session", !.cust = q.cust]
        BY <2>2 DEF Requests
      <4> QED BY <4>1, <4>2
    <3> QED BY <1>6, <3>1, <3>2
  <2>4. PICK pc, c, r : pc \in {"save", "session"} /\ r = [q EXCEPT !.pc = pc, !.cust = c] /\ Step(t, r)
    BY <2>3
  <2>5. r.user = q.user /\ r.pc = pc
    BY <2>2, <2>4 DEF Requests
  <2>6. RequestCalm(r)
    BY <2>4, <2>5 DEF RequestCalm
  <2>7. Step(t, r) /\ tab[t] # Idle /\ r.user = tab[t].user /\ r.pc \notin {"override", "expire", "donate"}
    BY <2>1, <2>2, <2>4, <2>5
  <2> QED BY <2>2, <2>6, <2>7, OnlyRequest
<1> QED BY <1>1, <1>2, <1>3, <1>4, <1>5, <1>6 DEF Serve

\* Requests do not mind what a handler does, as long as rows keep their users.
LEMMA RequestsStay ==
  ASSUME IInv, CalmInv, UNCHANGED <<stripe, tab>>, \A k \in Rows : row'[k].user = row[k].user \/ row[k].user = None
  PROVE  OneRequest' /\ RequestsCalm'
<1>1. ASSUME NEW x \in Tabs, NEW d, d = tab[x], d # Idle PROVE RequestCalm(d)'
  <2>1. RequestCalm(d) /\ RequestOK(d) /\ d \in Requests
    BY <1>1, Facts DEF CalmInv, RequestsCalm
  <2>2. d.pc \in {"cancelNow", "cancelLater", "reactivate", "cancelled", "ending", "renewing"} =>
          d.row \in Rows /\ row[d.row].user # None
    BY <2>1 DEF RequestOK, Requests
  <2> QED BY <2>1, <2>2 DEF RequestCalm, Live, Sibling
<1>2. OneRequest'
  BY DEF CalmInv, OneRequest
<1> QED BY <1>1, <1>2 DEF RequestsCalm

LEMMA HandlerGoesOn ==
  ASSUME IInv, CalmInv, NEW w \in Workers, worker[w] # Idle, NEW d \in Deliveries, d.event = worker[w].event,
         worker' = [worker EXCEPT ![w] = d], UNCHANGED <<row, stripe, feed, tab>>, DeliveryCalm(d)
  PROVE  CalmInv'
<1>0. d # Idle
  BY DEF Deliveries, Idle
<1>1. Queue' = Queue /\ OneDelivery' /\ worker'[w] = d /\ \A v \in Workers : worker'[v] # Idle => v = w
  BY <1>0, QueueKept DEF CalmInv
<1>2. Stories' /\ OneLive' /\ Bought' /\ OneRow'
  BY <1>1 DEF CalmInv, Stories, OneLive, Bought, OneRow, Live, Sibling
<1>3. \A s : AllSay(s) => AllSay(s)'
  BY <1>1 DEF AllSay, Live, Silent, Says
<1>4. CalmRows'
  BY <1>1, <1>3 DEF CalmInv, CalmRows, Live
<1>5. DeliveryCalm(d)'
  BY <1>1, <1>3 DEF DeliveryCalm, RowsOf, Live, Silent
<1>6. DeliveriesCalm'
  BY <1>1, <1>5 DEF DeliveriesCalm
<1>7. OneRequest' /\ RequestsCalm'
  BY RequestsStay
<1> QED BY <1>1, <1>2, <1>4, <1>6, <1>7 DEF CalmInv

\* The queue goes on, whatever the handler has written into the rows.
LEMMA Handled ==
  ASSUME IInv, CalmInv, NEW w \in Workers, worker[w] # Idle, Answer(w), UNCHANGED <<stripe, feed, tab>>,
         \A k \in Rows : row'[k].user = row[k].user /\ row'[k].override = row[k].override, CalmRows'
  PROVE  CalmInv'
<1>1. Queue' = Tail(Queue) /\ OneDelivery' /\ \A v \in Workers : worker'[v] = Idle
  BY QueueAnswered DEF CalmInv
<1>2. PICK q, p : q = Queue /\ p = Queue' /\ p = Tail(q) /\ q \in Seq(Events) /\ q # <<>>
  BY <1>1, QueueBusy DEF CalmInv
<1>3. ASSUME NEW s \in Sales PROVE Story(p, s, stripe'[s])
  <2>1. Story(q, s, stripe[s])
    BY <1>2 DEF CalmInv, Stories
  <2>2. PICK r : r = stripe[s]
    OBVIOUS
  <2>3. Story(p, s, r)
    BY <1>2, <2>1, <2>2, StoryGoesOn
  <2> QED BY <2>2, <2>3
<1>4. Stories' /\ Bought'
  BY <1>2, <1>3 DEF CalmInv, Stories, Bought
<1>5. ASSUME NEW s \in Sales, NEW x \in Sales, Live(s), Sibling(s, x) PROVE ~Live(x) /\ Before(p, x, s)
  <2>1. ~Live(x) /\ Before(q, x, s)
    BY <1>2, <1>5 DEF CalmInv, OneLive
  <2> QED BY <1>2, <2>1, BeforeGoesOn
<1>6. OneLive'
  BY <1>2, <1>5 DEF OneLive, Live, Sibling
<1>7. OneRow'
  BY DEF CalmInv, OneRow
<1>8. DeliveriesCalm'
  BY <1>1 DEF DeliveriesCalm
<1>9. OneRequest' /\ RequestsCalm'
  BY RequestsStay
<1> QED BY <1>1, <1>4, <1>6, <1>7, <1>8, <1>9 DEF CalmInv

\* What is still told after an answer.
LEMMA StillTold ==
  ASSUME IInv, CalmInv, NEW w \in Workers, worker[w] # Idle, Answer(w), UNCHANGED feed, NEW kind, NEW s,
         ~(worker[w].event.kind = kind /\ worker[w].event.sub = s)
  PROVE  Told(Queue', kind, s) = {} <=> Told(Queue, kind, s) = {}
<1>1. PICK q : q = Queue /\ Queue' = Tail(q) /\ q \in Seq(Events) /\ q # <<>> /\ q[1] = worker[w].event
  BY QueueAnswered, QueueBusy DEF CalmInv
<1>2. Told(Tail(q), kind, s) # {} => Told(q, kind, s) # {}
  BY <1>1, LeftOver
<1>3. Told(q, kind, s) # {} => Told(Tail(q), kind, s) # {}
  BY <1>1, LeftOver
<1> QED BY <1>1, <1>2, <1>3

\* The handler is answered without a change of the rows.
LEMMA HandlerAnswers ==
  ASSUME IInv, CalmInv, NEW w \in Workers, worker[w] # Idle, Answer(w), UNCHANGED <<row, stripe, feed, tab>>,
         NEW e, e = worker[w].event,
         e.kind = "checkout" /\ e.sub \in Sales => (\E k \in Rows : row[k].sub = e.sub) /\ AllSay(e.sub),
         e.kind = "updated" /\ e.sub \in Sales => ~Live(e.sub), e.kind = "deleted" => \A k \in Rows : row[k].sub # e.sub
  PROVE  CalmInv'
<1>1. ASSUME NEW s \in Sales, Live(s), Told(Queue', "checkout", s) = {}
      PROVE  (\E k \in Rows : row[k].sub = s) /\ (Silent(s)' => \A k \in Rows : row[k].sub = s => Says(k, s))
  <2>1. Silent(s)' => Silent(s)
    <3>1. ~(e.kind = "updated" /\ e.sub = s)
      BY <1>1
    <3> QED BY <3>1, StillTold DEF Silent
  <2>2. CASE e.kind = "checkout" /\ e.sub = s
    BY <1>1, <2>1, <2>2 DEF AllSay
  <2>3. CASE ~(e.kind = "checkout" /\ e.sub = s)
    <3>1. Told(Queue, "checkout", s) = {}
      BY <1>1, <2>3, StillTold
    <3> QED BY <1>1, <2>1, <3>1 DEF CalmInv, CalmRows, AllSay
  <2> QED BY <2>2, <2>3
<1>2. ASSUME NEW k \in Rows, NEW s, s = row[k].sub, s # None PROVE Live(s) \/ Told(Queue', "deleted", s) # {}
  <2>1. Live(s) \/ Told(Queue, "deleted", s) # {}
    BY <1>2 DEF CalmInv, CalmRows
  <2>2. ~(e.kind = "deleted" /\ e.sub = s)
    BY <1>2
  <2> QED BY <2>1, <2>2, StillTold
<1>3. CalmRows'
  BY <1>1, <1>2 DEF CalmRows, AllSay, Live, Says
<1> QED BY <1>3, Handled

-----------------------------------------------------------------------------
(* Deliveries.                                                             *)

\* A row carries a sale that was bought, by the user of the row.
LEMMA RowsBought ==
  ASSUME IInv, Bought, NEW k \in Rows, row[k].sub # None
  PROVE  row[k].sub \in Sales /\ row[k].user # None /\ stripe[row[k].sub].user = row[k].user
<1>1. row[k] \in Stored
  BY Facts
<1>2. row[k].sub \in Sales
  BY <1>1 DEF Stored
<1>3. stripe[row[k].sub].status # "none" /\ stripe[row[k].sub].user = row[k].user
  BY DEF IInv, RowsAreSold, RowsFollowOwners
<1> QED BY <1>2, <1>3 DEF Bought

\* The event at work is the head of the queue.
LEMMA AtWork ==
  ASSUME IInv, CalmInv, NEW w \in Workers, worker[w] # Idle, NEW d, d = worker[w], NEW e, e = d.event, NEW q, q = Queue
  PROVE  /\ d \in Deliveries /\ DeliveryOK(d) /\ DeliveryCalm(d) /\ Reported(e, settled) /\ e \in Events
         /\ q \in Seq(Events) /\ q # <<>> /\ q[1] = e /\ 1 \in DOMAIN q /\ 1 \in Told(q, e.kind, e.sub)
<1>1. d \in Deliveries /\ DeliveryOK(d) /\ Reported(e, settled)
  BY Facts
<1>2. DeliveryCalm(d)
  BY DEF CalmInv, DeliveriesCalm
<1>3. e \in Events /\ q \in Seq(Events) /\ q # <<>> /\ q[1] = e
  BY QueueBusy DEF CalmInv
<1>4. 1 \in Told(q, e.kind, e.sub) /\ 1 \in DOMAIN q
  BY <1>3, HeadTold
<1> QED BY <1>1, <1>2, <1>3, <1>4

\* What is told of was bought; after its checkout, its row is there.
LEMMA Started ==
  ASSUME IInv, Calm, CalmInv, NEW w \in Workers, worker[w] # Idle, NEW s \in Sales, s = worker[w].event.sub
  PROVE  /\ stripe[s].status \in {"active", "past_due", "canceled"} /\ stripe[s].user \in Users /\ stripe[s].meta = "session"
         /\ worker[w].event.kind # "checkout" => Told(Queue, "checkout", s) = {}
<1>1. PICK d, e, q : d = worker[w] /\ e = d.event /\ q = Queue
  OBVIOUS
<1>2. q \in Seq(Events) /\ q[1] = e /\ 1 \in DOMAIN q /\ e.sub = s
  BY <1>1, AtWork
<1>3. Story(q, s, stripe[s])
  BY <1>1 DEF CalmInv, Stories
<1>4. stripe[s].status \notin {"none", "open"}
  BY <1>2, <1>3 DEF Story, Outcome
<1>5. stripe[s] \in Charged /\ setting.calm
  BY Facts, CalmFacts DEF Subs
<1>6. stripe[s].user # None /\ stripe[s].meta = "session"
  BY <1>4 DEF CalmInv, Bought
<1>7. ASSUME e.kind # "checkout", NEW i \in Told(q, "checkout", s) PROVE FALSE
  <2>1. i <= 1
    BY <1>2, <1>3, <1>7 DEF Story, Ordered
  <2>2. i \in DOMAIN q /\ q[i].kind = "checkout" /\ i \in Nat \ {0}
    BY <1>2, <1>7, LenProperties DEF Told
  <2>3. i = 1
    BY <2>1, <2>2
  <2> QED BY <1>2, <1>7, <2>2, <2>3
<1> QED BY <1>1, <1>4, <1>5, <1>6, <1>7 DEF Charged, Known, Plain

LEMMA DeliverCalm ==
  ASSUME IInv, Calm, CalmInv, NEW w \in Workers, Deliver(w)
  PROVE  CalmInv'
<1>1. UNCHANGED <<row, stripe, tab>>
  BY DEF Deliver, database, remote
<1>2. /\ Queue' = Queue /\ OneDelivery' /\ \A v \in Workers \ {w} : worker'[v] = Idle
  BY QueueDelivered
<1>3. PICK e : e \in Events /\ worker'[w] = [pc |-> e.kind, event |-> e, user |-> None, row |-> None, tier |-> "free"]
  BY QueueDelivered
<1>4. Stories' /\ OneLive' /\ Bought' /\ OneRow'
  BY <1>1, <1>2 DEF CalmInv, Stories, OneLive, Bought, OneRow, Live, Sibling
<1>5. CalmRows'
  BY <1>1, <1>2 DEF CalmInv, CalmRows, AllSay, Live, Silent, Says
<1>6. PICK d : d = worker'[w]
  OBVIOUS
<1>7. d.pc = e.kind /\ d.event = e /\ e.kind \in Kinds
  BY <1>3, <1>6 DEF Events
<1>8. DeliveryCalm(d)'
  BY <1>7 DEF DeliveryCalm, Kinds
<1>9. DeliveriesCalm'
  BY <1>2, <1>6, <1>8 DEF DeliveriesCalm
<1>10. OneRequest' /\ RequestsCalm'
  BY <1>1, RequestsStay
<1> QED BY <1>2, <1>4, <1>5, <1>9, <1>10 DEF CalmInv

LEMMA ResolveUserCalm ==
  ASSUME IInv, Calm, CalmInv, NEW w \in Workers, ResolveUser(w)
  PROVE  CalmInv'
<1>1. PICK d, s, u : d = worker[w] /\ s = d.event.sub /\ u = stripe[s].user
  OBVIOUS
<1>2. d \in Deliveries /\ d # Idle /\ s \in Sales /\ d.event.kind = "checkout" /\ u \in Users /\ stripe[s].meta = "session"
  BY <1>1, Facts, Started DEF ResolveUser, At
<1>3. u # None
  BY <1>2, NoneAssumption
<1>4. worker' = [worker EXCEPT ![w] = [d EXCEPT !.pc = "retrieve", !.user = u]] /\ UNCHANGED database /\ Handler
  <2>1. PICK x : /\ x \in IF stripe[s].meta # "none" THEN {u}
                          ELSE Pick({y \in Users : customer[y] # None /\ customer[y] = stripe[s].cust})
                 /\ IF x = None THEN Answer(w) ELSE Go(w, [d EXCEPT !.pc = "retrieve", !.user = x])
    BY <1>1, Zenon DEF ResolveUser
  <2>2. x = u
    BY <1>2, <2>1
  <2>3. UNCHANGED database /\ Handler
    BY Zenon DEF ResolveUser
  <2> QED BY <1>3, <2>1, <2>2, <2>3 DEF Go
<1>5. PICK n : n = [d EXCEPT !.pc = "retrieve", !.user = u]
  OBVIOUS
<1>6. n \in Deliveries /\ n.pc = "retrieve" /\ n.event = d.event
  BY <1>2, <1>5 DEF Deliveries
<1>7. DeliveryCalm(n)
  BY <1>2, <1>6 DEF DeliveryCalm
<1> QED BY <1>1, <1>2, <1>4, <1>5, <1>6, <1>7, HandlerGoesOn DEF database, remote, Handler

LEMMA RetrieveCalm ==
  ASSUME IInv, CalmInv, NEW w \in Workers, Retrieve(w)
  PROVE  CalmInv'
<1>1. PICK d, s : d = worker[w] /\ s = d.event.sub
  OBVIOUS
<1>2. d \in Deliveries /\ DeliveryOK(d) /\ d # Idle /\ d.event.kind = "checkout" /\ d.pc = "retrieve" /\ s \in Subs
  BY <1>1, Facts DEF Retrieve, At, DeliveryOK, Subs
<1>3. stripe[s].tier \in Tiers \cup {"free"}
  BY <1>2, Facts DEF Charged
<1>4. PICK n : n = [d EXCEPT !.pc = "find", !.tier = stripe[s].tier]
  OBVIOUS
<1>5. n \in Deliveries /\ n.pc = "find" /\ n.tier = stripe[s].tier /\ n.event = d.event
  BY <1>2, <1>3, <1>4 DEF Deliveries
<1>6. DeliveryCalm(n)
  BY <1>1, <1>2, <1>5 DEF DeliveryCalm
<1>7. worker' = [worker EXCEPT ![w] = n] /\ UNCHANGED <<row, stripe, feed, tab>>
  BY <1>1, <1>4 DEF Retrieve, Go, database, remote, Handler
<1> QED BY <1>1, <1>2, <1>5, <1>6, <1>7, HandlerGoesOn

LEMMA FindExistingCalm ==
  ASSUME IInv, CalmInv, NEW w \in Workers, FindExisting(w)
  PROVE  CalmInv'
<1>1. PICK d : d = worker[w]
  OBVIOUS
<1>2. d \in Deliveries /\ DeliveryCalm(d) /\ d # Idle /\ d.event.kind = "checkout" /\ d.pc = "find"
  BY <1>1, Facts DEF FindExisting, At, CalmInv, DeliveriesCalm
<1>3. PICK k : k \in Pick(RowsOf(d.user)) /\ Go(w, [d EXCEPT !.pc = "save", !.row = k])
  BY <1>1 DEF FindExisting
<1>4. k \in Rows \cup {None} /\ IF k = None THEN RowsOf(d.user) = {} ELSE row[k].user = d.user
  BY <1>3, NoneAssumption DEF Pick, RowsOf
<1>5. PICK n : n = [d EXCEPT !.pc = "save", !.row = k]
  OBVIOUS
<1>6. n \in Deliveries /\ n.pc = "save" /\ n.user = d.user /\ n.row = k /\ n.event = d.event /\ n.tier = d.tier
  BY <1>2, <1>4, <1>5 DEF Deliveries
<1>7. DeliveryCalm(n)
  BY <1>2, <1>4, <1>6 DEF DeliveryCalm
<1>8. worker' = [worker EXCEPT ![w] = n] /\ UNCHANGED <<row, stripe, feed, tab>>
  BY <1>3, <1>5 DEF FindExisting, Go, database, remote, Handler
<1> QED BY <1>1, <1>2, <1>6, <1>7, <1>8, HandlerGoesOn

LEMMA CompleteGiftCalm ==
  ASSUME IInv, CalmInv, NEW w \in Workers, CompleteGift(w)
  PROVE  CalmInv'
<1>1. PICK d : d = worker[w]
  OBVIOUS
<1>2. d \in Deliveries /\ d # Idle /\ d.event.kind = "checkout"
  BY <1>1, Facts DEF CompleteGift, At
<1>3. PICK n : n = [d EXCEPT !.pc = "donor"]
  OBVIOUS
<1>4. n \in Deliveries /\ n.pc = "donor" /\ n.event = d.event
  BY <1>2, <1>3 DEF Deliveries
<1>5. DeliveryCalm(n)
  BY <1>2, <1>4 DEF DeliveryCalm
<1>6. worker' = [worker EXCEPT ![w] = n] /\ UNCHANGED <<row, stripe, feed, tab>>
  BY <1>1, <1>3 DEF CompleteGift, Goto, Go, remote, Handler
<1> QED BY <1>1, <1>2, <1>4, <1>5, <1>6, HandlerGoesOn

\* A payment is looked up by its customer, who is the user of the sale.
LEMMA FindPayerCalm ==
  ASSUME IInv, CalmInv, NEW w \in Workers, FindPayer(w)
  PROVE  CalmInv'
<1>1. PICK d, s : d = worker[w] /\ s = d.event.sub
  OBVIOUS
<1>2. d \in Deliveries /\ d # Idle /\ d.event.kind \in {"succeeded", "failed"} /\ s \in Subs
  <2>1. d \in Deliveries /\ d # Idle
    BY <1>1, PayingFacts DEF FindPayer
  <2>2. d.event.kind \in {"succeeded", "failed"}
    BY <1>1 DEF FindPayer, Paying, At
  <2> QED BY <1>1, <2>1, <2>2 DEF Deliveries, Events
<1>3. PICK u : /\ u \in Pick({x \in Users : stripe[s].cust # None /\ customer[x] = stripe[s].cust})
               /\ IF u = None THEN Answer(w) ELSE Go(w, [d EXCEPT !.pc = "find", !.user = u])
  BY <1>1 DEF FindPayer
<1>4. UNCHANGED <<row, stripe, feed, tab>>
  BY DEF FindPayer, database, remote, Handler
<1>5. CASE u = None
  BY <1>1, <1>2, <1>3, <1>4, <1>5, HandlerAnswers
<1>6. CASE u # None
  <2>1. u \in Users /\ stripe[s].cust # None /\ customer[u] = stripe[s].cust
    BY <1>3, <1>6 DEF Pick
  <2>2. s \in Sales /\ u = stripe[s].user
    BY <1>2, <2>1, SameUser DEF CalmInv, Bought, Subs
  <2>3. PICK n : n = [d EXCEPT !.pc = "find", !.user = u]
    OBVIOUS
  <2>4. n \in Deliveries /\ n.pc = "find" /\ n.user = u /\ n.event = d.event
    BY <1>2, <2>1, <2>3 DEF Deliveries
  <2>5. DeliveryCalm(n)
    BY <1>1, <1>2, <2>2, <2>4 DEF DeliveryCalm
  <2>6. worker' = [worker EXCEPT ![w] = n]
    BY <1>3, <1>6, <2>3 DEF Go
  <2> QED BY <1>1, <1>2, <1>4, <2>4, <2>5, <2>6, HandlerGoesOn
<1> QED BY <1>5, <1>6

LEMMA FindRowCalm ==
  ASSUME IInv, CalmInv, NEW w \in Workers, FindRow(w)
  PROVE  CalmInv'
<1>1. PICK d : d = worker[w]
  OBVIOUS
<1>2. d \in Deliveries /\ DeliveryCalm(d) /\ d # Idle /\ d.event.kind \in {"succeeded", "failed"} /\ d.pc = "find"
  BY <1>1, Facts DEF FindRow, Paying, At, CalmInv, DeliveriesCalm
<1>3. PICK k : k \in Pick(RowsOf(d.user)) /\ Go(w, [d EXCEPT !.pc = "record", !.row = k])
  BY <1>1 DEF FindRow
<1>4. k \in Rows \cup {None} /\ (k # None => row[k].user = d.user)
  BY <1>3 DEF Pick, RowsOf
<1>5. PICK n : n = [d EXCEPT !.pc = "record", !.row = k]
  OBVIOUS
<1>6. n \in Deliveries /\ n.pc = "record" /\ n.user = d.user /\ n.row = k /\ n.event = d.event
  BY <1>2, <1>4, <1>5 DEF Deliveries
<1>7. DeliveryCalm(n)
  BY <1>2, <1>4, <1>6 DEF DeliveryCalm
<1>8. worker' = [worker EXCEPT ![w] = n] /\ UNCHANGED <<row, stripe, feed, tab>>
  BY <1>3, <1>5 DEF FindRow, Go, database, remote, Handler
<1> QED BY <1>1, <1>2, <1>6, <1>7, <1>8, HandlerGoesOn

LEMMA RecordCalm ==
  ASSUME IInv, CalmInv, NEW w \in Workers, Record(w)
  PROVE  CalmInv'
<1>1. PICK d : d = worker[w]
  OBVIOUS
<1>2. /\ d \in Deliveries /\ DeliveryCalm(d) /\ d # Idle /\ d.event.kind \in {"succeeded", "failed"} /\ d.pc = "record"
      /\ UNCHANGED <<row, stripe, feed, tab>>
  BY <1>1, Facts DEF Record, Paying, At, CalmInv, DeliveriesCalm, remote, Handler
<1>3. CASE d.row = None
  BY <1>1, <1>2, <1>3, HandlerAnswers DEF Record
<1>4. CASE d.row # None
  <2>1. PICK n : n = [d EXCEPT !.pc = "status"]
    OBVIOUS
  <2>2. n \in Deliveries /\ n.pc = "status" /\ n.user = d.user /\ n.row = d.row /\ n.event = d.event
    BY <1>2, <2>1 DEF Deliveries
  <2>3. DeliveryCalm(n)
    BY <1>2, <2>2 DEF DeliveryCalm
  <2>4. worker' = [worker EXCEPT ![w] = n]
    BY <1>1, <1>4, <2>1 DEF Record, Goto, Go
  <2> QED BY <1>1, <1>2, <2>2, <2>3, <2>4, HandlerGoesOn
<1> QED BY <1>3, <1>4

LEMMA LinkCustomerCalm ==
  ASSUME IInv, CalmInv, NEW w \in Workers, LinkCustomer(w)
  PROVE  CalmInv'
<1>1. PICK d : d = worker[w]
  OBVIOUS
<1>2. d # Idle /\ d.event.kind = "checkout" /\ d.pc = "link" /\ DeliveryCalm(d)
  BY <1>1 DEF LinkCustomer, At, CalmInv, DeliveriesCalm
<1>3. (\E k \in Rows : row[k].sub = d.event.sub) /\ AllSay(d.event.sub)
  BY <1>2 DEF DeliveryCalm
<1>4. Answer(w) /\ UNCHANGED <<row, stripe, feed, tab>>
  BY DEF LinkCustomer, remote, Handler
<1> QED BY <1>1, <1>2, <1>3, <1>4, HandlerAnswers

LEMMA GiftHandlersCalm ==
  ASSUME IInv, CalmInv, NEW w \in Workers, MarkDonor(w) \/ CancelledGift(w)
  PROVE  CalmInv'
<1>1. PICK d : d = worker[w]
  OBVIOUS
<1>2. d # Idle /\ d.event.kind \in {"checkout", "deleted"} /\ d.event.sub \in Gifts
  BY <1>1, Facts DEF MarkDonor, CancelledGift, At, DeliveryOK
<1>3. d.event.sub \notin Sales \cup {None}
  BY <1>2, SubsAssumption, NoneAssumption
<1>4. \A k \in Rows : row[k].sub # d.event.sub
  BY <1>3, Facts DEF Stored
<1>5. Answer(w) /\ UNCHANGED <<row, stripe, feed, tab>>
  BY DEF MarkDonor, CancelledGift, remote, Handler
<1> QED BY <1>1, <1>2, <1>3, <1>4, <1>5, HandlerAnswers

LEMMA FindBySubCalm ==
  ASSUME IInv, Calm, CalmInv, NEW w \in Workers, FindBySub(w)
  PROVE  CalmInv'
<1>1. PICK d, s : d = worker[w] /\ s = d.event.sub
  OBVIOUS
<1>2. d \in Deliveries /\ DeliveryOK(d) /\ d # Idle /\ d.event.kind \in {"updated", "deleted"} /\ s \in Subs
  BY <1>1, Facts DEF FindBySub, At, Deliveries, Events
<1>3. PICK k : k \in Pick(RowsWith(s)) /\ IF k = None THEN Answer(w) ELSE Go(w, [d EXCEPT !.pc = "write", !.row = k])
  BY <1>1 DEF FindBySub
<1>4. UNCHANGED <<row, stripe, feed, tab>>
  BY DEF FindBySub, database, remote, Handler
<1>5. CASE k = None
  <2>1. RowsWith(s) = {}
    BY <1>3, <1>5, NoneAssumption DEF Pick, RowsWith
  <2>2. s # None
    BY <1>2, NoneAssumption DEF Subs
  <2>3. \A x \in Rows : row[x].sub # s
    BY <2>1, <2>2, RowsBought DEF RowsWith, CalmInv
  <2>4. s \in Sales => ~Live(s)
    BY <1>1, <1>2, <2>3, Started DEF CalmInv, CalmRows
  <2> QED BY <1>1, <1>2, <1>3, <1>4, <1>5, <2>3, <2>4, HandlerAnswers
<1>6. CASE k # None
  <2>1. k \in Rows /\ row[k].sub = s
    BY <1>3, <1>6 DEF Pick, RowsWith
  <2>2. PICK n : n = [d EXCEPT !.pc = "write", !.row = k]
    OBVIOUS
  <2>3. n \in Deliveries /\ n.pc = "write" /\ n.row = k /\ n.event = d.event
    BY <1>2, <2>1, <2>2 DEF Deliveries
  <2>4. DeliveryCalm(n)
    BY <1>1, <1>2, <2>1, <2>3 DEF DeliveryCalm
  <2>5. worker' = [worker EXCEPT ![w] = n]
    BY <1>3, <1>6, <2>2 DEF Go
  <2> QED BY <1>1, <1>2, <1>4, <2>3, <2>4, <2>5, HandlerGoesOn
<1> QED BY <1>5, <1>6

\* One row carries a sale.
LEMMA OneCarries ==
  ASSUME IInv, CalmInv, NEW j \in Rows, NEW k \in Rows, row[j].sub = row[k].sub, row[k].sub # None
  PROVE  j = k
<1>1. row[j].user = row[k].user /\ row[k].user # None
  BY RowsBought DEF CalmInv
<1> QED BY <1>1 DEF CalmInv, OneRow

\* A handler rewrites the row k of an event that is no checkout and no end.
LEMMA HandlerRewrites ==
  ASSUME IInv, CalmInv, NEW w \in Workers, worker[w] # Idle, Answer(w), UNCHANGED <<stripe, feed, tab>>,
         NEW e, e = worker[w].event, e.kind \notin {"checkout", "deleted"},
         NEW k \in Rows, NEW n, UpdateOne(k, n), n.user = row[k].user, n.sub = row[k].sub, n.override = row[k].override,
         e.kind = "updated" => row[k].sub = e.sub,
         \A s \in Sales : row[k].sub = s /\ Live(s) /\ Told(Queue, "checkout", s) = {} /\ Told(Queue', "updated", s) = {} =>
           n.tier = stripe[s].tier /\ n.ending = stripe[s].ending /\ n.status = stripe[s].status
  PROVE  CalmInv'
<1>1. row'[k] = n /\ \A x \in Rows : x # k => row'[x] = row[x]
  BY OneRewritten
<1>2. \A x \in Rows : row'[x].user = row[x].user /\ row'[x].sub = row[x].sub /\ row'[x].override = row[x].override
  BY <1>1
<1>3. ASSUME NEW s \in Sales, Live(s), Told(Queue', "checkout", s) = {}
      PROVE  (\E x \in Rows : row[x].sub = s) /\ (Silent(s)' => \A x \in Rows : row[x].sub = s => Says(x, s)')
  <2>1. Told(Queue, "checkout", s) = {}
    BY <1>3, StillTold
  <2>2. (\E x \in Rows : row[x].sub = s) /\ AllSay(s)
    BY <1>3, <2>1 DEF CalmInv, CalmRows
  <2>3. ASSUME Silent(s)', NEW x \in Rows, row[x].sub = s PROVE Says(x, s)'
    <3>1. CASE x = k
      BY <1>1, <1>3, <2>1, <2>3, <3>1 DEF Says, Silent
    <3>2. CASE x # k
      <4>1. s # None
        BY NoneAssumption
      <4>2. ~(e.kind = "updated" /\ e.sub = s)
        BY <2>3, <3>2, <4>1, OneCarries
      <4>3. Silent(s)
        BY <2>3, <4>2, StillTold DEF Silent
      <4> QED BY <1>1, <1>3, <2>2, <2>3, <3>2, <4>3 DEF AllSay, Says
    <3> QED BY <3>1, <3>2
  <2> QED BY <2>2, <2>3
<1>4. ASSUME NEW x \in Rows, row[x].sub # None PROVE Live(row[x].sub) \/ Told(Queue', "deleted", row[x].sub) # {}
  <2>1. PICK s : s = row[x].sub
    OBVIOUS
  <2>2. Live(s) \/ Told(Queue, "deleted", s) # {}
    BY <1>4, <2>1 DEF CalmInv, CalmRows
  <2>3. Told(Queue', "deleted", s) = {} <=> Told(Queue, "deleted", s) = {}
    BY StillTold
  <2> QED BY <2>1, <2>2, <2>3
<1>5. CalmRows'
  BY <1>2, <1>3, <1>4 DEF CalmRows, AllSay, Live
<1> QED BY <1>2, <1>5, Handled

\* The last event of its kind is at work.
LEMMA LastHead ==
  ASSUME IInv, CalmInv, NEW w \in Workers, worker[w] # Idle, Answer(w), UNCHANGED feed, NEW kind, NEW s,
         Told(Queue', kind, s) = {}
  PROVE  \A i \in Told(Queue, kind, s) : i = 1
<1>1. PICK q : q = Queue /\ q \in Seq(Events) /\ q # <<>> /\ Queue' = Tail(q)
  BY QueueBusy, QueueAnswered DEF CalmInv
<1>2. PICK p : p = Tail(q)
  OBVIOUS
<1>3. \A i \in Told(q, kind, s) : i = 1 \/ i - 1 \in Told(p, kind, s)
  <2>1. \A i \in Told(q, kind, s) : i \in Nat \ {0} /\ (i = 1 \/ i - 1 \in Told(p, kind, s))
    BY <1>1, <1>2, ToldShifted
  <2> QED BY <2>1
<1> QED BY <1>1, <1>2, <1>3

LEMMA UpdatedCalm ==
  ASSUME IInv, Calm, CalmInv, NEW w \in Workers, Updated(w)
  PROVE  CalmInv'
<1>1. PICK d, e, k, q : d = worker[w] /\ e = d.event /\ k = d.row /\ q = Queue
  OBVIOUS
<1>2. /\ d # Idle /\ e.kind = "updated" /\ d.pc = "write"
      /\ Answer(w) /\ UNCHANGED <<stripe, feed, tab>>
  BY <1>1 DEF Updated, At, remote, Handler
<1>3. /\ d \in Deliveries /\ DeliveryOK(d) /\ DeliveryCalm(d) /\ Reported(e, settled) /\ e \in Events
      /\ q \in Seq(Events) /\ q[1] = e /\ 1 \in Told(q, "updated", e.sub)
  BY <1>1, <1>2, AtWork
<1>4. k \in Rows /\ row[k].sub = e.sub /\ row[k] \in Stored
  BY <1>1, <1>2, <1>3, Facts DEF DeliveryOK, DeliveryCalm, Deliveries
<1>5. PICK r, n : r = row[k] /\ n = [r EXCEPT !.tier = e.tier, !.status = mapStripeStatus(e.status), !.ending = e.ending]
  OBVIOUS
<1>6. UpdateOne(k, n)
  BY <1>1, <1>5 DEF Updated
<1>7. /\ n.user = row[k].user /\ n.sub = row[k].sub /\ n.override = row[k].override
      /\ n.tier = e.tier /\ n.status = mapStripeStatus(e.status) /\ n.ending = e.ending
  BY <1>4, <1>5 DEF Stored
<1>8. ASSUME NEW s \in Sales, row[k].sub = s, Live(s), Told(Queue', "updated", s) = {}
      PROVE  n.tier = stripe[s].tier /\ n.ending = stripe[s].ending /\ n.status = stripe[s].status
  <2>1. \A j \in Told(q, "updated", s) : j = 1
    BY <1>1, <1>2, <1>8, LastHead
  <2>2. Story(q, s, stripe[s]) /\ Lives(stripe[s])
    BY <1>1, <1>8 DEF CalmInv, Stories, Live, Lives
  <2>3. 1 \in Told(q, "updated", s)
    BY <1>3, <1>4, <1>8
  <2>4. \A j \in Told(q, "updated", s) : j <= 1
    BY <2>1
  <2>5. e.status = stripe[s].status /\ e.tier = stripe[s].tier /\ e.ending = stripe[s].ending
    BY <1>3, <2>2, <2>3, <2>4 DEF Story, News
  <2>6. stripe[s].status \in {"active", "past_due"}
    <3>1. stripe[s] \in Charged /\ setting.calm
      BY Facts, CalmFacts DEF Subs
    <3> QED BY <1>8, <3>1 DEF Charged, Known, Plain, Live, LiveStatuses
  <2>7. mapStripeStatus(e.status) = e.status
    BY <2>5, <2>6 DEF mapStripeStatus
  <2> QED BY <1>7, <2>5, <2>7
<1> QED BY <1>1, <1>2, <1>4, <1>6, <1>7, <1>8, HandlerRewrites

LEMMA SetStatusCalm ==
  ASSUME IInv, CalmInv, NEW w \in Workers, SetStatus(w)
  PROVE  CalmInv'
<1>1. PICK d, e, k, q, y : d = worker[w] /\ e = d.event /\ k = d.row /\ q = Queue /\ y = e.sub
  OBVIOUS
<1>2. /\ d # Idle /\ e.kind \in {"succeeded", "failed"} /\ d.pc = "status"
      /\ Answer(w) /\ UNCHANGED <<stripe, feed, tab>>
  BY <1>1 DEF SetStatus, Paying, At, remote, Handler
<1>3. /\ d \in Deliveries /\ DeliveryOK(d) /\ DeliveryCalm(d)
      /\ q \in Seq(Events) /\ q[1] = e /\ 1 \in DOMAIN q /\ 1 \in Told(q, e.kind, y)
  BY <1>1, <1>2, AtWork
<1>4. k \in Rows /\ row[k].user = d.user /\ row[k] \in Stored /\ y \in Sales /\ stripe[y].user = d.user
  BY <1>1, <1>2, <1>3, Facts DEF DeliveryOK, DeliveryCalm, Deliveries
<1>5. PICK r, n : r = row[k] /\ n = [r EXCEPT !.status = IF e.kind = "succeeded" THEN "active" ELSE "past_due"]
  OBVIOUS
<1>6. UpdateOne(k, n)
  BY <1>1, <1>5 DEF SetStatus
<1>7. /\ n.user = row[k].user /\ n.sub = row[k].sub /\ n.override = row[k].override /\ n.tier = row[k].tier
      /\ n.ending = row[k].ending /\ n.status = IF e.kind = "succeeded" THEN "active" ELSE "past_due"
  BY <1>4, <1>5 DEF Stored
<1>8. ASSUME NEW s \in Sales, row[k].sub = s, Live(s), Told(Queue, "checkout", s) = {}, Told(Queue', "updated", s) = {}
      PROVE  n.tier = stripe[s].tier /\ n.ending = stripe[s].ending /\ n.status = stripe[s].status
  <2>1. Told(q, "updated", s) = {}
    BY <1>1, <1>2, <1>8, StillTold
  <2>2. Says(k, s)
    BY <1>1, <1>4, <1>8, <2>1 DEF CalmInv, CalmRows, AllSay, Silent
  <2>3. s = y
    <3>1. SUFFICES ASSUME s # y PROVE FALSE
      OBVIOUS
    <3>2. stripe[s].user = d.user
      BY <1>4, <1>8, RowsBought, NoneAssumption DEF CalmInv
    <3>3. Before(q, y, s)
      BY <1>1, <1>4, <1>8, <3>1, <3>2 DEF CalmInv, OneLive, Sibling
    <3> QED BY <1>1, <1>3, <1>8, <3>3 DEF Before
  <2>4. Story(q, s, stripe[s]) /\ Lives(stripe[s])
    BY <1>1, <1>8 DEF CalmInv, Stories, Live, Lives
  <2>5. e.kind = "succeeded"
    BY <1>2, <1>3, <2>1, <2>3, <2>4 DEF Story, Ordered
  <2>6. stripe[s].status = "active"
    BY <1>3, <2>1, <2>3, <2>4, <2>5 DEF Story, News
  <2> QED BY <1>7, <2>2, <2>5, <2>6 DEF Says
<1> QED BY <1>1, <1>2, <1>4, <1>6, <1>7, <1>8, HandlerRewrites

LEMMA DeletedCalm ==
  ASSUME IInv, CalmInv, NEW w \in Workers, Deleted(w)
  PROVE  CalmInv'
<1>1. PICK d, e, k, q, y : d = worker[w] /\ e = d.event /\ k = d.row /\ q = Queue /\ y = e.sub
  OBVIOUS
<1>2. /\ d # Idle /\ e.kind = "deleted" /\ d.pc = "write"
      /\ Answer(w) /\ UNCHANGED <<stripe, feed, tab>>
  BY <1>1 DEF Deleted, At, remote, Handler
<1>3. /\ d \in Deliveries /\ DeliveryOK(d) /\ DeliveryCalm(d) /\ e \in Events
      /\ 1 \in Told(q, "deleted", y)
  BY <1>1, <1>2, AtWork
<1>4. k \in Rows /\ row[k].sub = y /\ row[k] \in Stored /\ y # None
  BY <1>1, <1>2, <1>3, Facts, NoneAssumption DEF DeliveryOK, DeliveryCalm, Deliveries, Events, Subs
<1>5. PICK r, n : r = row[k] /\ n = [r EXCEPT !.tier = "free", !.status = "cancelled", !.sub = None]
  OBVIOUS
<1>6. UpdateOne(k, n)
  BY <1>1, <1>5 DEF Deleted
<1>7. n.user = row[k].user /\ n.override = row[k].override /\ n.sub = None
  BY <1>4, <1>5 DEF Stored
<1>8. row'[k] = n /\ \A x \in Rows : x # k => row'[x] = row[x]
  BY <1>4, <1>6, OneRewritten
<1>9. y \in Sales /\ ~Live(y)
  <2>1. y \in Sales
    BY <1>4 DEF Stored
  <2>2. Story(q, y, stripe[y])
    BY <1>1, <2>1 DEF CalmInv, Stories
  <2> QED BY <1>3, <2>1, <2>2 DEF Story, Outcome, Live, LiveStatuses
<1>10. ASSUME NEW s \in Sales, Live(s), Told(Queue', "checkout", s) = {}
       PROVE  (\E x \in Rows : x # k /\ row[x].sub = s) /\ (Silent(s)' => \A x \in Rows : row[x].sub = s => Says(x, s))
  <2>1. Told(Queue, "checkout", s) = {} /\ (Silent(s)' => Silent(s))
    BY <1>1, <1>2, <1>10, StillTold DEF Silent
  <2> QED BY <1>4, <1>9, <1>10, <2>1 DEF CalmInv, CalmRows, AllSay
<1>11. ASSUME NEW x \in Rows, x # k, row[x].sub # None PROVE Live(row[x].sub) \/ Told(Queue', "deleted", row[x].sub) # {}
  <2>1. PICK s : s = row[x].sub
    OBVIOUS
  <2>2. Live(s) \/ Told(Queue, "deleted", s) # {}
    BY <1>11, <2>1 DEF CalmInv, CalmRows
  <2>3. s # y
    BY <1>4, <1>11, <2>1, OneCarries
  <2>4. Told(Queue', "deleted", s) = {} <=> Told(Queue, "deleted", s) = {}
    BY <1>1, <1>2, <2>3, StillTold
  <2> QED BY <2>1, <2>2, <2>4
<1>12. CalmRows'
  <2>1. ASSUME NEW s \in Sales, Live(s)', Told(Queue', "checkout", s) = {}
        PROVE  (\E x \in Rows : row'[x].sub = s) /\ AllSay(s)'
    <3>1. Live(s) /\ s # None
      BY <1>2, <2>1, NoneAssumption DEF Live
    <3> QED BY <1>2, <1>7, <1>8, <1>10, <2>1, <3>1 DEF AllSay, Says
  <2>2. ASSUME NEW x \in Rows, row'[x].sub # None PROVE Live(row'[x].sub) \/ Told(Queue', "deleted", row'[x].sub) # {}
    BY <1>2, <1>7, <1>8, <1>11, <2>2 DEF Live
  <2> QED BY <1>2, <2>1, <2>2 DEF CalmRows, Live
<1>13. \A x \in Rows : row'[x].user = row[x].user /\ row'[x].override = row[x].override
  BY <1>7, <1>8
<1> QED BY <1>1, <1>2, <1>12, <1>13, Handled

\* The row k now carries the sale of the checkout that delivery d saves.
Saved(d, k) ==
  LET n == row'[k]
      u == d.user
  IN
  /\ \A x \in Rows : x # k => row'[x] = row[x] /\ row[x].user # u
  /\ n.user = u /\ n.sub = d.event.sub /\ n.tier = d.tier /\ n.status = "active" /\ n.ending = FALSE
  /\ n.override = row[k].override
  /\ row[k] = NoRow \/ row[k].user = u

LEMMA SaveFacts ==
  ASSUME IInv, CalmInv, NEW w \in Workers, Save(w), NEW d, d = worker[w], NEW s, s = d.event.sub
  PROVE  /\ d \in Deliveries /\ d # Idle /\ d.event.kind = "checkout" /\ d.pc = "save" /\ DeliveryCalm(d)
         /\ s \in Sales /\ d.user # None /\ stripe[s].user = d.user /\ RowsWith(s) \subseteq RowsOf(d.user)
         /\ IF d.row = None THEN RowsOf(d.user) = {} ELSE d.row \in Rows /\ RowsOf(d.user) = {d.row}
<1>1. /\ d \in Deliveries /\ DeliveryOK(d) /\ DeliveryCalm(d) /\ d # Idle
      /\ d.event.kind = "checkout" /\ d.pc = "save"
  BY Facts DEF Save, At, CalmInv, DeliveriesCalm
<1>2. s \in Sales /\ d.user # None /\ stripe[s].user = d.user
  BY <1>1 DEF DeliveryOK
<1>3. RowsWith(s) \subseteq RowsOf(d.user)
  BY <1>2, RowsBought, NoneAssumption DEF RowsWith, RowsOf, CalmInv
<1>4. CASE d.row = None
  BY <1>1, <1>2, <1>3, <1>4 DEF DeliveryCalm
<1>5. CASE d.row # None
  <2>1. d.row \in Rows /\ row[d.row].user = d.user
    BY <1>1, <1>5 DEF DeliveryCalm, Deliveries
  <2>2. \A x \in Rows : row[x].user = d.user => x = d.row
    BY <1>2, <2>1 DEF CalmInv, OneRow
  <2>3. RowsOf(d.user) = {d.row}
    BY <2>1, <2>2 DEF RowsOf
  <2> QED BY <1>1, <1>2, <1>3, <1>5, <2>1, <2>3
<1> QED BY <1>4, <1>5

\* There is no clash: the row is inserted, or the one row is written over.
LEMMA SaveWrites ==
  ASSUME IInv, CalmInv, NEW w \in Workers, Save(w), NEW d, d = worker[w]
  PROVE  Goto(w, "link") /\ \E k \in Rows : Saved(d, k)
<1>1. PICK s, u, tier, rows : s = d.event.sub /\ u = d.user /\ tier = d.tier /\ rows = RowsOf(u)
  OBVIOUS
<1>2. /\ d \in Deliveries /\ s \in Sales /\ u # None /\ u \in Users /\ tier \in Tiers \cup {"free"}
      /\ RowsWith(s) \subseteq rows /\ row \in [Rows -> Stored]
      /\ IF d.row = None THEN rows = {} ELSE d.row \in Rows /\ rows = {d.row}
  <2>1. /\ d \in Deliveries /\ s \in Sales /\ u # None /\ RowsWith(s) \subseteq rows
        /\ IF d.row = None THEN rows = {} ELSE d.row \in Rows /\ rows = {d.row}
    BY <1>1, SaveFacts
  <2>2. u \in Users /\ tier \in Tiers \cup {"free"}
    BY <1>1, <2>1 DEF Deliveries
  <2>3. row \in [Rows -> Stored]
    BY Facts
  <2> QED BY <2>1, <2>2, <2>3
<1>3. ~IF d.row = None THEN RowsWith(s) # {} ELSE RowsWith(s) \ rows # {} \/ Cardinality(rows) > 1
  <2>1. CASE d.row = None
    BY <1>2, <2>1
  <2>2. CASE d.row # None
    <3>1. Cardinality(rows) = 1
      BY <1>2, <2>2, FS_Singleton
    <3> QED BY <1>2, <2>2, <3>1
  <2> QED BY <2>1, <2>2
<1>4. /\ Goto(w, "link")
      /\ IF d.row = None THEN Insert(u, SubData(s, tier, [NoRow EXCEPT !.user = u]))
         ELSE Update(u, [k \in rows |-> SubData(s, tier, row[k])])
  BY <1>1, <1>3, Zenon DEF Save
<1>5. CASE d.row = None
  <2>1. PICK o, n : o = [NoRow EXCEPT !.user = u] /\ n = SubData(s, tier, o)
    OBVIOUS
  <2>2. o \in Stored /\ o.user = u /\ o.override = "none"
    BY <1>2, <2>1 DEF NoRow, Stored, Statuses
  <2>3. PICK k \in Rows : row[k] = NoRow /\ row' = [row EXCEPT ![k] = n]
    BY <1>4, <1>5, <2>1 DEF Insert
  <2>4. row'[k] = n /\ \A x \in Rows : x # k => row'[x] = row[x]
    BY <1>2, <2>3
  <2>5. /\ n.user = u /\ n.sub = s /\ n.tier = tier /\ n.status = "active" /\ n.ending = FALSE
        /\ n.override = row[k].override
    <3>1. row[k].override = "none"
      BY <2>3 DEF NoRow
    <3>2. n = [o EXCEPT !.sub = s, !.tier = tier, !.status = "active", !.ending = FALSE]
      BY <2>1 DEF SubData
    <3> QED BY <2>2, <3>1, <3>2 DEF Stored
  <2>6. \A x \in Rows : row[x].user # u
    BY <1>1, <1>2, <1>5 DEF RowsOf
  <2>7. Saved(d, k)
    BY <1>1, <2>3, <2>4, <2>5, <2>6 DEF Saved
  <2> QED BY <1>4, <2>7
<1>6. CASE d.row # None
  <2>1. PICK k : k = d.row
    OBVIOUS
  <2>2. k \in Rows /\ rows = {k}
    BY <1>2, <1>6, <2>1
  <2>3. PICK r, n : r = row[k] /\ n = SubData(s, tier, r)
    OBVIOUS
  <2>4. PICK new : new = [x \in rows |-> SubData(s, tier, row[x])]
    OBVIOUS
  <2>5. row' = [x \in Rows |-> IF x \in DOMAIN new THEN new[x] ELSE row[x]] /\ DOMAIN new = {k} /\ new[k] = n
    BY <1>4, <1>6, <2>2, <2>3, <2>4 DEF Update
  <2>6. row'[k] = n /\ \A x \in Rows : x # k => row'[x] = row[x]
    BY <2>2, <2>5
  <2>7. /\ n.user = r.user /\ n.sub = s /\ n.tier = tier /\ n.status = "active" /\ n.ending = FALSE
        /\ n.override = r.override
    <3>1. r \in Stored
      BY <1>2, <2>2, <2>3
    <3>2. n = [r EXCEPT !.sub = s, !.tier = tier, !.status = "active", !.ending = FALSE]
      BY <2>3 DEF SubData
    <3> QED BY <3>1, <3>2 DEF Stored
  <2>8. r.user = u /\ \A x \in Rows : x # k => row[x].user # u
    BY <1>1, <2>2, <2>3 DEF RowsOf
  <2>9. Saved(d, k)
    BY <1>1, <2>3, <2>6, <2>7, <2>8 DEF Saved
  <2> QED BY <1>4, <2>2, <2>9
<1> QED BY <1>5, <1>6

LEMMA SaveCalm ==
  ASSUME IInv, Calm, CalmInv, NEW w \in Workers, Save(w)
  PROVE  CalmInv'
<1>1. PICK d, s, u, q : d = worker[w] /\ s = d.event.sub /\ u = d.user /\ q = Queue
  OBVIOUS
<1>2. /\ d \in Deliveries /\ d # Idle /\ d.event.kind = "checkout" /\ d.pc = "save" /\ DeliveryCalm(d)
      /\ s \in Sales /\ s # None /\ u # None /\ stripe[s].user = u
  BY <1>1, SaveFacts, NoneAssumption
<1>3. PICK k : k \in Rows /\ Saved(d, k)
  BY <1>1, SaveWrites
<1>4. PICK n : n = row'[k]
  OBVIOUS
<1>5. /\ \A x \in Rows : x # k => row'[x] = row[x] /\ row[x].user # u
      /\ n.user = u /\ n.sub = s /\ n.tier = d.tier /\ n.status = "active" /\ n.ending = FALSE /\ n.override = row[k].override
      /\ (row[k].user = None /\ row[k].sub = None) \/ row[k].user = u
  BY <1>1, <1>3, <1>4 DEF Saved, NoRow
<1>6. UNCHANGED <<stripe, feed, tab>>
  BY DEF Save, remote, Handler
<1>7. PICK m : m = [d EXCEPT !.pc = "link"]
  OBVIOUS
<1>8. m \in Deliveries /\ m.pc = "link" /\ m.event = d.event /\ m # Idle
  BY <1>2, <1>7 DEF Deliveries, Idle
<1>9. worker' = [worker EXCEPT ![w] = m]
  BY <1>1, <1>7, SaveWrites DEF Goto, Go
<1>10. Queue' = Queue /\ OneDelivery' /\ worker'[w] = m /\ \A v \in Workers : worker'[v] # Idle => v = w
  BY <1>1, <1>2, <1>6, <1>8, <1>9, QueueKept DEF CalmInv
<1>11. q[1].sub = s /\ 1 \in DOMAIN q /\ 1 \in Told(q, "checkout", s) /\ Story(q, s, stripe[s])
       /\ stripe[s].status \in {"active", "past_due", "canceled"}
  BY <1>1, <1>2, AtWork, Started DEF CalmInv, Stories
<1>12. Stories' /\ OneLive' /\ Bought'
  BY <1>6, <1>10 DEF CalmInv, Stories, OneLive, Bought, Live, Sibling
<1>13. OneRow'
  BY <1>4, <1>5 DEF CalmInv, OneRow
\* The row says what Stripe does, unless an update of it is still to be handled.
<1>14. AllSay(s)'
  <2>1. SUFFICES ASSUME Live(s), Silent(s), NEW x \in Rows, row'[x].sub = s PROVE Says(x, s)'
    BY <1>6, <1>10 DEF AllSay, Live, Silent
  <2>2. x = k
    <3>1. SUFFICES ASSUME x # k PROVE FALSE
      OBVIOUS
    <3>2. row[x].sub = s /\ row[x].user # u
      BY <1>5, <2>1, <3>1
    <3> QED BY <1>2, <3>2, RowsBought DEF CalmInv
  <2>3. n.tier = stripe[s].tier
    BY <1>1, <1>2, <1>5, <2>1 DEF DeliveryCalm
  <2>4. stripe[s].status = "active" /\ ~stripe[s].ending
    BY <1>1, <1>11, <2>1 DEF Story, News, Live, Lives, Silent
  <2>5. stripe[s].ending = FALSE
    <3>1. stripe[s] \in Charged
      BY <1>2, Facts DEF Subs
    <3> QED BY <2>4, <3>1 DEF Charged
  <2> QED BY <1>4, <1>5, <1>6, <2>2, <2>3, <2>4, <2>5 DEF Says
<1>15. ASSUME NEW z \in Sales, Live(z), Told(q, "checkout", z) = {}
       PROVE  z # s /\ (\E x \in Rows : x # k /\ row[x].sub = z) /\ AllSay(z)
  <2>1. z # s /\ z # None
    BY <1>11, <1>15, NoneAssumption
  <2>2. (\E x \in Rows : row[x].sub = z) /\ AllSay(z)
    BY <1>1, <1>15 DEF CalmInv, CalmRows
  <2>3. row[k].sub # z
    <3>1. SUFFICES ASSUME row[k].sub = z PROVE FALSE
      OBVIOUS
    <3>2. stripe[z].user = u
      BY <1>3, <1>5, <2>1, <3>1, RowsBought DEF CalmInv
    <3>3. Before(q, s, z)
      BY <1>1, <1>2, <1>15, <2>1, <3>2 DEF CalmInv, OneLive, Sibling
    <3> QED BY <1>11, <1>15, <3>3 DEF Before
  <2> QED BY <2>1, <2>2, <2>3
<1>16. CalmRows'
  <2>1. ASSUME NEW z \in Sales, Live(z)', Told(Queue', "checkout", z) = {}
        PROVE  (\E x \in Rows : row'[x].sub = z) /\ AllSay(z)'
    <3>1. Live(z) /\ Told(q, "checkout", z) = {}
      BY <1>1, <1>6, <1>10, <2>1 DEF Live
    <3>2. z # s /\ (\E x \in Rows : x # k /\ row[x].sub = z) /\ AllSay(z)
      BY <1>15, <3>1
    <3> QED BY <1>4, <1>5, <1>6, <1>10, <3>1, <3>2 DEF AllSay, Says, Silent
  <2>2. ASSUME NEW x \in Rows, row'[x].sub # None PROVE Live(row'[x].sub) \/ Told(q, "deleted", row'[x].sub) # {}
    <3>1. CASE x = k
      BY <1>4, <1>5, <1>11, <3>1 DEF Story, Outcome, Live, LiveStatuses
    <3>2. CASE x # k
      BY <1>1, <1>5, <2>2, <3>2 DEF CalmInv, CalmRows
    <3> QED BY <3>1, <3>2
  <2> QED BY <1>1, <1>6, <1>10, <2>1, <2>2 DEF CalmRows, Live
<1>17. DeliveryCalm(m)'
  BY <1>1, <1>2, <1>3, <1>4, <1>5, <1>8, <1>14 DEF DeliveryCalm
<1>18. DeliveriesCalm'
  BY <1>10, <1>17 DEF DeliveriesCalm
<1>19. \A x \in Rows : row'[x].user = row[x].user \/ row[x].user = None
  BY <1>4, <1>5
<1>20. OneRequest' /\ RequestsCalm'
  BY <1>6, <1>19, RequestsStay
<1> QED BY <1>10, <1>12, <1>13, <1>16, <1>18, <1>20 DEF CalmInv

-----------------------------------------------------------------------------
(* All steps together.                                                     *)

\* A restart sends the event at work again, before the others.
LEMMA CrashCalm ==
  ASSUME IInv, CalmInv, Crash
  PROVE  CalmInv'
<1>1. UNCHANGED <<row, stripe>> /\ \A t \in Tabs : tab'[t] = Idle
  BY DEF Crash, database, remote
<1>2. Queue' = Queue /\ OneDelivery' /\ \A v \in Workers : worker'[v] = Idle
  BY QueueCrashed DEF CalmInv
<1>3. Stories' /\ OneLive' /\ Bought' /\ OneRow'
  BY <1>1, <1>2 DEF CalmInv, Stories, OneLive, Bought, OneRow, Live, Sibling
<1>4. CalmRows'
  BY <1>1, <1>2 DEF CalmInv, CalmRows, AllSay, Live, Silent, Says
<1>5. OneRequest' /\ DeliveriesCalm' /\ RequestsCalm'
  BY <1>1, <1>2 DEF OneRequest, DeliveriesCalm, RequestsCalm
<1> QED BY <1>2, <1>3, <1>4, <1>5 DEF CalmInv

LEMMA WebhookCalm ==
  ASSUME IInv, Calm, CalmInv, NEW w \in Workers, Deliver(w) \/ Webhook(w) \/ HandlerFails(w)
  PROVE  CalmInv'
<1>1. CASE Deliver(w)
  BY <1>1, DeliverCalm
<1>2. CASE ResolveUser(w) \/ Retrieve(w) \/ FindExisting(w) \/ Save(w) \/ LinkCustomer(w)
  BY <1>2, ResolveUserCalm, RetrieveCalm, FindExistingCalm, SaveCalm, LinkCustomerCalm
<1>3. CASE FindBySub(w) \/ Updated(w) \/ Deleted(w)
  BY <1>3, FindBySubCalm, UpdatedCalm, DeletedCalm
<1>4. CASE FindPayer(w) \/ FindRow(w) \/ Record(w) \/ SetStatus(w)
  BY <1>4, FindPayerCalm, FindRowCalm, RecordCalm, SetStatusCalm
<1>5. CASE CompleteGift(w) \/ MarkDonor(w) \/ CancelledGift(w)
  BY <1>5, CompleteGiftCalm, GiftHandlersCalm
<1>6. CASE HandlerFails(w)
  BY <1>6 DEF HandlerFails, Calm
<1> QED BY <1>1, <1>2, <1>3, <1>4, <1>5, <1>6 DEF Webhook

\* No override is granted, so none ends.
LEMMA NoOverrideEnds ==
  ASSUME CalmInv, NEW k \in Rows, OverrideEnds(k)
  PROVE  FALSE
BY DEF CalmInv, OneRow, OverrideEnds

LEMMA CalmNext ==
  ASSUME IInv, Calm, CalmInv, Next
  PROVE  CalmInv'
<1>1. StripeKept
  BY StripeSteps
<1>2. CASE Billing
  BY <1>1, <1>2, BillingCalm
<1>3. CASE \E w \in Workers : Deliver(w) \/ Webhook(w) \/ HandlerFails(w)
  BY <1>3, WebhookCalm
<1>4. CASE \E t \in Tabs : Ask(t) \/ Serve(t) \/ RequestFails(t)
  BY <1>1, <1>4, AskCalm, ServeCalm
<1>5. CASE Crash
  BY <1>5, CrashCalm
<1>6. CASE \E k \in Rows : OverrideEnds(k)
  BY <1>6, NoOverrideEnds
<1> QED BY <1>2, <1>3, <1>4, <1>5, <1>6 DEF Next

LEMMA CalmStutters ==
  ASSUME IInv, CalmInv, UNCHANGED vars
  PROVE  CalmInv'
<1>1. UNCHANGED <<row, stripe, feed, worker, tab>>
  BY DEF vars
<1>2. Queue' = Queue /\ OneDelivery'
  BY <1>1, QueueStays DEF CalmInv
<1>3. Stories' /\ OneLive' /\ Bought' /\ OneRow'
  BY <1>1, <1>2 DEF CalmInv, Stories, OneLive, Bought, OneRow, Live, Sibling
<1>4. CalmRows'
  BY <1>1, <1>2 DEF CalmInv, CalmRows, AllSay, Live, Silent, Says
<1>5. ASSUME NEW d, DeliveryCalm(d) PROVE DeliveryCalm(d)'
  BY <1>1, <1>2, <1>5 DEF DeliveryCalm, RowsOf, AllSay, Live, Silent, Says
<1>6. DeliveriesCalm'
  BY <1>1, <1>5 DEF CalmInv, DeliveriesCalm
<1>7. OneRequest' /\ RequestsCalm'
  BY <1>1, RequestsStay
<1> QED BY <1>2, <1>3, <1>4, <1>6, <1>7 DEF CalmInv

CalmIInv == Calm => CalmInv

LEMMA CalmInductive ==
  ASSUME IInv, CalmIInv, [Next]_vars
  PROVE  CalmIInv'
<1>1. Calm' => Calm
  <2>1. CASE Next
    BY <2>1, Steps DEF Kept, Calm
  <2>2. CASE UNCHANGED vars
    BY <2>2 DEF vars, Calm
  <2> QED BY <2>1, <2>2
<1>2. Calm => CalmInv'
  BY CalmNext, CalmStutters DEF CalmIInv
<1> QED BY <1>1, <1>2 DEF CalmIInv

LEMMA InitCalm ==
  ASSUME Init
  PROVE  CalmInv
<1>1. /\ row = [k \in Rows |-> NoRow] /\ stripe = [s \in Subs |-> NoSub] /\ feed = <<>>
      /\ worker = [w \in Workers |-> Idle] /\ tab = [t \in Tabs |-> Idle]
  BY DEF Init
<1>2. Queue = <<>>
  BY <1>1, QueueIdle
<1>3. \A kind, s : Told(<<>>, kind, s) = {}
  BY DEF Told
<1>4. \A s \in Subs : stripe[s] = NoSub /\ stripe[s].status = "none" /\ stripe[s].meta = "session" /\ stripe[s].cust = None
  BY <1>1 DEF NoSub
<1>5. ASSUME NEW s \in Sales PROVE Story(<<>>, s, stripe[s])
  <2>1. stripe[s].status = "none"
    BY <1>4 DEF Subs
  <2> QED BY <1>3, <2>1 DEF Story, Ordered, Outcome, News, Lives
<1>6. Stories
  BY <1>2, <1>5 DEF Stories
<1>7. OneLive /\ Bought
  BY <1>4 DEF OneLive, Bought, Live, Subs, LiveStatuses
<1>8. OneDelivery /\ OneRequest /\ DeliveriesCalm /\ RequestsCalm
  BY <1>1 DEF OneDelivery, OneRequest, DeliveriesCalm, RequestsCalm
<1>9. OneRow /\ CalmRows
  BY <1>1, <1>4 DEF OneRow, CalmRows, NoRow, Live, Subs, LiveStatuses
<1> QED BY <1>6, <1>7, <1>8, <1>9 DEF CalmInv

LEMMA CalmAgrees ==
  ASSUME IInv, CalmInv, Quiet
  PROVE  Agreement
<1>1. Queue = <<>>
  BY QueueIdle DEF Quiet
<1>2. \A kind, s : Told(Queue, kind, s) = {}
  BY <1>1 DEF Told
<1>3. ASSUME NEW s \in Sales, Live(s) PROVE \E k \in Rows : Agrees(k, s)
  <2>1. PICK k : k \in Rows /\ row[k].sub = s /\ Says(k, s)
    BY <1>2, <1>3 DEF CalmInv, CalmRows, AllSay, Silent
  <2>2. row[k].user = stripe[s].user
    BY <2>1, RowsBought, NoneAssumption DEF CalmInv
  <2> QED BY <2>1, <2>2 DEF Agrees, Says
<1>4. \A k \in Rows : row[k].sub # None => Live(row[k].sub)
  BY <1>2 DEF CalmInv, CalmRows
<1> QED BY <1>3, <1>4 DEF Agreement

\* Where Stripe delivers in order and one at a time, each user does one thing at
\* a time and nobody grants overrides: once webhooks.ts and subscription.ts have
\* handled everything, restarts in between or not, every live sale is in a row of
\* its user with Stripe's plan, status and end, and no row carries another.
THEOREM CalmAlwaysAgrees == Spec => []CalmAgreement
<1>1. Init => CalmIInv
  BY InitCalm DEF CalmIInv
<1>2. IInv /\ CalmIInv /\ [Next]_vars => CalmIInv'
  BY CalmInductive
<1>3. IInv /\ CalmIInv => CalmAgreement
  BY CalmAgrees DEF CalmIInv, CalmAgreement, Calm
<1> QED BY <1>1, <1>2, <1>3, Invariance, PTL DEF Spec
===============================================================================

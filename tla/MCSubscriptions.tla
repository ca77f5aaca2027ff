--------------------------- MODULE MCSubscriptions ---------------------------
(* Instances of Subscriptions for TLC.                                     *)
EXTENDS Subscriptions, TLC

CONSTANTS u1, u2, s1, s2, d1

Calm ==
  [calm |-> TRUE, users |-> {u1}, subs |-> {s1}, grants |-> {}, turns |-> FALSE, cancels |-> TRUE,
   workers |-> 1, faults |-> 1, invoices |-> 2, feed |-> 3]
Wild ==
  [calm |-> FALSE, users |-> {u1}, subs |-> {s1}, grants |-> {}, turns |-> FALSE, cancels |-> FALSE,
   workers |-> 2, faults |-> 0, invoices |-> 1, feed |-> 2]

\* One subscription with renewals and a restart; two subscriptions, one after the
\* other, with a restart; two subscribers; a subscriber, a guest's donation and a
\* restart.
CalmSettings ==
  {Calm, [Calm EXCEPT !.subs = {s1, s2}, !.invoices = 1],
   [Calm EXCEPT !.users = {u1, u2}, !.subs = {s1, s2}, !.faults = 0, !.invoices = 1],
   [Calm EXCEPT !.subs = {s1, d1}, !.invoices = 1]}

\* In turn: two subscribers, with a fault; two users, of whom one subscribes and
\* cancels; two users with two subscriptions, of one user or of each, whose
\* deliveries overlap; a subscriber who donates, with a fault; renewed donations, with a fault;
\* statuses nobody asked for; overrides.
WildSettings ==
  {[Wild EXCEPT !.users = {u1, u2}, !.subs = {s1, s2}, !.workers = 1, !.faults = 1],
   [Wild EXCEPT !.users = {u1, u2}, !.cancels = TRUE],
   [Wild EXCEPT !.users = {u1, u2}, !.subs = {s1, s2}],
   [Wild EXCEPT !.subs = {s1, d1}, !.workers = 1, !.faults = 1],
   [Wild EXCEPT !.subs = {d1}, !.faults = 1, !.invoices = 2, !.feed = 3],
   [Wild EXCEPT !.turns = TRUE, !.cancels = TRUE, !.workers = 1],
   [Calm EXCEPT !.grants = {<<"premium", "active">>, <<"free", "expired">>}, !.faults = 0, !.invoices = 1, !.feed = 2]}

MCSettings == CalmSettings \cup WildSettings

\* No action names a user or a subscription, so that a setting may be permuted.
Symmetry == Permutations(Users) \cup Permutations(Sales) \cup Permutations(Customers) \cup Permutations(Workers)
=============================================================================

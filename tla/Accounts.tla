------------------------------ MODULE Accounts ------------------------------
(***************************************************************************)
(* Accounts, sessions and devices of the tuning product: cloud-api's       *)
(* auth.ts, the parts of users.ts and admin.ts that change accounts, and   *)
(* license.ts, over the tables users, connected_accounts, refresh_tokens   *)
(* and machine_activations.  Requests interleave at every await; a query   *)
(* is one step.  The unique indexes of packages/db/src/schema.ts make the  *)
(* second of two conflicting inserts fail.                                 *)
(***************************************************************************)
EXTENDS Naturals, FiniteSets

CONSTANTS
  Users,      \* ids of rows of the table users
  Emails,
  Identities, \* accounts at Google or Apple
  Provider,   \* the provider of each identity
  Mail,       \* the verified address it reports; None when it is hidden
  MaxTokens,   \* bound: refresh tokens
  MaxMachines, \* bound: rows of machine_activations
  Devices,    \* device fingerprints
  Requests,   \* requests handled at the same time
  None,
  Settings    \* the settings explored: see setting

Tokens == 1 .. MaxTokens
Machines == 1 .. MaxMachines

ASSUME ProviderAssumption == DOMAIN Provider = Identities
ASSUME MailAssumption == Mail \in [Identities -> Emails \cup {None}]
ASSUME BoundsAssumption == MaxTokens \in Nat /\ MaxMachines \in Nat
ASSUME RequestsAssumption == IsFiniteSet(Requests)
ASSUME NoneAssumption == None \notin Users \cup Identities \cup Emails \cup Tokens
ASSUME SettingsAssumption ==
  \A s \in Settings : /\ \A kind \in DOMAIN s.allow : s.allow[kind] \in Nat
                      /\ s.together \in Nat /\ s.tokens \subseteq Tokens

VARIABLES
  setting,  \* fixed: the kinds of requests and how many of a kind run at the same
            \* time for one account (allow), the requests that run at the same
            \* time (together), the accounts, the tokens, and whether a restart
            \* may happen
  state,    \* per user: "none", "live" or "deleted" (deletedAt)
  email,    \* users.email; None stands for an address made from the row's id
  hidden,   \* users.email made from an identity without an address
  password, \* the users with a password
  seeded,   \* the users whose rows in subscriptions and user_preferences exist
  link,     \* connected_accounts: the user of an identity
  token,    \* refresh_tokens
  machine,  \* machine_activations
  plan,     \* what Subscriptions grants a user: "free", "premium" or "expert"
  peak,     \* history: the greatest plan of a user so far
  key,      \* the users with an active licence key
  request,  \* requests being handled
  crashed   \* history: a restart interrupted requests

tables == <<state, email, hidden, password, seeded, link, token, machine, key>>
vars == <<setting, state, email, hidden, password, seeded, link, token, machine, plan, peak, key,
          request, crashed>>

NoToken == [user |-> None, live |-> FALSE, from |-> None]
NoMachine == [user |-> None, device |-> None, active |-> FALSE]
Idle == [pc |-> "idle"]

Linked(u) == {i \in Identities : link[i] = u}
Enabled(u) == state[u] = "live"
ActiveMachines(u) == {m \in Machines : machine[m].user = u /\ machine[m].active}
EmailTaken(e) == \E u \in Users : email[u] = e

-----------------------------------------------------------------------------
(* Requests.  who is the account, or the identity of a sign-in.            *)

Same(kind, who) == {q \in Requests : request[q] # Idle /\ request[q].kind = kind /\ request[q].who = who}

Begin(r, kind, who, arg) ==
  /\ kind \in DOMAIN setting.allow
  /\ request[r] = Idle
  /\ Cardinality({q \in Requests : request[q] # Idle}) < setting.together
  /\ Cardinality(Same(kind, who)) < setting.allow[kind]
  /\ request' = [request EXCEPT ![r] =
       [kind |-> kind, pc |-> "start", who |-> who, arg |-> arg, user |-> None, found |-> None]]
  /\ UNCHANGED <<setting, tables, plan, peak, crashed>>

At(r, kind, pc) == request[r] # Idle /\ request[r].kind = kind /\ request[r].pc = pc
Goto(r, pc) == request' = [request EXCEPT ![r].pc = pc]
With(r, pc, u) == request' = [request EXCEPT ![r].pc = pc, ![r].user = u]
Found(r, pc, x) == request' = [request EXCEPT ![r].pc = pc, ![r].found = x]
Reply(r) == request' = [request EXCEPT ![r] = Idle]
Frame == UNCHANGED <<setting, plan, peak, crashed>>
Reads == UNCHANGED tables /\ Frame

\* requireAuth: the account of the access token is not deleted.
Ask(r, kind, u, arg) == Enabled(u) /\ Begin(r, kind, u, arg)

\* issueRefreshToken, the last step of every sign-in; a setting without tokens
\* leaves them out.
Issue(r) ==
  /\ request[r] # Idle /\ request[r].pc = "issue"
  /\ IF setting.tokens = {} THEN UNCHANGED token
     ELSE \E t \in setting.tokens :
            /\ \A x \in Tokens : token[x] = NoToken <=> x >= t
            /\ token' = [token EXCEPT ![t] = [user |-> request[r].user, live |-> TRUE,
                 from |-> IF request[r].kind = "refresh" THEN request[r].arg ELSE None]]
  /\ Reply(r)
  /\ UNCHANGED <<state, email, hidden, password, seeded, link, machine, key>> /\ Frame

\* A row of users, with its email when it is free.
Create(u, e, anonymous, pass) ==
  /\ state[u] = "none" /\ Cardinality({v \in Users : state[v] # "none"}) < setting.accounts
  /\ state' = [state EXCEPT ![u] = "live"]
  /\ email' = [email EXCEPT ![u] = e]
  /\ hidden' = [hidden EXCEPT ![u] = anonymous]
  /\ password' = IF pass THEN password \cup {u} ELSE password

-----------------------------------------------------------------------------
(* auth.ts: passwords and refresh tokens.                                  *)

\* POST /register: the email is looked up; the account and its rows are one
\* transaction.
RegisterLookup(r) ==
  /\ At(r, "register", "start")
  /\ IF EmailTaken(request[r].arg) THEN Reply(r) ELSE Goto(r, "insert")
  /\ Reads

RegisterInsert(r) ==
  /\ At(r, "register", "insert")
  /\ IF EmailTaken(request[r].arg)
       THEN Reply(r) /\ UNCHANGED <<state, email, hidden, password, seeded>>
       ELSE \E u \in Users :
              /\ Create(u, request[r].arg, None, TRUE)
              /\ seeded' = seeded \cup {u}
              /\ With(r, "issue", u)
  /\ UNCHANGED <<link, token, machine, key>> /\ Frame

\* POST /login with the right password.
Login(r) ==
  /\ At(r, "login", "start")
  /\ LET u == request[r].who IN
     IF Enabled(u) /\ u \in password THEN With(r, "issue", u) ELSE Reply(r)
  /\ Reads

Revoke(ts) == token' = [t \in Tokens |-> IF t \in ts THEN [token[t] EXCEPT !.live = FALSE] ELSE token[t]]
TokensOf(u) == {t \in Tokens : token[t].user = u}

\* Mutant: the token is looked up, and revoked by its id afterwards.
RefreshRevokeLate(r) ==
  /\ At(r, "refresh", "start") \/ At(r, "refresh", "late")
  /\ LET t == request[r].arg IN
     IF request[r].pc = "start"
       THEN (IF token[t].live THEN Goto(r, "late") ELSE Reply(r)) /\ UNCHANGED token
       ELSE Revoke({t}) /\ With(r, "user", token[t].user)
  /\ UNCHANGED <<state, email, hidden, password, seeded, link, machine, key>> /\ Frame

\* POST /refresh: one UPDATE revokes the token if it was live.
RefreshRevoke(r) ==
  /\ At(r, "refresh", "start")
  /\ LET t == request[r].arg IN
     IF token[t].live THEN Revoke({t}) /\ With(r, "user", token[t].user)
     ELSE Reply(r) /\ UNCHANGED token
  /\ UNCHANGED <<state, email, hidden, password, seeded, link, machine, key>> /\ Frame

RefreshUser(r) ==
  /\ At(r, "refresh", "user")
  /\ IF Enabled(request[r].user) THEN Goto(r, "issue") ELSE Reply(r)
  /\ Reads

\* POST /logout.
Logout(r) ==
  /\ At(r, "logout", "start")
  /\ Revoke({request[r].arg} \cap TokensOf(request[r].who)) /\ Reply(r)
  /\ UNCHANGED <<state, email, hidden, password, seeded, link, machine, key>> /\ Frame

\* POST /me/password and /reset-password, of an account that has a password:
\* the new one is stored, then every token is revoked.
ReadPassword(r) ==
  /\ At(r, "password", "start")
  /\ IF request[r].who \in password THEN Goto(r, "store") ELSE Reply(r)
  /\ Reads

StorePassword(r) ==
  /\ At(r, "password", "store")
  /\ password' = password \cup {request[r].who} /\ Goto(r, "revoke")
  /\ UNCHANGED <<state, email, hidden, seeded, link, token, machine, key>> /\ Frame

RevokeAll(r) ==
  /\ At(r, "password", "revoke")
  /\ Revoke(TokensOf(request[r].who)) /\ Reply(r)
  /\ UNCHANGED <<state, email, hidden, password, seeded, link, machine, key>> /\ Frame

-----------------------------------------------------------------------------
(* auth.ts, oauthSignIn.                                                   *)

OAuthLink(r) ==
  LET i == request[r].who IN
  /\ At(r, "oauth", "start")
  /\ IF link[i] # None THEN With(r, "known", link[i]) ELSE Goto(r, "byEmail")
  /\ Reads

OAuthKnown(r) ==
  /\ At(r, "oauth", "known")
  /\ IF Enabled(request[r].user) THEN Goto(r, "issue") ELSE Reply(r)
  /\ Reads

\* An account with the address of the identity, if it has one.
OAuthByEmail(r) ==
  LET e == Mail[request[r].who] IN
  /\ At(r, "oauth", "byEmail")
  /\ IF e # None /\ EmailTaken(e)
       THEN \E u \in Users : email[u] = e /\ IF Enabled(u) THEN With(r, "link", u) ELSE Reply(r)
       ELSE Goto(r, "create")
  /\ Reads

\* A new account, whose rows and link are statements of their own.
OAuthCreate(r) ==
  LET i == request[r].who
      e == Mail[i]
      clash == IF e = None THEN \E u \in Users : hidden[u] = i ELSE EmailTaken(e)
  IN
  /\ At(r, "oauth", "create")
  /\ IF clash THEN Reply(r) /\ UNCHANGED <<state, email, hidden, password>>
     ELSE \E u \in Users : Create(u, e, IF e = None THEN i ELSE None, FALSE) /\ With(r, "seed", u)
  /\ UNCHANGED <<seeded, link, token, machine, key>> /\ Frame

OAuthSeed(r) ==
  /\ At(r, "oauth", "seed")
  /\ seeded' = seeded \cup {request[r].user} /\ Goto(r, "link")
  /\ UNCHANGED <<state, email, hidden, password, link, token, machine, key>> /\ Frame

\* onConflictDoNothing: an identity linked meanwhile keeps its user.
OAuthInsertLink(r) ==
  LET i == request[r].who IN
  /\ At(r, "oauth", "link")
  /\ link' = IF link[i] = None THEN [link EXCEPT ![i] = request[r].user] ELSE link
  /\ Goto(r, "issue")
  /\ UNCHANGED <<state, email, hidden, password, seeded, token, machine, key>> /\ Frame

-----------------------------------------------------------------------------
(* users.ts and admin.ts: identities, addresses and deletion.              *)

\* POST /me/connected-accounts.
LinkProvider(r) ==
  LET mine == {i \in Linked(request[r].who) : Provider[i] = Provider[request[r].arg]} IN
  /\ At(r, "link", "start")
  /\ IF mine # {} THEN Reply(r) ELSE Goto(r, "taken")
  /\ Reads

LinkTaken(r) ==
  /\ At(r, "link", "taken")
  /\ IF link[request[r].arg] # None THEN Reply(r) ELSE Goto(r, "insert")
  /\ Reads

LinkInsert(r) ==
  LET i == request[r].arg IN
  /\ At(r, "link", "insert")
  /\ link' = IF link[i] = None THEN [link EXCEPT ![i] = request[r].who] ELSE link
  /\ Reply(r)
  /\ UNCHANGED <<state, email, hidden, password, seeded, token, machine, key>> /\ Frame

\* DELETE /me/connected-accounts/:provider.
UnlinkPassword(r) ==
  /\ At(r, "unlink", "start")
  /\ IF request[r].who \in password THEN Goto(r, "delete") ELSE Goto(r, "others")
  /\ Reads

\* Mutant: the identities to be removed are counted with the others.
UnlinkAny(r) ==
  LET others == Linked(request[r].who) IN
  /\ At(r, "unlink", "others")
  /\ IF others = {} THEN Reply(r) ELSE Goto(r, "delete")
  /\ Reads

UnlinkOthers(r) ==
  LET others == {i \in Linked(request[r].who) : Provider[i] # request[r].arg} IN
  /\ At(r, "unlink", "others")
  /\ IF others = {} THEN Reply(r) ELSE Goto(r, "delete")
  /\ Reads

UnlinkDelete(r) ==
  /\ At(r, "unlink", "delete")
  /\ link' = [i \in Identities |->
       IF link[i] = request[r].who /\ Provider[i] = request[r].arg THEN None ELSE link[i]]
  /\ Reply(r)
  /\ UNCHANGED <<state, email, hidden, password, seeded, token, machine, key>> /\ Frame

\* POST /me/email, of an account with a password.
EmailRead(r) ==
  /\ At(r, "email", "start")
  /\ IF request[r].who \in password THEN Goto(r, "conflict") ELSE Reply(r)
  /\ Reads

EmailConflict(r) ==
  /\ At(r, "email", "conflict")
  /\ IF EmailTaken(request[r].arg) THEN Reply(r) ELSE Goto(r, "write")
  /\ Reads

\* Mutant: nothing but the lookup keeps addresses apart.
EmailWriteFree(r) ==
  LET u == request[r].who IN
  /\ At(r, "email", "write")
  /\ email' = [email EXCEPT ![u] = request[r].arg]
  /\ Reply(r)
  /\ UNCHANGED <<state, hidden, password, seeded, link, token, machine, key>> /\ Frame

EmailWrite(r) ==
  LET u == request[r].who IN
  /\ At(r, "email", "write")
  /\ email' = IF EmailTaken(request[r].arg) THEN email ELSE [email EXCEPT ![u] = request[r].arg]
  /\ Reply(r)
  /\ UNCHANGED <<state, hidden, password, seeded, link, token, machine, key>> /\ Frame

\* DELETE /me: the account is scrubbed, its tokens and devices are revoked.  The
\* administrator's deletion ends after the first of these.
Scrub(r) ==
  LET u == request[r].who IN
  /\ At(r, "delete", "start") \/ At(r, "adminDelete", "start")
  /\ state' = [state EXCEPT ![u] = "deleted"]
  /\ email' = [email EXCEPT ![u] = None] /\ hidden' = [hidden EXCEPT ![u] = None]
  /\ password' = password \ {u}
  /\ IF request[r].kind = "delete" THEN Goto(r, "tokens") ELSE Reply(r)
  /\ UNCHANGED <<seeded, link, token, machine, key>> /\ Frame

DeleteTokens(r) ==
  /\ At(r, "delete", "tokens")
  /\ Revoke(TokensOf(request[r].who)) /\ Goto(r, "machines")
  /\ UNCHANGED <<state, email, hidden, password, seeded, link, machine, key>> /\ Frame

Deactivate(ms) == machine' = [m \in Machines |-> IF m \in ms THEN [machine[m] EXCEPT !.active = FALSE] ELSE machine[m]]

DeleteMachines(r) ==
  /\ At(r, "delete", "machines")
  /\ Deactivate({m \in Machines : machine[m].user = request[r].who}) /\ Reply(r)
  /\ UNCHANGED <<state, email, hidden, password, seeded, link, token, key>> /\ Frame

-----------------------------------------------------------------------------
(* users.ts and license.ts: devices.                                       *)

\* A device of the account, by its row.
Rows(u, d) == {m \in Machines : machine[m].user = u /\ machine[m].device = d}

\* POST /me/machines: the active row of the device, if any, ...
FindActive(r) ==
  LET rows == Rows(request[r].who, request[r].arg) \cap ActiveMachines(request[r].who) IN
  /\ At(r, "device", "start")
  /\ IF rows # {} THEN Reply(r) ELSE Goto(r, "tier")
  /\ Reads

\* ... the entitlement, where a licence key comes before the subscription ...
ReadTier(r) ==
  LET u == request[r].who
      tier == IF u \in key THEN "premium" ELSE plan[u]
  IN
  /\ At(r, "device", "tier")
  /\ Found(r, "count", IF tier = "expert" THEN 3 ELSE 1)
  /\ Reads

\* Mutant: one device too many.
CountMore(r) ==
  /\ At(r, "device", "count") \/ At(r, "validate", "count")
  /\ IF Cardinality(ActiveMachines(request[r].who)) > request[r].found
       THEN Reply(r) ELSE Goto(r, "insert")
  /\ Reads

\* ... the limit of its tier ...
CountMachines(r) ==
  /\ At(r, "device", "count") \/ At(r, "validate", "count")
  /\ IF Cardinality(ActiveMachines(request[r].who)) >= request[r].found
       THEN Reply(r) ELSE Goto(r, "insert")
  /\ Reads

\* ... and a new row.
InsertMachine(r) ==
  /\ At(r, "device", "insert") \/ At(r, "validate", "insert")
  /\ \E m \in Machines :
       /\ \A x \in Machines : machine[x] = NoMachine <=> x >= m
       /\ machine' = [machine EXCEPT ![m] = [user |-> request[r].who, device |-> request[r].arg, active |-> TRUE]]
  /\ Reply(r)
  /\ UNCHANGED <<state, email, hidden, password, seeded, link, token, key>> /\ Frame

\* POST /license/validate with a licence key: the key, its account ...
ValidateKey(r) ==
  /\ At(r, "validate", "start")
  /\ IF request[r].who \in key THEN Goto(r, "account") ELSE Reply(r)
  /\ Reads

ValidateAccount(r) ==
  /\ At(r, "validate", "account")
  /\ IF Enabled(request[r].who) THEN Goto(r, "device") ELSE Reply(r)
  /\ Reads

\* ... and any row of the device: a revoked one refuses it, an active one is
\* enough, without one the key's only device is counted.
ValidateDevice(r) ==
  /\ At(r, "validate", "device")
  /\ IF Rows(request[r].who, request[r].arg) # {} THEN Reply(r) ELSE Found(r, "count", 1)
  /\ Reads

\* DELETE /me/machines/:id and POST /license/revoke/:id.
RevokeMachine(r) ==
  /\ At(r, "revoke", "start")
  /\ Deactivate({request[r].arg} \cap {m \in Machines : machine[m].user = request[r].who})
  /\ Reply(r)
  /\ UNCHANGED <<state, email, hidden, password, seeded, link, token, key>> /\ Frame

\* What Subscriptions grants (external here), and a key given to the account.
Rank(p) == CASE p = "free" -> 0 [] p = "premium" -> 1 [] p = "expert" -> 2
ChangePlan(u, p) ==
  /\ "device" \in DOMAIN setting.allow /\ Enabled(u) /\ p # plan[u]
  /\ plan' = [plan EXCEPT ![u] = p]
  /\ peak' = [peak EXCEPT ![u] = IF Rank(p) > Rank(@) THEN p ELSE @]
  /\ UNCHANGED <<setting, tables, request, crashed>>

IssueKey(u) ==
  /\ "validate" \in DOMAIN setting.allow /\ Enabled(u) /\ u \notin key
  /\ key' = key \cup {u}
  /\ UNCHANGED <<setting, state, email, hidden, password, seeded, link, token, machine, plan, peak, request, crashed>>

-----------------------------------------------------------------------------
(* The server.                                                             *)

Start(r) ==
  \/ \E e \in Emails : Begin(r, "register", None, e)
  \/ \E i \in Identities : Begin(r, "oauth", i, None)
  \/ \E t \in Tokens : token[t] # NoToken /\ Begin(r, "refresh", token[t].user, t)
  \/ \E u \in Users :
       \/ u \in password /\ Begin(r, "login", u, None)
       \/ Enabled(u) /\ Begin(r, "adminDelete", u, None)
       \/ \E kind \in {"password", "delete"} : Ask(r, kind, u, None)
       \/ \E t \in Tokens : token[t] # NoToken /\ Ask(r, "logout", u, t)
       \/ \E i \in Identities : Ask(r, "link", u, i) \/ Ask(r, "unlink", u, Provider[i])
       \/ \E e \in Emails : Ask(r, "email", u, e)
       \/ \E d \in Devices : Ask(r, "device", u, d) \/ Begin(r, "validate", u, d)
       \/ \E m \in Machines : Ask(r, "revoke", u, m)

\* A restart: the requests are gone.
Restart ==
  /\ setting.restart /\ ~crashed /\ \E r \in Requests : request[r] # Idle
  /\ request' = [r \in Requests |-> Idle] /\ crashed' = TRUE
  /\ UNCHANGED <<setting, tables, plan, peak>>

Handle(r) ==
  \/ RegisterLookup(r) \/ RegisterInsert(r) \/ Login(r) \/ Issue(r)
  \/ RefreshRevoke(r) \/ RefreshUser(r) \/ Logout(r)
  \/ ReadPassword(r) \/ StorePassword(r) \/ RevokeAll(r)
  \/ OAuthLink(r) \/ OAuthKnown(r) \/ OAuthByEmail(r) \/ OAuthCreate(r)
  \/ OAuthSeed(r) \/ OAuthInsertLink(r)
  \/ LinkProvider(r) \/ LinkTaken(r) \/ LinkInsert(r)
  \/ UnlinkPassword(r) \/ UnlinkOthers(r) \/ UnlinkDelete(r)
  \/ EmailRead(r) \/ EmailConflict(r) \/ EmailWrite(r)
  \/ Scrub(r) \/ DeleteTokens(r) \/ DeleteMachines(r)
  \/ FindActive(r) \/ ReadTier(r) \/ CountMachines(r) \/ InsertMachine(r)
  \/ ValidateKey(r) \/ ValidateAccount(r) \/ ValidateDevice(r) \/ RevokeMachine(r)

Init ==
  /\ setting \in Settings
  /\ state = [u \in Users |-> "none"] /\ email = [u \in Users |-> None]
  /\ hidden = [u \in Users |-> None] /\ password = {} /\ seeded = {} /\ key = {}
  /\ link = [i \in Identities |-> None] /\ token = [t \in Tokens |-> NoToken]
  /\ machine = [m \in Machines |-> NoMachine]
  /\ plan = [u \in Users |-> "free"] /\ peak = plan
  /\ request = [r \in Requests |-> Idle] /\ crashed = FALSE

Next ==
  \/ \E r \in Requests : Start(r) \/ Handle(r)
  \/ \E u \in Users, p \in {"free", "premium", "expert"} : ChangePlan(u, p)
  \/ \E u \in Users : IssueKey(u)
  \/ Restart

Spec == Init /\ [][Next]_vars

-----------------------------------------------------------------------------
(* Properties.                                                             *)

Quiet == \A r \in Requests : request[r] = Idle

\* The shape of the tables, their unique indexes and foreign keys: addresses are
\* unique, an account without rows of its own comes from a sign-in that did not end.
TypeOK ==
  /\ setting \in Settings
  /\ state \in [Users -> {"none", "live", "deleted"}]
  /\ email \in [Users -> Emails \cup {None}] /\ hidden \in [Users -> Identities \cup {None}]
  /\ \A u, v \in Users : u # v => (email[u] # None => email[u] # email[v])
                               /\ (hidden[u] # None => hidden[u] # hidden[v])
  /\ password \subseteq Users /\ seeded \subseteq Users /\ key \subseteq Users
  /\ link \in [Identities -> Users \cup {None}]
  /\ \A u \in Users : state[u] = "none" => u \notin password \cup seeded /\ Linked(u) = {}
  /\ token \in [Tokens -> [user : Users \cup {None}, live : BOOLEAN, from : Tokens \cup {None}]]
  /\ machine \in [Machines -> [user : Users \cup {None}, device : Devices \cup {None}, active : BOOLEAN]]
  /\ plan \in [Users -> {"free", "premium", "expert"}] /\ peak \in [Users -> {"free", "premium", "expert"}]
  /\ crashed \in BOOLEAN
  /\ (Quiet /\ ~crashed) => seeded = {u \in Users : state[u] # "none"}

\* A refresh token is exchanged for one token at most, however many requests
\* carry it at the same time (the comment of auth.ts:247-250), and the tokens of a
\* session belong to one account.
OneSuccessor ==
  \A t, x \in Tokens :
    token[t].from # None =>
      /\ token[x].from = token[t].from => x = t
      /\ token[t].user = token[token[t].from].user
      /\ ~token[token[t].from].live

\* An account that is not deleted can be signed in to, by its password or by an
\* identity linked to it.  Claimed of requests that run one after the other and
\* end (users.ts:592).
CanSignIn ==
  (Quiet /\ ~crashed /\ setting.together = 1) =>
    \A u \in Users : Enabled(u) => u \in password \/ Linked(u) # {}

\* Devices are never more than the greatest plan of the account allows, while
\* plans change, devices are revoked and the account signs in and out.  Claimed
\* of one registration of an account at a time.
OneRegistration ==
  \A kind, other \in {"device", "validate"} \cap DOMAIN setting.allow :
    setting.allow[kind] = 1 /\ kind = other
Limit(u) == IF peak[u] = "expert" THEN 3 ELSE 1
DeviceLimit ==
  OneRegistration => \A u \in Users : Cardinality(ActiveMachines(u)) <= Limit(u)
=============================================================================
